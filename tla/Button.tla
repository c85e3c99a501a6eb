------------------------------- MODULE Button -------------------------------
(* The push button of Src/Button.c: the EXTI interrupt records every edge   *)
(* with its tick, a task calls Button_Process now and then, which replays   *)
(* the edges, samples the pin when a deadline is due and classifies the     *)
(* gesture by how long the button was held.                                 *)
(*                                                                          *)
(* The history variable ideal is an observer without queue and without      *)
(* delay: it sees every edge at once and owes one event for each press that *)
(* lasted long enough.                                                      *)
EXTENDS Integers, Sequences

CONSTANTS
    EdgeCapacity,   \* BUTTON_EDGE_CAPACITY
    DebounceTime,   \* debounce_ms
    LongTime,       \* BUTTON_LONG_MS
    ExtraLongTime,  \* BUTTON_EXTRA_LONG_MS
    Ticks,          \* the tick counter wraps around at this value (2^32)
    FirstTick,      \* the tick counter when the model's time begins
    EndOfTime,      \* bound: the time a behaviour covers
    MaxEdges,       \* bound: edges of the pin
    MaxLost         \* bound: edges for which no interrupt comes

ASSUME ButtonAssumption ==
    /\ Ticks \in Nat /\ EndOfTime \in Nat
    /\ EdgeCapacity \in 2 .. 255
    /\ DebounceTime \in Nat /\ LongTime \in Nat /\ ExtraLongTime \in Nat
    /\ LongTime <= ExtraLongTime
    /\ FirstTick \in 0 .. Ticks - 1
    /\ EndOfTime < Ticks

VARIABLES
    time,           \* real time; the code sees TickAt(time)
    pin,            \* the button is physically down
    edgesLeft,      \* edges the pin may still make
    lost,           \* edges that were lost
    button,         \* the Button structure
    ideal,          \* history: the observer
    verdict         \* history: the last event was the one owed

buttonVars == <<time, pin, edgesLeft, lost, button, ideal, verdict>>

TickAt(t) == (FirstTick + t) % Ticks
Elapsed(from, to) == (to - from) % Ticks
Due(from, duration, to) == Elapsed(from, to) >= duration

(* stable is stable_state = active_state; irq_pending is edges # <<>> after *)
(* every call, and registered is always set.                                *)
Released == [phase |-> "idle", stable |-> FALSE, level |-> FALSE, debounceTick |-> 0,
             pressTick |-> 0, extra |-> FALSE, suppress |-> FALSE,
             edges |-> <<>>, overflow |-> FALSE]

(* Button_Init: a button held down at start is tracked, not reported.       *)
ButtonStart(down) ==
    IF down THEN [Released EXCEPT !.phase = "held", !.stable = TRUE, !.suppress = TRUE]
    ELSE Released

IdealStart(down) == [pressed |-> down, skip |-> down, early |-> FALSE,
                     pressAt |-> 0, since |-> 0, owed |-> <<>>]

ButtonInit ==
    /\ time = 0 /\ edgesLeft = MaxEdges /\ lost = 0 /\ verdict = "right"
    /\ pin \in BOOLEAN
    /\ button = ButtonStart(pin)
    /\ ideal = IdealStart(pin)

-----------------------------------------------------------------------------
(* The observer.  A level that lasted for the debounce time is stable.      *)
Class(held) ==
    IF held >= ExtraLongTime THEN "EXTRA_LONG"
    ELSE IF held >= LongTime THEN "LONG" ELSE "SHORT"

Settled ==
    IF time - ideal.since < DebounceTime \/ pin = ideal.pressed THEN ideal
    ELSE IF pin THEN [ideal EXCEPT !.pressed = TRUE, !.skip = FALSE, !.early = FALSE,
                                   !.pressAt = ideal.since]
    ELSE [ideal EXCEPT !.pressed = FALSE, !.early = FALSE,
                       !.owed = IF ideal.skip \/ ideal.early THEN @
                                ELSE Append(@, Class(ideal.since - ideal.pressAt))]

(* After an overflow the gesture under way is discarded, and every other    *)
(* that begins before a stable release.                                     *)
Discarded == [ideal EXCEPT !.pressed = TRUE, !.skip = TRUE, !.early = FALSE,
                           !.since = time, !.pressAt = time, !.owed = <<>>]

(* An event is right when it is the next one owed, or the early report of a *)
(* press that has lasted for the extra long time.                           *)
EarlyRight(h) == h.pressed /\ ~h.skip /\ ~h.early /\ time - h.pressAt >= ExtraLongTime

Observe(event) ==
    LET h == Settled IN
    \/ event = "NONE" /\ ideal' = h /\ verdict' = "right"
    \/ event # "NONE" /\ h.owed # <<>>
         /\ ideal' = [h EXCEPT !.owed = Tail(@)]
         /\ verdict' = IF event = Head(h.owed) THEN "right" ELSE "wrong"
    \/ event # "NONE" /\ h.owed = <<>>
         /\ ideal' = [h EXCEPT !.early = TRUE]
         /\ verdict' = IF event = "EXTRA_LONG" /\ EarlyRight(h) THEN "right" ELSE "wrong"

-----------------------------------------------------------------------------
(* Button_NotifyExti.                                                       *)
Notified(b, level) ==
    IF b.overflow \/ Len(b.edges) = EdgeCapacity THEN [b EXCEPT !.overflow = TRUE]
    ELSE [b EXCEPT !.edges = Append(@, [tick |-> TickAt(time), active |-> level])]

(* The pin changes, or it changes and returns before the interrupt reads it. *)
Edge(level) ==
    /\ edgesLeft > 0
    /\ edgesLeft' = edgesLeft - 1
    /\ pin' = level
    /\ button' = Notified(button, level)
    /\ ideal' = [Settled EXCEPT !.since = time]
    /\ verdict' = "right"
    /\ UNCHANGED <<time, lost>>

EdgeLost ==
    /\ edgesLeft > 0 /\ lost < MaxLost
    /\ edgesLeft' = edgesLeft - 1
    /\ lost' = lost + 1
    /\ pin' = ~pin
    /\ ideal' = [Settled EXCEPT !.since = time]
    /\ verdict' = "right"
    /\ UNCHANGED <<time, button>>

Step(b, event) == [b |-> b, event |-> event]

(* How long the press lasted that ended at debounceTick.                    *)
Held(b, tick) == Elapsed(b.pressTick, b.debounceTick)

(* The debounce time is over: the level is taken over.                      *)
Confirmed(b, tick) ==
    LET c == [b EXCEPT !.phase = IF b.level THEN "held" ELSE "idle", !.stable = b.level] IN
    IF b.level = b.stable THEN Step(c, "NONE")
    ELSE IF b.level
    THEN Step([c EXCEPT !.pressTick = b.debounceTick, !.extra = FALSE, !.suppress = FALSE], "NONE")
    ELSE IF b.suppress \/ b.extra
    THEN Step([c EXCEPT !.suppress = FALSE, !.extra = FALSE], "NONE")
    ELSE Step(c, Class(Held(b, tick)))

(* The extra long time is over while the button is held.  A pin that is     *)
(* found up without an edge makes no event.                                 *)
HeldOn(b, tick, sample) ==
    IF ~(b.phase = "held" /\ ~b.suppress /\ ~b.extra /\ Due(b.pressTick, ExtraLongTime, tick))
    THEN Step(b, "NONE")
    ELSE IF sample /\ ~pin
    THEN Step([b EXCEPT !.phase = "debounce", !.level = FALSE, !.debounceTick = tick,
                        !.suppress = TRUE], "NONE")
    ELSE Step([b EXCEPT !.extra = TRUE], "EXTRA_LONG")

(* Advance *)
Advance(b, tick, sample) ==
    IF b.phase # "debounce" THEN HeldOn(b, tick, sample)
    ELSE IF ~Due(b.debounceTick, DebounceTime, tick) THEN Step(b, "NONE")
    ELSE IF sample /\ pin # b.level
    THEN Step([b EXCEPT !.level = pin, !.debounceTick = tick], "NONE")
    ELSE LET confirmed == Confirmed(b, tick) IN
         IF confirmed.event # "NONE" \/ (b.stable /\ ~b.level) THEN confirmed
         ELSE HeldOn(confirmed.b, tick, sample)

Consumed(b, edge) ==
    [b EXCEPT !.edges = Tail(@), !.phase = "debounce", !.level = edge.active,
              !.debounceTick = edge.tick]

(* Mutant: the interval before an edge is not finished first.               *)
ReplayedOnlyEdges(b) ==
    Step(IF b.edges = <<>> THEN b
         ELSE [Consumed(b, b.edges[Len(b.edges)]) EXCEPT !.edges = <<>>], "NONE")

(* The loop over the edges: it stops in front of the edge whose time made   *)
(* an event of the interval before it.                                      *)
EdgesReplayed(b) ==
    LET After[i \in 0 .. Len(b.edges)] ==
          IF i = 0 THEN Step(b, "NONE")
          ELSE IF After[i - 1].event # "NONE" THEN After[i - 1]
          ELSE LET a == Advance(After[i - 1].b, b.edges[i].tick, FALSE) IN
               IF a.event # "NONE" THEN a ELSE Step(Consumed(a.b, b.edges[i]), "NONE")
    IN After[Len(b.edges)]

Resynchronized(b) ==
    [Released EXCEPT !.phase = "debounce", !.stable = TRUE, !.level = pin,
                     !.debounceTick = TickAt(time), !.pressTick = b.pressTick, !.suppress = TRUE]

Processed(b) ==
    LET replayed == EdgesReplayed(b) IN
    IF replayed.event # "NONE" THEN replayed ELSE Advance(replayed.b, TickAt(time), TRUE)

(* Button_Process.  Without anything to do it changes nothing.              *)
Process ==
    /\ IF button.overflow
       THEN /\ button' = Resynchronized(button)
            /\ ideal' = Discarded
            /\ verdict' = "right"
       ELSE LET p == Processed(button) IN
            /\ button' = p.b
            /\ Observe(p.event)
    /\ UNCHANGED <<time, pin, edgesLeft, lost>>

Pass ==
    /\ time < EndOfTime
    /\ time' = time + 1
    /\ verdict' = "right"
    /\ UNCHANGED <<pin, edgesLeft, lost, button, ideal>>

ButtonNext == (\E level \in BOOLEAN : Edge(level)) \/ EdgeLost \/ Process \/ Pass

ButtonSpec == ButtonInit /\ [][ButtonNext]_buttonVars

-----------------------------------------------------------------------------
(* Button_NextWakeDelay answers BUTTON_WAIT_FOREVER.                        *)
WaitsForever ==
    /\ button.edges = <<>> /\ ~button.overflow
    /\ button.phase # "debounce"
    /\ button.phase = "held" => button.suppress \/ button.extra

ButtonTypeOK ==
    /\ button.phase \in {"idle", "debounce", "held"}
    /\ {button.stable, button.level, button.extra, button.suppress, button.overflow} \subseteq BOOLEAN
    /\ {button.debounceTick, button.pressTick} \subseteq 0 .. Ticks - 1
    /\ Len(button.edges) <= EdgeCapacity
    /\ ideal.owed \in Seq({"SHORT", "LONG", "EXTRA_LONG"})

(* As long as no edge is lost, the events do not depend on when the task    *)
(* runs: each is the one owed for the next press that was held long enough, *)
(* with its true duration, also when the queue had overflowed in between    *)
(* and across the wrap-around of the tick counter.                          *)
EventsRight == lost = 0 => verdict = "right"

(* When the task may sleep until the next edge it has reported every press  *)
(* and believes what the pin says.                                          *)
SleepsWhenDone ==
    lost = 0 /\ WaitsForever => /\ Settled.owed = <<>>
                                /\ Settled.pressed = button.stable
                                /\ button.stable = pin

(* The gestures are right and none is left behind in the queue.             *)
GesturesRight == ButtonTypeOK /\ EventsRight /\ SleepsWhenDone
=============================================================================
