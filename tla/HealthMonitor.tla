--------------------------- MODULE HealthMonitor ---------------------------
(* The task monitor of Src/System/HealthMonitor.c: tasks are registered with *)
(* a deadline, the monitor is armed, tasks give signs of life or take a      *)
(* lease, and a poller asks whether all are healthy and for how long.  The   *)
(* caller serializes the calls, so each is one action.                       *)
(*                                                                           *)
(* The clock is the 32-bit millisecond counter.  What really happened is in  *)
(* the history variables life and calm, which count time without a clock     *)
(* that wraps around.                                                        *)
EXTENDS Integers

CONSTANTS
    Tasks,          \* HEALTH_MONITOR_TASKS identifiers
    Deadline,       \* what each is registered with
    MaxLease,       \* HEALTH_MONITOR_MAX_LEASE_MS
    ClockRange      \* the clock wraps around at this value (2^32)

HalfRange == ClockRange \div 2

ASSUME HealthAssumption ==
    /\ ClockRange \in Nat /\ HalfRange > 0
    /\ MaxLease \in 1 .. HalfRange - 1
    /\ Deadline \in [Tasks -> 1 .. ClockRange - 1]

VARIABLES
    clock,          \* now_ms
    monitor,        \* the HealthMonitor structure
    unseen,         \* real time since the tasks were last checked
    life,           \* history: for each task the real time since its last sign of
                    \* life, how often it gave one, the lease it holds, whether it stalled
    calm            \* history: real time since every task had given two signs

healthVars == <<clock, monitor, unseen, life, calm>>

NoLease == 0
Since(tick) == (clock - tick) % ClockRange

(* leaseStart, lease and since are kept only while they mean something:     *)
(* under a lease and while the monitor is stable.                           *)
HealthTask == [registered : BOOLEAN, last : 0 .. ClockRange - 1,
               leaseStart : 0 .. ClockRange - 1, lease : 0 .. MaxLease,
               observations : 0 .. 2]
Unregistered == [registered |-> FALSE, last |-> 0, leaseStart |-> 0, lease |-> NoLease,
                 observations |-> 0]
Unborn == [silent |-> 0, signs |-> 0, lease |-> NoLease, stalled |-> FALSE]

(* HealthMonitor_Init *)
FreshMonitor == [tasks |-> [t \in Tasks |-> Unregistered], since |-> 0,
                 fault |-> {}, armed |-> FALSE, stable |-> FALSE]

Required(m) == {t \in Tasks : m.tasks[t].registered}

HealthInit ==
    /\ clock \in {0, HalfRange}
    /\ monitor = FreshMonitor
    /\ unseen = 0
    /\ life = [t \in Tasks |-> Unborn]
    /\ calm = 0

-----------------------------------------------------------------------------
Overdue(task, deadline) ==
    IF task.lease # NoLease THEN Since(task.leaseStart) >= task.lease
    ELSE Since(task.last) >= deadline

Faults(m) == m.fault \cup {t \in Required(m) : Overdue(m.tasks[t], Deadline[t])}

(* HealthMonitor_Check: what it leaves behind, and whether it answers yes.  *)
Observed(m) == \A t \in Required(m) : m.tasks[t].observations = 2

Inspected(m) ==
    IF ~m.armed THEN m
    ELSE IF Faults(m) # {} THEN [m EXCEPT !.fault = Faults(m), !.stable = FALSE, !.since = 0]
    ELSE IF Observed(m) /\ ~m.stable THEN [m EXCEPT !.stable = TRUE, !.since = clock]
    ELSE m

Healthy(m) == m.armed /\ Faults(m) = {}

-----------------------------------------------------------------------------
HealthRestart ==
    /\ monitor' = FreshMonitor
    /\ life' = [t \in Tasks |-> Unborn]
    /\ unseen' = 0 /\ calm' = 0
    /\ UNCHANGED clock

(* HealthMonitor_Register refuses a deadline of half the clock's range.     *)
Register(t) ==
    /\ ~monitor.armed
    /\ Deadline[t] < HalfRange
    /\ t \notin Required(monitor)
    /\ monitor' = [monitor EXCEPT !.tasks[t] =
                       [Unregistered EXCEPT !.registered = TRUE, !.last = clock]]
    /\ UNCHANGED <<clock, unseen, life, calm>>

FirstInterval(task) == [task EXCEPT !.last = clock, !.observations = 0]

(* HealthMonitor_Arm for the mask of the registered tasks.                  *)
Arm ==
    /\ ~monitor.armed
    /\ Required(monitor) # {}
    /\ monitor.fault = {}
    /\ monitor' = [monitor EXCEPT !.armed = TRUE, !.stable = FALSE,
                       !.tasks = [t \in Tasks |-> IF t \in Required(monitor)
                                                  THEN FirstInterval(@[t]) ELSE @[t]]]
    /\ life' = [t \in Tasks |-> Unborn]
    /\ unseen' = 0 /\ calm' = 0
    /\ UNCHANGED clock

Check ==
    /\ monitor.armed
    /\ monitor' = Inspected(monitor)
    /\ unseen' = 0
    /\ UNCHANGED <<clock, life, calm>>

Seen(task) == [task EXCEPT !.last = clock,
                           !.observations = IF @ < 2 THEN @ + 1 ELSE @]

(* What the task really did.                                                *)
Lives(t) ==
    life' = IF life[t].stalled THEN life
            ELSE [life EXCEPT ![t].silent = 0, ![t].lease = NoLease,
                              ![t].signs = IF @ < 2 THEN @ + 1 ELSE @]

HeartbeatCounts(task) == task.lease = NoLease

(* HealthMonitor_Progress.  A heartbeat under a lease is none.              *)
Progress(t) ==
    /\ monitor.armed /\ t \in Required(monitor)
    /\ LET m == Inspected(monitor) IN
       IF Healthy(monitor) /\ HeartbeatCounts(m.tasks[t])
       THEN monitor' = [m EXCEPT !.tasks[t] = Seen(@)]
       ELSE monitor' = m
    /\ unseen' = 0
    /\ IF life[t].lease = NoLease THEN Lives(t) ELSE UNCHANGED life
    /\ UNCHANGED <<clock, calm>>

(* Mutant: a lease may be begun again while it lasts.                       *)
LeaseFreeAlways(task) == TRUE

LeaseFree(task) == task.lease = NoLease

(* HealthMonitor_BeginLease *)
BeginLease(t, duration) ==
    /\ monitor.armed /\ t \in Required(monitor)
    /\ LET m == Inspected(monitor) IN
       IF Healthy(monitor) /\ LeaseFree(m.tasks[t])
       THEN monitor' = [m EXCEPT !.tasks[t] =
                            [@ EXCEPT !.leaseStart = clock, !.lease = duration]]
       ELSE monitor' = m
    /\ unseen' = 0
    /\ life' = IF life[t].lease # NoLease \/ life[t].stalled THEN life
               ELSE [life EXCEPT ![t].silent = 0, ![t].lease = duration]
    /\ UNCHANGED <<clock, calm>>

(* HealthMonitor_EndLease *)
EndLease(t) ==
    /\ monitor.armed /\ t \in Required(monitor)
    /\ monitor.tasks[t].lease # NoLease
    /\ LET m == Inspected(monitor) IN
       IF Healthy(monitor)
       THEN monitor' = [m EXCEPT !.tasks[t] = [Seen(@) EXCEPT !.lease = NoLease, !.leaseStart = 0]]
       ELSE monitor' = m
    /\ unseen' = 0
    /\ Lives(t)
    /\ UNCHANGED <<clock, calm>>

(* HealthMonitor_StableFor answers yes; m is what its Check leaves behind.  *)
StableFor(m, duration) ==
    /\ Healthy(monitor) /\ m.stable
    /\ duration < HalfRange /\ Since(m.since) >= duration
    /\ \A t \in Required(m) : m.tasks[t].lease = NoLease

(* A millisecond passes.  The tasks are checked often enough (HealthMonitor.h *)
(* asks for gaps below 2^31), which is all that is assumed of the poller.   *)
Limit(t) == IF life[t].lease # NoLease THEN life[t].lease ELSE Deadline[t]

Stalled == [silent |-> 0, signs |-> 0, lease |-> NoLease, stalled |-> TRUE]

Older(t) ==
    IF t \notin Required(monitor) \/ life[t].stalled THEN life[t]
    ELSE IF life[t].silent + 1 < Limit(t) THEN [life[t] EXCEPT !.silent = @ + 1]
    ELSE Stalled

Millisecond ==
    /\ monitor.armed => unseen + 1 < HalfRange
    /\ clock' = (clock + 1) % ClockRange
    /\ unseen' = IF monitor.armed THEN unseen + 1 ELSE 0
    /\ life' = IF monitor.armed THEN [t \in Tasks |-> Older(t)] ELSE life
    /\ calm' = IF monitor.armed /\ (\A t \in Required(monitor) : life[t].signs = 2)
                  /\ calm < HalfRange
               THEN calm + 1 ELSE calm
    /\ UNCHANGED monitor

HealthNext ==
    \/ HealthRestart \/ Arm \/ Check \/ Millisecond
    \/ \E t \in Tasks :
         \/ Register(t) \/ Progress(t) \/ EndLease(t)
         \/ \E duration \in 1 .. MaxLease : BeginLease(t, duration)

HealthSpec == HealthInit /\ [][HealthNext]_healthVars

-----------------------------------------------------------------------------
HealthTypeOK ==
    /\ clock \in 0 .. ClockRange - 1
    /\ monitor.tasks \in [Tasks -> HealthTask]
    /\ monitor.since \in 0 .. ClockRange - 1
    /\ monitor.fault \subseteq Required(monitor)
    /\ unseen \in 0 .. HalfRange
    /\ calm \in 0 .. HalfRange

AllAlive == \A t \in Required(monitor) : ~life[t].stalled

(* No fault is found as long as no task was silent for its deadline or held *)
(* a lease for its duration; once one did, it is named, until the next Init: *)
(* no late heartbeat, no second lease and no wrap-around of the clock hides *)
(* it.  (After the first fault heartbeats are refused: tasks that live may  *)
(* be named as well, and tasks that stall later need not be.)               *)
FaultsAreStalls ==
    monitor.armed =>
        IF AllAlive THEN Faults(monitor) = {}
        ELSE \E t \in Faults(monitor) : life[t].stalled

(* Stable for a duration means: for that long every task had given two      *)
(* signs of life since Arm, none has stalled, and none is under a lease.    *)
StableIsStable ==
    \A duration \in 0 .. HalfRange :
        StableFor(Inspected(monitor), duration) =>
            /\ calm >= duration
            /\ \A t \in Required(monitor) :
                 ~life[t].stalled /\ life[t].signs = 2 /\ life[t].lease = NoLease

(* However the clock wraps around, the faults are the stalls and the        *)
(* milestone is one.                                                        *)
HealthKnown == HealthTypeOK /\ FaultsAreStalls /\ StableIsStable
=============================================================================
