----------------------------- MODULE StorageLog -----------------------------
(* The event log of Src/Flash/storage_log.c: a ring of sectors, each with a  *)
(* header that carries its generation and with records behind it.  Appending *)
(* to a full ring erases the oldest sector.  A reader passes over the log    *)
(* with a cursor and acknowledges records by receipt.                        *)
(*                                                                           *)
(* The caller serializes the operations, so each is one action; one that is  *)
(* interrupted leaves what its last Flash operation may have left.  Records  *)
(* have one length, and all have the same payload, which is where stale      *)
(* receipts are the hardest to tell apart.                                   *)
EXTENDS Integers, Sequences, FiniteSets

CONSTANTS
    LogSectors,     \* sectors of the region
    LogSlots,       \* records a sector has room for
    MaxSequence,    \* bound: sequence numbers that are given
    MaxClears,      \* bound: calls of Clear
    LogMishaps      \* bound: power cuts and failing calls

ASSUME LogAssumption ==
    /\ {LogSectors, LogSlots, MaxSequence} \subseteq Nat \ {0}
    /\ {MaxClears, LogMishaps} \subseteq Nat

VARIABLES
    region,         \* the sectors in Flash
    log,            \* the StorageLog in RAM
    cursor,         \* the reader's StorageLogCursor
    receipt,        \* the receipt it holds, and (history) whether its record is gone
    owed,           \* history: places of the records Append answered OK for, until
                    \* they are acknowledged or their sector is erased; not those
                    \* that follow a failed Clear without an Init in between
    clears,         \* calls of Clear so far
    clearFailed,    \* history: a Clear failed: "no", "now" (no Init since), "once"
    logMishaps

logVars == <<region, log, cursor, receipt, owed, clears, clearFailed, logMishaps>>

SectorIndex == 0 .. LogSectors - 1
SlotIndex == 1 .. LogSlots
Place == SectorIndex \X SlotIndex

(* Sequence numbers and generations do not wrap around within the bounds.   *)
(* A slot is blank, torn or half erased with an erased word where a scan    *)
(* stops (a hole), garbled so that a scan passes over it, or a record.  The *)
(* commit word of an acknowledged record is zero, and some of its bits are  *)
(* when the acknowledgement was interrupted.                                *)
BlankSlot == [kind |-> "blank"]
HoleSlot == [kind |-> "hole"]
Garbage == [kind |-> "garbage"]
Entry(seq, ack) == [kind |-> "record", seq |-> seq, ack |-> ack]
IsEntry(s) == s.kind = "record"
Pending(s) == IsEntry(s) /\ s.ack # "yes"

NoHeader == 0
BlankSector == [header |-> NoHeader, slots |-> [i \in SlotIndex |-> BlankSlot]]
NewSector(generation) == [BlankSector EXCEPT !.header = generation]

LogOff == [up |-> FALSE, active |-> 0, slot |-> 1, next |-> 1]
CursorAtRest == [started |-> FALSE, sector |-> 0, slot |-> 1, remaining |-> 0]
NoReceipt == <<>>

LogInit ==
    /\ region = [k \in SectorIndex |-> BlankSector]
    /\ log = LogOff
    /\ cursor = CursorAtRest
    /\ receipt = NoReceipt
    /\ owed = {}
    /\ clears = 0 /\ clearFailed = "no" /\ logMishaps = 0

Mishap == logMishaps < LogMishaps /\ logMishaps' = logMishaps + 1

-----------------------------------------------------------------------------
StopsScan(s) == s \in {BlankSlot, HoleSlot}

Reached(sector) == {i \in SlotIndex : \A j \in 1 .. i : ~StopsScan(sector.slots[j])}

Occupied(sector) == {i \in Reached(sector) : IsEntry(sector.slots[i])}

Highest(S) == CHOOSE n \in S : \A m \in S : m <= n

(* FindLatestLog: the newest record, the first of equals; 0 for none.       *)
LatestEntry(sector) ==
    LET O == Occupied(sector) IN
    IF O = {} THEN 0
    ELSE CHOOSE i \in O : \A j \in O :
            \/ sector.slots[j].seq < sector.slots[i].seq
            \/ sector.slots[j].seq = sector.slots[i].seq /\ i <= j

ValidSectors == {k \in SectorIndex : region[k].header # NoHeader}

(* The sector of the highest generation, the first of equals.               *)
IsNewest(k) ==
    /\ k \in ValidSectors
    /\ \A j \in ValidSectors :
         \/ region[j].header < region[k].header
         \/ region[j].header = region[k].header /\ k <= j

Newest == CHOOSE k \in ValidSectors : IsNewest(k)

(* The active sector decides when it has a record, else all sectors do.     *)
NextSequence(k) ==
    LET SeqIn(j) == region[j].slots[LatestEntry(region[j])].seq IN
    IF LatestEntry(region[k]) # 0 THEN SeqIn(k) + 1
    ELSE Highest({1} \cup {SeqIn(j) + 1 : j \in {m \in ValidSectors : LatestEntry(region[m]) # 0}})

(* StorageLog_Init.  Without any valid sector it makes the first one.       *)
Opened == [up |-> TRUE, active |-> Newest, slot |-> LatestEntry(region[Newest]) + 1,
           next |-> NextSequence(Newest)]

ClearSeen == IF clearFailed = "now" THEN "once" ELSE clearFailed

LogOpen ==
    /\ ValidSectors # {}
    /\ log' = Opened
    /\ clearFailed' = ClearSeen
    /\ UNCHANGED <<region, cursor, receipt, owed, clears, logMishaps>>

Stale(places) ==
    IF receipt # NoReceipt /\ <<receipt.sector, receipt.slot>> \in places
    THEN [receipt EXCEPT !.gone = TRUE] ELSE receipt

In(k) == {k} \X SlotIndex
Unreadable(sectors) == {place \in Place : ~IsEntry(sectors[place[1]].slots[place[2]])}

LogCreate ==
    /\ ValidSectors = {}
    /\ region' = [region EXCEPT ![0] = NewSector(1)]
    /\ log' = [LogOff EXCEPT !.up = TRUE]
    /\ owed' = owed \ In(0)
    /\ receipt' = Stale(In(0))
    /\ clearFailed' = ClearSeen
    /\ UNCHANGED <<cursor, clears, logMishaps>>

(* What an interrupted erase leaves of a sector.                            *)
HalfErased(sector) ==
    {[header |-> h, slots |-> s] :
        h \in {sector.header, NoHeader},
        s \in {q \in [SlotIndex -> {BlankSlot, HoleSlot, Garbage}
                                   \cup {sector.slots[i] : i \in SlotIndex}] :
                  \A i \in SlotIndex : \/ q[i] \in {sector.slots[i], BlankSlot}
                                       \/ sector.slots[i] # BlankSlot /\ ~IsEntry(q[i])}}

RamLost == log' = LogOff /\ cursor' = CursorAtRest /\ receipt' = NoReceipt

(* The first sector is not made.                                            *)
CreateBreaks ==
    /\ ValidSectors = {}
    /\ Mishap
    /\ \E s \in HalfErased(region[0]) : /\ s.header = NoHeader
                                       /\ region' = [region EXCEPT ![0] = s]
    /\ owed' = owed \ In(0)
    /\ RamLost
    /\ UNCHANGED <<clears, clearFailed>>

-----------------------------------------------------------------------------
(* RotateSector: the sector after the active one, with the next generation. *)
Following(k) == (k + 1) % LogSectors

NextGeneration(k) == region[k].header + 1

(* No room for the record, or what is there is not blank.                   *)
Rotates == log.slot \in SlotIndex => region[log.active].slots[log.slot] # BlankSlot
Target == IF Rotates THEN Following(log.active) ELSE log.active
TargetSlot == IF Rotates THEN 1 ELSE log.slot

Rotated ==
    IF Rotates THEN [region EXCEPT ![Target] = NewSector(NextGeneration(log.active))]
    ELSE region

Forgotten == IF Rotates THEN In(Target) ELSE {}

Put(r, slot) == [r EXCEPT ![Target].slots[TargetSlot] = slot]

(* StorageLog_Append *)
Append1 ==
    /\ log.up /\ log.next <= MaxSequence
    /\ region' = Put(Rotated, Entry(log.next, "no"))
    /\ log' = [log EXCEPT !.active = Target, !.slot = TargetSlot + 1, !.next = @ + 1]
    /\ owed' = (owed \ Forgotten) \cup
                IF clearFailed = "now" THEN {} ELSE {<<Target, TargetSlot>>}
    /\ receipt' = Stale(Forgotten)
    /\ UNCHANGED <<cursor, clears, clearFailed, logMishaps>>

(* Where an Append stops: in the erase or in the header of a rotation, or   *)
(* in the record, whose commit word may have been written.  The call fails  *)
(* or the power is cut, and then RAM is lost.                               *)
RotationFailed == log

RotateBreaks ==
    /\ log.up /\ log.next <= MaxSequence
    /\ Rotates
    /\ \E s \in HalfErased(region[Target]) \cup {BlankSector} :
         /\ Mishap
         /\ region' = [region EXCEPT ![Target] = s]
         /\ \/ /\ log' = RotationFailed
               /\ receipt' = Stale(Unreadable(region'))
               /\ UNCHANGED cursor
            \/ RamLost
    /\ owed' = owed \ In(Target)
    /\ UNCHANGED <<clears, clearFailed>>

AppendBreaks ==
    /\ log.up /\ log.next <= MaxSequence
    /\ \E slot \in {BlankSlot, HoleSlot, Garbage, Entry(log.next, "no")} :
         /\ Mishap
         /\ region' = Put(Rotated, slot)
         /\ \/ /\ log' = [log EXCEPT !.active = Target, !.slot = TargetSlot]
               /\ receipt' = Stale(Forgotten)
               /\ UNCHANGED cursor
            \/ RamLost
    /\ owed' = owed \ Forgotten
    /\ UNCHANGED <<clears, clearFailed>>

-----------------------------------------------------------------------------
(* StorageLog_Clear erases the sectors in turn and begins again with the    *)
(* generation after the active one.                                         *)
ClearAllowed == log.up /\ clears < MaxClears /\ region[log.active].header # NoHeader

Clear ==
    /\ ClearAllowed
    /\ region' = [k \in SectorIndex |-> IF k = 0 THEN NewSector(NextGeneration(log.active))
                                        ELSE BlankSector]
    /\ log' = [LogOff EXCEPT !.up = TRUE]
    /\ owed' = {}
    /\ receipt' = Stale(Place)
    /\ clears' = clears + 1
    /\ UNCHANGED <<cursor, clearFailed, logMishaps>>

ClearBreaks ==
    /\ ClearAllowed
    /\ Mishap
    /\ \E k \in SectorIndex :
         \E s \in HalfErased(region[k]) \cup {BlankSector} :
            region' = [j \in SectorIndex |-> IF j < k THEN BlankSector
                                             ELSE IF j = k THEN s ELSE region[j]]
    /\ clears' = clears + 1
    /\ owed' = {}
    /\ \/ UNCHANGED <<log, cursor>> /\ receipt' = Stale(Unreadable(region')) /\ clearFailed' = "now"
       \/ RamLost
          /\ UNCHANGED clearFailed

-----------------------------------------------------------------------------
(* The reader.  A pass begins behind the active sector, with the oldest.    *)
Started ==
    IF cursor.started THEN cursor
    ELSE [started |-> TRUE, sector |-> Following(log.active), slot |-> 1, remaining |-> LogSectors]

(* Mutant: the pass ends one sector early.                                  *)
PassEndsEarly(c) == c.remaining <= 2

PassEnds(c) == c.remaining = 1

NextSector(c) ==
    [c EXCEPT !.sector = Following(@), !.slot = 1, !.remaining = @ - 1, !.started = ~PassEnds(c)]

(* The next pending record at or behind the cursor, before a stop.          *)
PendingFrom(c) ==
    IF region[c.sector].header = NoHeader THEN {}
    ELSE {i \in c.slot .. LogSlots : /\ Pending(region[c.sector].slots[i])
                                     /\ \A j \in c.slot .. i : ~StopsScan(region[c.sector].slots[j])}

(* StorageLog_NextPending; scanning on in the same sector takes more calls, *)
(* which change nothing else.                                               *)
NextPending ==
    /\ log.up
    /\ LET c == Started IN
       \/ /\ PendingFrom(c) = {}
          /\ cursor' = NextSector(c)
          /\ UNCHANGED receipt
       \/ \E i \in PendingFrom(c) :
            /\ \A j \in PendingFrom(c) : i <= j
            /\ cursor' = [c EXCEPT !.slot = i + 1]
            /\ receipt' = [sector |-> c.sector, slot |-> i, generation |-> region[c.sector].header,
                           seq |-> region[c.sector].slots[i].seq, gone |-> FALSE]
    /\ UNCHANGED <<region, log, owed, clears, clearFailed, logMishaps>>

(* Mutant: the generation of the sector is not compared.                    *)
SameSector(r) == region[r.sector].header # NoHeader

SameGeneration(r) == region[r.sector].header = r.generation

Matches(r) ==
    /\ SameGeneration(r)
    /\ IsEntry(region[r.sector].slots[r.slot])
    /\ region[r.sector].slots[r.slot].seq = r.seq

(* StorageLog_Acknowledge; a receipt that does not match changes nothing.   *)
Acknowledge ==
    /\ log.up /\ receipt # NoReceipt
    /\ Matches(receipt)
    /\ region' = [region EXCEPT ![receipt.sector].slots[receipt.slot].ack = "yes"]
    /\ owed' = owed \ {<<receipt.sector, receipt.slot>>}
    /\ UNCHANGED <<log, cursor, receipt, clears, clearFailed, logMishaps>>

AcknowledgeBreaks ==
    /\ log.up /\ receipt # NoReceipt
    /\ Matches(receipt)
    /\ Pending(region[receipt.sector].slots[receipt.slot])
    /\ Mishap
    /\ \E ack \in {"no", "half", "yes"} :
         /\ region' = [region EXCEPT ![receipt.sector].slots[receipt.slot].ack =
                           IF @ = "half" /\ ack = "no" THEN @ ELSE ack]
         /\ owed' = IF ack = "yes" THEN owed \ {<<receipt.sector, receipt.slot>>} ELSE owed
    /\ \/ UNCHANGED <<log, cursor, receipt>>
       \/ RamLost
    /\ UNCHANGED <<clears, clearFailed>>

LogCut ==
    /\ Mishap
    /\ RamLost
    /\ UNCHANGED <<region, owed, clears, clearFailed>>

LogNext ==
    \/ LogOpen \/ LogCreate \/ CreateBreaks \/ LogCut
    \/ Append1 \/ RotateBreaks \/ AppendBreaks
    \/ Clear \/ ClearBreaks
    \/ NextPending \/ Acknowledge \/ AcknowledgeBreaks

LogSpec == LogInit /\ [][LogNext]_logVars

(* A reader that passes over the log and acknowledges what it gets.  The    *)
(* caller opens the log when it is off.                                     *)
LogFairness ==
    /\ WF_logVars((LogOpen \/ LogCreate) /\ ~log.up)
    /\ WF_logVars(NextPending) /\ SF_logVars(Acknowledge)

-----------------------------------------------------------------------------
(* StorageLog_GetRecent: the scan keeps max places and replaces the oldest  *)
(* when a newer record comes; then the places are sorted.                   *)
EntriesIn(k) ==
    {i \in Reached(region[k]) : region[k].header # NoHeader /\ IsEntry(region[k].slots[i])
                                /\ region[k].slots[i].ack = "no"}

Committed == {place \in Place : place[2] \in EntriesIn(place[1])}
SeqAt(place) == region[place[1]].slots[place[2]].seq

(* Mutant: the newest place is replaced.                                    *)
ReplacedNewest(places) == CHOOSE p \in places : \A q \in places : SeqAt(q) <= SeqAt(p)

ReplacedFirst(places) == CHOOSE p \in places : \A q \in places : SeqAt(p) <= SeqAt(q)

Kept(places, candidate, max) ==
    IF Cardinality(places) < max THEN places \cup {candidate}
    ELSE LET oldest == ReplacedFirst(places) IN
         IF SeqAt(candidate) > SeqAt(oldest) THEN (places \ {oldest}) \cup {candidate} ELSE places

(* The places are visited in the order of their addresses.                  *)
PlaceAt(n) == <<(n - 1) \div LogSlots, ((n - 1) % LogSlots) + 1>>

Recent(max) ==
    LET After[n \in 0 .. LogSectors * LogSlots] ==
            IF n = 0 THEN {}
            ELSE IF PlaceAt(n) \in Committed THEN Kept(After[n - 1], PlaceAt(n), max)
            ELSE After[n - 1]
    IN After[LogSectors * LogSlots]

-----------------------------------------------------------------------------
LogTypeOK ==
    /\ \A k \in SectorIndex : /\ region[k].header \in Nat
                              /\ DOMAIN region[k].slots = SlotIndex
    /\ log.active \in SectorIndex /\ log.slot \in 1 .. LogSlots + 1
    /\ log.next \in 1 .. MaxSequence + 1
    /\ cursor.sector \in SectorIndex /\ cursor.slot \in 1 .. LogSlots + 1
    /\ cursor.started => cursor.remaining \in 1 .. LogSectors
    /\ owed \subseteq Place

(* A record that Append answered OK for stays where the reader finds it     *)
(* until it is acknowledged or its sector is erased: no crash, no failing   *)
(* call and no torn record before it hides it.                              *)
OwedFound ==
    \A place \in owed :
        LET sector == region[place[1]] IN
        /\ sector.header # NoHeader
        /\ place[2] \in Reached(sector)
        /\ Pending(sector.slots[place[2]])

(* A receipt acknowledges the record it was given for or none, however      *)
(* often its sector was used again since.  (After a Clear that failed half  *)
(* way the generations may begin again.)                                    *)
ReceiptNeverStale ==
    clearFailed = "no" /\ receipt # NoReceipt /\ log.up =>
        (receipt.gone => ~(Matches(receipt) /\ Pending(region[receipt.sector].slots[receipt.slot])))

(* The next sequence number is above that of every record that waits for    *)
(* its acknowledgement, also after a restart in the middle of a rotation.   *)
SequenceGrows ==
    log.up => \A place \in owed : SeqAt(place) < log.next

(* What a reader that acknowledges by receipt relies on.                    *)
ReaderSafe == LogTypeOK /\ OwedFound /\ ReceiptNeverStale /\ SequenceGrows

(* GetRecent finds the newest records, wherever the ring begins.            *)
RecentAreNewest ==
    \A max \in 1 .. LogSlots + 1 :
        LET R == Recent(max) IN
        /\ R \subseteq Committed
        /\ Cardinality(R) = max \/ R = Committed
        /\ \A p \in R, q \in Committed \ R : SeqAt(q) <= SeqAt(p)

(* When nothing is appended any more, every record that waits is found by   *)
(* some pass and acknowledged: passes that begin before a rotation, or that *)
(* torn records, failing calls and restarts break off, miss none for good.  *)
OwedDelivered == <>[](owed = {})
=============================================================================
