---------------------------- MODULE DurableQueue ----------------------------
(***************************************************************************)
(* DurableRecordQueue (Src/Flash/DurableRecordQueue.c): records in the      *)
(* slots of a few erase sectors of a NOR Flash.  A record is committed by    *)
(* its commit word and confirmed by its ack word; a sector of confirmed      *)
(* records is erased and used again.  Every operation holds the transaction  *)
(* from its first to its last Flash access, so it is one action here; where  *)
(* a call on the Flash fails, or the power does, the action leaves what the  *)
(* interrupted program or erase may have left.                               *)
(*                                                                           *)
(* RAM describes the Flash three times over: summary flags of every sector,  *)
(* slot states of the CacheCount sectors loaded last, and a count of free    *)
(* slots.  A sector with an uncertain write or erase is quarantined until    *)
(* the next Init.                                                            *)
(***************************************************************************)
EXTENDS Integers, FiniteSets

CONSTANTS
  Sectors,      \* erase sectors of the data region
  SectorSlots,  \* records per sector
  CacheCount,   \* sectors whose slot states are cached
  EpochMax,     \* UINT32_MAX of the epoch: Init refuses to go beyond it
  SeqMax,       \* UINT32_MAX of the sequence: Append refuses to go beyond it
  MaxMishaps    \* bound on power cuts, failing calls and decaying records

ASSUME QueueAssumption ==
  /\ {Sectors, SectorSlots, CacheCount, EpochMax, SeqMax} \subseteq Nat \ {0}
  /\ MaxMishaps \in Nat

VARIABLES
  flash,   \* slot -> what it holds
  store,   \* newest epoch in the dual bank store, 0 when it is empty
  ram,     \* the DurableRecordQueue with the caller's summary bytes
  owed,    \* identities Append answered OK to and nobody confirmed yet
  newest,  \* identity of the newest record
  mishaps  \* power cuts, failing calls and decayed records so far

vars == <<flash, store, ram, owed, newest, mishaps>>

(* A power cut, a failing call or a decaying record.                         *)
Mishap == mishaps < MaxMishaps /\ mishaps' = mishaps + 1

-----------------------------------------------------------------------------
(* Slots and what they hold *)

Capacity == Sectors * SectorSlots
Slot     == 0 .. Capacity - 1
Sector   == 0 .. Sectors - 1

SectorOf(s) == s \div SectorSlots
SlotsOf(k)  == k * SectorSlots .. (k + 1) * SectorSlots - 1

NextSlot(s) == (s + 1) % Capacity

Identity == [epoch : 1 .. EpochMax, seq : 1 .. SeqMax]
NoId     == [epoch |-> 0, seq |-> 0]

Blank == [is |-> "erased"]
Torn  == [is |-> "torn"]       \* not erased, not committed
Corrupt == [is |-> "corrupt"] \* committed, the CRC is wrong
Rec(id, acked) == [is |-> "record", id |-> id, acked |-> acked]

Contents == {Blank, Torn, Corrupt}
              \cup [is : {"record"}, id : Identity, acked : BOOLEAN]

(* Committed and the CRC is right.  The CRC does not cover the ack word.     *)
Valid(c) == c.is = "record"

SlotState == {"free", "pending", "used", "corrupt"}

(* Mutant: a committed record counts as used whatever its ack word.          *)
ClassifyCommitted(c) ==
  CASE c.is = "erased"  -> "free"
    [] c.is = "corrupt" -> "corrupt"
    [] OTHER            -> "used"

Classify(c) ==
  CASE c.is = "erased"        -> "free"
    [] c.is = "corrupt"       -> "corrupt"
    [] Valid(c) /\ ~c.acked   -> "pending"
    [] OTHER                  -> "used"

-----------------------------------------------------------------------------
(* What RAM knows *)

(* The flags of a sector are the states of its slots and "quarantined".      *)
Summary(states, quarantined) ==
  LET found == {states[s] : s \in DOMAIN states}
  IN  IF quarantined THEN (found \ {"free"}) \cup {"quarantined"} ELSE found

Quarantined(q, k) == "quarantined" \in q.sum[k]

Way    == 0 .. CacheCount - 1
NoWay  == [sector |-> Sectors]

Cached(q, k)  == \E i \in Way : q.cache[i].sector = k
WayOf(q, k)   == CHOOSE i \in Way : q.cache[i].sector = k
SlotStates(q, k)  == q.cache[WayOf(q, k)].states
InFlash(k)    == [s \in SlotsOf(k) |-> Classify(flash[s])]

(* Mutant: a reload takes the sector out of quarantine.                      *)
LoadForgiving(q, k) ==
  IF Cached(q, k) THEN q
  ELSE [q EXCEPT !.cache[q.next] = [sector |-> k, states |-> InFlash(k)],
                 !.next = (q.next + 1) % CacheCount,
                 !.sum[k] = Summary(InFlash(k), FALSE)]

(* LoadSector when its reads succeed: the round-robin entry is replaced.     *)
Load(q, k) ==
  IF Cached(q, k) THEN q
  ELSE [q EXCEPT !.cache[q.next] = [sector |-> k, states |-> InFlash(k)],
                 !.next = (q.next + 1) % CacheCount,
                 !.sum[k] = Summary(InFlash(k), Quarantined(q, k))]

FreeIn(q, k) == Cardinality({s \in SlotsOf(k) : SlotStates(q, k)[s] = "free"})

(* SetSlotState, on a loaded sector; no caller sets "free".                  *)
SetSlot(q, s, state) ==
  LET k == SectorOf(s)
      states == [SlotStates(q, k) EXCEPT ![s] = state]
  IN  [q EXCEPT !.free = IF ~Quarantined(q, k) /\ SlotStates(q, k)[s] = "free"
                         THEN @ - 1 ELSE @,
                !.cache[WayOf(q, k)].states = states,
                !.sum[k] = Summary(states, Quarantined(q, k))]

Quarantine(q, k) ==
  [q EXCEPT !.free = IF Quarantined(q, k) THEN @ ELSE @ - FreeIn(q, k),
            !.sum[k] = Summary(SlotStates(q, k), TRUE)]

-----------------------------------------------------------------------------
(* FindSlot *)

(* The sectors are visited cyclically from that of start, and those without  *)
(* the flag passed over.  The first one counts from start on, and again at   *)
(* the end up to start.  At most two sectors are loaded: "first" is RAM      *)
(* after the first load, "q" after the second.                               *)

Lowest(S) == CHOOSE s \in S : \A t \in S : s <= t

Wanted(q, k, state) == {s \in SlotsOf(k) : SlotStates(q, k)[s] = state}

(* Mutant: the first sector is not visited again.                            *)
PassesShort(q, start, state) ==
  {p \in 1 .. Sectors - 1 : state \in q.sum[(SectorOf(start) + p) % Sectors]}

(* Passes after the first whose sector has the flag.                         *)
Passes(q, start, state) ==
  {p \in 1 .. Sectors : state \in q.sum[(SectorOf(start) + p) % Sectors]}

Search(q, start, state) ==
  LET p == Lowest(Passes(q, start, state))
      k == (SectorOf(start) + p) % Sectors
      r == Load(q, k)
      hits == {s \in Wanted(r, k, state) : p = Sectors => s < start}
  IN  IF Passes(q, start, state) = {}
      THEN [first |-> q, q |-> q, st |-> "none"]
      ELSE [first |-> q, q |-> r,
            slot  |-> IF hits = {} THEN start ELSE Lowest(hits),
            st    |-> IF state \notin r.sum[k] THEN "busy"
                      ELSE IF hits # {} THEN "ok"
                      ELSE IF p = Sectors THEN "none"
                      ELSE "state"]

Find(q, start, state) ==
  LET k == SectorOf(start)
      r == Load(q, k)
      hits == {s \in Wanted(r, k, state) : s >= start}
  IN  IF state \notin q.sum[k] THEN Search(q, start, state)
      ELSE IF state \notin r.sum[k] THEN [first |-> r, q |-> r, st |-> "busy"]
      ELSE IF hits # {}
           THEN [first |-> r, q |-> r, st |-> "ok", slot |-> Lowest(hits)]
      ELSE Search(r, start, state)

-----------------------------------------------------------------------------
(* Restart *)

NoAck == [slot |-> 0, id |-> NoId]

(* RAM before Init, and after one that failed.  Fields that mean nothing    *)
(* while their flag is down (the ack of an unpinned queue, everything of a  *)
(* queue that is not ready) are kept at these values.                        *)
Off ==
  [ready |-> FALSE, epoch |-> 0, seq |-> 0, write |-> 0, read |-> 0, free |-> 0,
   next |-> 0, pinned |-> FALSE, ack |-> NoAck,
   cache |-> [i \in Way |-> NoWay], sum |-> [k \in Sector |-> {}]]

Highest(S) == CHOOSE n \in S : \A m \in S : m <= n

(* Mutant: the epoch goes on from the records alone.                         *)
NewestEpochOfRecords ==
  Highest({0} \cup {flash[s].id.epoch : s \in {t \in Slot : Valid(flash[t])}})

NewestEpoch ==
  Highest({store} \cup {flash[s].id.epoch : s \in {t \in Slot : Valid(flash[t])}})

(* InitLocked: scan everything, then make the next epoch durable.            *)
Start ==
  /\ NewestEpoch < EpochMax
  /\ store' = NewestEpoch + 1
  /\ ram' = [Off EXCEPT
               !.ready = TRUE,
               !.epoch = NewestEpoch + 1,
               !.free  = Cardinality({s \in Slot : flash[s] = Blank}),
               !.sum   = [k \in Sector |-> Summary(InFlash(k), FALSE)]]
  /\ UNCHANGED <<flash, owed, newest, mishaps>>

(* The epochs are used up: the queue stays shut.                             *)
StartExhausted ==
  /\ NewestEpoch = EpochMax
  /\ ram' = Off
  /\ UNCHANGED <<flash, store, owed, newest, mishaps>>

(* A read or the epoch store fails, or the power: a save that does not       *)
(* succeed may have reached the Flash.                                       *)
StartFails ==
  /\ Mishap
  /\ store' \in {store} \cup (IF NewestEpoch < EpochMax THEN {NewestEpoch + 1} ELSE {})
  /\ ram' = Off
  /\ UNCHANGED <<flash, owed, newest>>

-----------------------------------------------------------------------------
(* Append *)

AppendFind == Find(ram, ram.write, "free")
NewId      == [epoch |-> ram.epoch, seq |-> ram.seq + 1]
CanAppend  == ram.ready /\ ram.seq < SeqMax

(* The slot is taken in RAM before it is written.                            *)
Claim(f) == SetSlot([f.q EXCEPT !.seq = @ + 1], f.slot, "corrupt")

AppendRecord ==
  LET f == AppendFind IN
  /\ CanAppend
  /\ f.st = "ok"
  /\ flash' = [flash EXCEPT ![f.slot] = Rec(NewId, FALSE)]
  /\ ram' = [SetSlot(Claim(f), f.slot, "pending")
               EXCEPT !.write = NextSlot(f.slot)]
  /\ owed' = owed \cup {NewId}
  /\ newest' = NewId
  /\ UNCHANGED <<store, mishaps>>

(* FindSlot found nothing, or found its summary wrong.                       *)
AppendRefused ==
  LET f == AppendFind IN
  /\ CanAppend
  /\ f.st # "ok"
  /\ ram' = f.q
  /\ UNCHANGED <<flash, store, owed, newest, mishaps>>

(* What the slot holds when writing or checking the record does not succeed: *)
(* the commit word may be there although the call reported an error.         *)
HalfWritten == {Blank, Torn, Rec(NewId, FALSE)}

(* A call fails, or the power.                                               *)
AppendBreaks ==
  LET f == AppendFind IN
  /\ Mishap
  /\ CanAppend
  /\ f.st = "ok"
  /\ \E c \in HalfWritten : flash' = [flash EXCEPT ![f.slot] = c]
  /\ ram' \in {Quarantine(Claim(f), SectorOf(f.slot)), Off}
  /\ newest' = NewId
  /\ UNCHANGED <<store, owed>>

-----------------------------------------------------------------------------
(* Peek *)

PeekFind == Find(ram, ram.read, "pending")

Peek ==
  LET f == PeekFind IN
  /\ ram.ready
  /\ f.st = "ok"
  /\ Valid(flash[f.slot])
  /\ ram' = [f.q EXCEPT !.read = f.slot]
  /\ UNCHANGED <<flash, store, owed, newest, mishaps>>

(* The cache says pending, the record says otherwise.                        *)
PeekCorrupt ==
  LET f == PeekFind IN
  /\ ram.ready
  /\ f.st = "ok"
  /\ ~Valid(flash[f.slot])
  /\ ram' = Quarantine(SetSlot(f.q, f.slot, "corrupt"),
                       SectorOf(f.slot))
  /\ UNCHANGED <<flash, store, owed, newest, mishaps>>

PeekRefused ==
  LET f == PeekFind IN
  /\ ram.ready
  /\ f.st # "ok"
  /\ ram' = f.q
  /\ UNCHANGED <<flash, store, owed, newest, mishaps>>

-----------------------------------------------------------------------------
(* Acknowledge *)

AckSlot == IF ram.pinned THEN ram.ack.slot ELSE ram.read

(* The caller's identity is that of the record at hand.                      *)
AckMatches(id) ==
  /\ ram.ready
  /\ ram.pinned => id = ram.ack.id
  /\ Valid(flash[AckSlot])
  /\ flash[AckSlot].id = id

Acknowledged(q, s) ==
  LET done == SetSlot(q, s, "used")
  IN  [done EXCEPT !.read = IF @ = s THEN NextSlot(s) ELSE @, !.pinned = FALSE, !.ack = NoAck]

Acknowledge(id) ==
  /\ AckMatches(id)
  /\ flash' = [flash EXCEPT ![AckSlot].acked = TRUE]
  /\ ram' = Acknowledged(Load(ram, SectorOf(AckSlot)), AckSlot)
  /\ owed' = owed \ {id}
  /\ UNCHANGED <<store, newest, mishaps>>

(* Any other identity is refused, after the slot has been looked at unless   *)
(* it is not even the pinned one.                                            *)
AckMismatch ==
  /\ ram.ready
  /\ {id \in Identity : ~AckMatches(id) /\ (ram.pinned => id = ram.ack.id)} # {}
  /\ ram' = Load(ram, SectorOf(AckSlot))
  /\ UNCHANGED <<flash, store, owed, newest, mishaps>>

(* Writing the ack word, or reading it back, fails: the record is pinned     *)
(* until the caller asks again.  Or the power fails.                         *)
AckBreaks(id) ==
  /\ Mishap
  /\ AckMatches(id)
  /\ ~flash[AckSlot].acked
  /\ \E b \in BOOLEAN : flash' = [flash EXCEPT ![AckSlot].acked = b]
  /\ ram' \in {Off, [Load(ram, SectorOf(AckSlot))
                      EXCEPT !.pinned = TRUE, !.ack = [slot |-> AckSlot, id |-> id]]}
  /\ owed' = owed \ {id}
  /\ UNCHANGED <<store, newest>>

-----------------------------------------------------------------------------
(* Reclaim *)

(* The watermarks of PrepareOne without and with keep_spare and ReclaimOne.  *)
Watermark == {1, 2 * SectorSlots, SectorSlots}

(* Mutant: the sector of an uncertain ack may be reclaimed.                  *)
ReclaimableUnpinned(k) ==
  /\ "used" \in ram.sum[k]
  /\ ram.sum[k] \cap {"pending", "corrupt", "quarantined"} = {}

Reclaimable(k) ==
  /\ ~(ram.pinned /\ SectorOf(ram.ack.slot) = k)
  /\ "used" \in ram.sum[k]
  /\ ram.sum[k] \cap {"pending", "corrupt", "quarantined"} = {}

FullyUsed == {k \in Sector : Reclaimable(k) /\ "free" \notin ram.sum[k]}
PartUsed  == {k \in Sector : Reclaimable(k) /\ "free" \in ram.sum[k]
                             /\ ram.free < SectorSlots}
Candidates == IF FullyUsed # {} THEN FullyUsed ELSE PartUsed

(* The first candidate, cyclically from the sector of write_slot.  What a    *)
(* reclaim at a lower watermark does, one at the highest does too; with no   *)
(* candidate, or enough free slots, it changes nothing.                      *)
Distance(k)   == (k - SectorOf(ram.write)) % Sectors
Reclaiming(k) ==
  /\ ram.ready
  /\ ram.free < Highest(Watermark)
  /\ k \in Candidates
  /\ \A l \in Candidates : Distance(k) <= Distance(l)

(* Read again before the erase: nothing pending, nothing corrupt.            *)
Discardable(k) == \A s \in SlotsOf(k) : Classify(flash[s]) \in {"free", "used"}

Emptied(k) ==
  LET q == Quarantine(Load(ram, k), k)
  IN  [q EXCEPT !.free = @ + SectorSlots,
                !.cache[WayOf(q, k)].states = [s \in SlotsOf(k) |-> "free"],
                !.sum[k] = {"free"}]

Reclaim(k) ==
  /\ Reclaiming(k)
  /\ Discardable(k)
  /\ flash' = [s \in Slot |-> IF SectorOf(s) = k THEN Blank ELSE flash[s]]
  /\ ram' = Emptied(k)
  /\ UNCHANGED <<store, owed, newest, mishaps>>

(* The summary was wrong.                                                    *)
ReclaimFindsRecord(k) ==
  /\ Reclaiming(k)
  /\ ~Discardable(k)
  /\ ram' = Quarantine(Load(ram, k), k)
  /\ UNCHANGED <<flash, store, owed, newest, mishaps>>

(* The caller's "allowed" says no.                                           *)
ReclaimDenied(k) ==
  /\ Reclaiming(k)
  /\ Discardable(k)
  /\ ram' = Load(ram, k)
  /\ UNCHANGED <<flash, store, owed, newest, mishaps>>

(* A half-done erase: of a record the ack word may go first.                 *)
HalfErased(c) ==
  {c, Blank} \cup (IF c = Blank THEN {} ELSE {Torn})
             \cup (IF Valid(c) THEN {Rec(c.id, FALSE), Corrupt} ELSE {})

(* The erase, or reading it back, fails, or the power does.                  *)
ReclaimBreaks(k) ==
  /\ Mishap
  /\ Reclaiming(k)
  /\ Discardable(k)
  /\ \E left \in [SlotsOf(k) -> UNION {HalfErased(flash[s]) : s \in SlotsOf(k)}] :
       /\ \A s \in SlotsOf(k) : left[s] \in HalfErased(flash[s])
       /\ flash' = [s \in Slot |-> IF SectorOf(s) = k THEN left[s] ELSE flash[s]]
  /\ ram' \in {Quarantine(Load(ram, k), k), Off}
  /\ UNCHANGED <<store, owed, newest>>

-----------------------------------------------------------------------------
(* The rest of the world *)

(* A read fails in Append, Peek, Acknowledge or a reclaim: only the sectors  *)
(* loaded before it have changed anything.                                   *)
ReadFails ==
  /\ Mishap
  /\ ram.ready
  /\ \/ ram' = ram
     \/ CanAppend /\ ram' = AppendFind.first
     \/ ram' \in {PeekFind.first, PeekFind.q}
     \/ ram' = Load(ram, SectorOf(AckSlot))
     \/ \E k \in Sector : Reclaiming(k) /\ ram' = Load(ram, k)
  /\ UNCHANGED <<flash, store, owed, newest>>

(* A committed record loses its CRC.                                         *)
Decay(s) ==
  /\ Valid(flash[s])
  /\ Mishap
  /\ flash' = [flash EXCEPT ![s] = Corrupt]
  /\ owed' = owed \ {flash[s].id}
  /\ UNCHANGED <<store, ram, newest>>

Init ==
  /\ flash = [s \in Slot |-> Blank]
  /\ store = 0
  /\ ram = Off
  /\ owed = {}
  /\ newest = NoId
  /\ mishaps = 0

Next ==
  \/ Start \/ StartExhausted \/ StartFails
  \/ AppendRecord \/ AppendRefused \/ AppendBreaks
  \/ Peek \/ PeekCorrupt \/ PeekRefused
  \/ \E id \in Identity :
       Acknowledge(id) \/ AckBreaks(id)
  \/ AckMismatch
  \/ \E k \in Sector :
       Reclaim(k) \/ ReclaimFindsRecord(k) \/ ReclaimDenied(k) \/ ReclaimBreaks(k)
  \/ ReadFails
  \/ \E s \in Slot : Decay(s)

Spec == Init /\ [][Next]_vars

-----------------------------------------------------------------------------
(* What must hold *)

CacheLine ==
  {NoWay} \cup
    UNION {[sector : {k}, states : [SlotsOf(k) -> SlotState]] : k \in Sector}

Ram ==
  [ready : BOOLEAN, epoch : 0 .. EpochMax, seq : 0 .. SeqMax,
   write : Slot, read : Slot, free : 0 .. Capacity,
   next : Way, pinned : BOOLEAN,
   ack : [slot : Slot, id : Identity \cup {NoId}],
   cache : [Way -> CacheLine],
   sum : [Sector -> SUBSET (SlotState \cup {"quarantined"})]]

TypeOK ==
  /\ flash \in [Slot -> Contents]
  /\ store \in 0 .. EpochMax
  /\ ram \in Ram
  /\ owed \subseteq Identity
  /\ newest \in Identity \cup {NoId}
  /\ mishaps \in 0 .. MaxMishaps

(* An uncertain write, erase or ack, a reload of the cache and a reclaim     *)
(* must all keep the count of free slots: the erased slots outside           *)
(* quarantine, whatever the cache holds; the variables keep their types.     *)
FreeCounted ==
  /\ TypeOK
  /\ ram.ready =>
    ram.free = Cardinality({s \in Slot : /\ flash[s] = Blank
                                         /\ ~Quarantined(ram, SectorOf(s))})

(* "No pending record is overwritten", "never an unconfirmed one": a record  *)
(* whose append returned OK and whose delivery nobody confirmed stays in     *)
(* the Flash, through power cuts, half-done erases and restarts.             *)
OwedStored ==
  \A id \in owed : \E s \in Slot : flash[s] = Rec(id, FALSE)

(* Peek answers "nothing" only when there is nothing left to deliver: the    *)
(* summaries, the cache and the cyclic search overlook no such record.       *)
EmptyOnlyWhenEmpty == ram.ready /\ PeekFind.st = "none" => owed = {}

(* Append answers NO_SPACE only when no erased slot is left outside          *)
(* quarantine.                                                               *)
NoSpaceOnlyWhenFull ==
  CanAppend /\ AppendFind.st = "none" =>
    \A s \in Slot : flash[s] = Blank => Quarantined(ram, SectorOf(s))

(* The cyclic searches of Peek and Append miss nothing.                      *)
SearchesComplete == EmptyOnlyWhenEmpty /\ NoSpaceOnlyWhenFull

(* "An uncertain ACK remains pinned through cache eviction and cannot be     *)
(* reclaimed before the caller verifies it."                                 *)
AckPinned ==
  ram.pinned => \/ flash[ram.ack.slot] = Corrupt
                \/ Valid(flash[ram.ack.slot]) /\ flash[ram.ack.slot].id = ram.ack.id

(* Whatever fails or is cut short, identities only grow, so that none is     *)
(* ever given to two records.                                                *)
IdentityNew ==
  [][newest' # newest =>
       \/ newest'.epoch > newest.epoch
       \/ newest'.epoch = newest.epoch /\ newest'.seq > newest.seq]_vars

=============================================================================
