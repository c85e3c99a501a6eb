----------------------------- MODULE UpgradeLog -----------------------------
(***************************************************************************)
(* The upgrade log (Src/Flash/storage_upgrade.c on top of storage_record.c *)
(* and storage_bank.c): an append-only log of payloads, and two banks of   *)
(* one sector each that take a snapshot in turn when the log is full.      *)
(*                                                                         *)
(* Each action makes one write or one erase of the Flash.  A power cut or  *)
(* a failing call in the middle of it leaves one of the outcomes of        *)
(* Interrupted.  The log covers two erase sectors; records are not aligned *)
(* to sectors, so one of them straddles the boundary.                      *)
(***************************************************************************)
EXTENDS RecordRegion

CONSTANTS
  Empty,        \* the answer of a log without a record
  LogSlots,     \* records that fit into the log region
  Straddle,     \* the slot that lies across the sector boundary
  StartSeq,     \* sequence numbers a log that is already in use may be at
  Faults,       \* TRUE: behaviours where calls on the Flash may fail, too
  BankReadFaults,  \* TRUE: so may the reads of the banks in Compact, unnoticed
  MaxMishaps    \* bound on the power cuts and the failing writes of a behaviour

ASSUME LogAssumption ==
  /\ Empty \notin Value
  /\ LogSlots \in Nat
  /\ Straddle \in 1..LogSlots
  /\ StartSeq \subseteq SeqNum
  /\ Faults \in BOOLEAN /\ BankReadFaults \in BOOLEAN
  /\ MaxMishaps \in Nat

VARIABLES
  faulty,    \* calls on the Flash may fail in this behaviour
  bank,      \* the two snapshot banks
  log,       \* the log region
  pc,        \* the next Flash operation of the append, "idle" or "down"
  latest,    \* log->latest, Empty while has_latest is 0
  nextSeq,   \* log->next_sequence
  pending,   \* the payload of the append in progress
  dest,      \* the bank Compact writes
  retried,   \* the append follows a compaction
  reply,     \* what the last append returned
  mishaps    \* power cuts and failing writes and erases so far

flash == <<bank, log>>
vars  == <<faulty, bank, log, pc, latest, nextSeq, pending, dest, retried, reply,
           mishaps>>

Bank == {"A", "B"}
Other(b) == IF b = "A" THEN "B" ELSE "A"

FlashPC == {"body", "commit", "eraseDest", "snapBody", "snapCommit",
            "eraseOld", "eraseFirst", "eraseSecond"}

TypeOK ==
  /\ faulty \in BOOLEAN
  /\ bank \in [Bank -> Slot]
  /\ log \in [1..LogSlots -> Slot]
  /\ pc \in FlashPC \cup {"idle", "down", "find", "pick"}
  /\ latest \in Value \cup {Empty}
  /\ nextSeq \in SeqNum
  /\ pending \in SUBSET Value
  /\ dest \in Bank
  /\ retried \in BOOLEAN
  /\ reply \in {"none", "ok", "error"}
  /\ mishaps \in 0..MaxMishaps

Blank == [i \in 1..LogSlots |-> Erased]

(* A board with a blank control partition, or one that has been compacted  *)
(* any number of times.                                                    *)
Init ==
  /\ faulty \in IF Faults THEN BOOLEAN ELSE {FALSE}
  /\ \/ bank = [b \in Bank |-> Erased]
     \/ \E s \in StartSeq, v \in Value :
          bank = [b \in Bank |-> IF b = "A" THEN [seq |-> s, val |-> v] ELSE Erased]
  /\ log = Blank
  /\ pc = "down"
  /\ latest = Empty
  /\ nextSeq = 1
  /\ pending = {}
  /\ dest = "A"
  /\ retried = FALSE
  /\ reply = "none"
  /\ mishaps = 0

-----------------------------------------------------------------------------
(* Reading the log *)

(* y replaces x as the best record so far when it is strictly newer.       *)
Better(x, y) ==
  IF IsRecord(y) /\ (~IsRecord(x) \/ SeqIsNewer(y.seq, x.seq)) THEN y ELSE x

LatestInLog ==
  [i \in 0..LogSlots |-> IF i = 0 THEN Erased ELSE log[i]][FindLatest(log)]

(* LoadLatest: bank A, then B, then the log.                               *)
Newest == Better(Better(bank["A"], bank["B"]), LatestInLog)

Stored == LET n == Newest IN IF IsRecord(n) THEN n.val ELSE Empty

(* The newest record is not older than the one the next append writes.     *)
Shadowed == LET n == Newest IN IsRecord(n) /\ ~SeqIsNewer(nextSeq, n.seq)

(* StorageUpgrade_Init.  One that cannot read the Flash changes nothing.   *)
Boot ==
  /\ pc = "down"
  /\ pc' = "idle"
  /\ latest' = Stored
  /\ nextSeq' = IF IsRecord(Newest) THEN NextSeq(Newest.seq) ELSE 1
  /\ UNCHANGED <<flash, pending, dest, retried, reply, mishaps>>

-----------------------------------------------------------------------------
(* StorageUpgrade_Append *)

Begin(v) ==
  /\ pc = "idle"
  /\ pc' = "find"
  /\ pending' = {v}
  /\ reply' = "none"
  /\ UNCHANGED <<flash, latest, nextSeq, dest, retried, mishaps>>

(* The locals of the append are gone.                                      *)
Return(status) ==
  /\ pc' = "idle"
  /\ reply' = status
  /\ pending' = {}
  /\ dest' = "A"
  /\ retried' = FALSE

FindRoom ==
  /\ pc = "find"
  /\ HasRoom(log)
  /\ pc' = "body"
  /\ UNCHANGED <<flash, latest, nextSeq, pending, dest, retried, reply, mishaps>>

(* NO_SPACE: compact and try again, once.                                  *)
FindFull ==
  /\ pc = "find"
  /\ ~HasRoom(log)
  /\ IF retried
     THEN Return("error") /\ UNCHANGED latest
     ELSE /\ pc' = "pick"
          /\ latest' \in pending
          /\ UNCHANGED <<reply, pending, dest, retried>>
  /\ UNCHANGED <<flash, nextSeq, mishaps>>

FindUnreadable ==
  /\ pc = "find"
  /\ faulty
  /\ Return("error")
  /\ UNCHANGED <<flash, latest, nextSeq, mishaps>>

(* A step of the append that only changes the Flash.                       *)
FlashStep(at, next, newBank, newLog) ==
  /\ pc = at
  /\ pc' = next
  /\ bank' = newBank
  /\ log' = newLog
  /\ UNCHANGED <<latest, nextSeq, pending, dest, retried, reply, mishaps>>

InLog(s) == [log EXCEPT ![Cursor(log)] = s]

TheRecord(v) == [seq |-> nextSeq, val |-> v]

(* Header without commit word, payload.                                    *)
WriteBody == FlashStep("body", "commit", bank, InLog(Hole))

(* Mutant: the sequence number of an append is used again.                 *)
CommitUncounted ==
  /\ pc = "commit"
  /\ \E v \in pending : log' = InLog(TheRecord(v)) /\ latest' = v
  /\ Return("ok")
  /\ UNCHANGED <<bank, nextSeq, mishaps>>

(* The commit word goes into the hole after the latest record.             *)
Commit ==
  /\ pc = "commit"
  /\ \E v \in pending :
       /\ log' = InLog(TheRecord(v))
       /\ latest' = v
  /\ nextSeq' = NextSeq(nextSeq)
  /\ Return("ok")
  /\ UNCHANGED <<bank, mishaps>>

-----------------------------------------------------------------------------
(* Compact *)

(* Mutant: B counts as active only when A holds nothing.                   *)
ActiveAFirst == IF IsRecord(bank["A"]) THEN "A" ELSE "B"

(* The bank Compact takes for the current one.                             *)
Active ==
  IF /\ IsRecord(bank["A"])
     /\ ~(IsRecord(bank["B"]) /\ SeqIsNewer(bank["B"].seq, bank["A"].seq))
  THEN "A" ELSE "B"

(* A read error of bank A makes B the active one, a read error of bank B   *)
(* makes a valid A the active one.                                         *)
ActiveRead ==
  {Active} \cup (IF BankReadFaults THEN {"B"} ELSE {})
           \cup (IF BankReadFaults /\ IsRecord(bank["A"]) THEN {"A"} ELSE {})

Pick ==
  /\ pc = "pick"
  /\ \E b \in ActiveRead : dest' = Other(b)
  /\ pc' = "eraseDest"
  /\ UNCHANGED <<flash, latest, nextSeq, pending, retried, reply, mishaps>>

InBank(b, s) == [bank EXCEPT ![b] = s]

EraseDest == FlashStep("eraseDest", "snapBody", InBank(dest, Erased), log)

SnapBody == FlashStep("snapBody", "snapCommit", InBank(dest, Hole), log)

SnapCommit ==
  FlashStep("snapCommit", "eraseOld", InBank(dest, TheRecord(latest)), log)

EraseOld ==
  FlashStep("eraseOld", "eraseFirst", InBank(Other(dest), Erased), log)

(* Mutant: the first sector of the log is left alone.                      *)
FirstSectorKept == log

(* What is left of the straddling record is not blank.                     *)
FirstSectorErased ==
  [i \in 1..LogSlots |->
     IF i < Straddle THEN Erased
     ELSE IF i = Straddle /\ log[i] # Erased THEN Hole
     ELSE log[i]]

(* Mutant: the second sector of the log is left alone.                     *)
SecondSectorKept == log

(* The first sector is blank by now.                                       *)
SecondSectorErased ==
  [i \in 1..LogSlots |-> IF i < Straddle THEN log[i] ELSE Erased]

EraseFirst == FlashStep("eraseFirst", "eraseSecond", bank, FirstSectorErased)

EraseSecond ==
  /\ pc = "eraseSecond"
  /\ log' = SecondSectorErased
  /\ pc' = "find"
  /\ retried' = TRUE
  /\ nextSeq' = NextSeq(nextSeq)
  /\ UNCHANGED <<bank, latest, pending, dest, reply, mishaps>>

-----------------------------------------------------------------------------
(* Failures *)

(* What a half-done erase may leave of a slot; a straddling record is not  *)
(* blank before both sectors are.                                          *)
HalfErased(s, straddles) ==
  IF s = Erased THEN {Erased}
  ELSE {s, Hole, Garbled} \cup (IF straddles THEN {} ELSE {Erased})

HalfErasedLog(slots, straddles) ==
  {l \in [1..LogSlots -> {log[i] : i \in 1..LogSlots} \cup {Hole, Garbled, Erased}] :
     \A i \in 1..LogSlots :
       IF i \in slots
       THEN l[i] \in HalfErased(log[i], straddles /\ i = Straddle)
       ELSE l[i] = log[i]}

(* The contents of the Flash when the operation at pc does not return OK.  *)
Interrupted ==
  CASE pc = "body" ->
         {flash, <<bank, InLog(Hole)>>}
    [] pc = "commit" ->
         {<<bank, InLog(s)>> : s \in {Hole, Garbled} \cup {TheRecord(v) : v \in pending}}
    [] pc = "eraseDest" ->
         {<<InBank(dest, s), log>> : s \in HalfErased(bank[dest], FALSE)}
    [] pc = "snapBody" ->
         {flash, <<InBank(dest, Hole), log>>}
    [] pc = "snapCommit" ->
         {<<InBank(dest, s), log>> : s \in {Hole, Garbled, TheRecord(latest)}}
    [] pc = "eraseOld" ->
         {<<InBank(Other(dest), s), log>> : s \in HalfErased(bank[Other(dest)], FALSE)}
    [] pc = "eraseFirst" ->
         {<<bank, l>> : l \in HalfErasedLog(1..Straddle, TRUE)}
    [] pc = "eraseSecond" ->
         {<<bank, l>> : l \in HalfErasedLog(Straddle..LogSlots, FALSE)}
    [] OTHER -> {flash}

(* A write or an erase reports an error: the append returns it.            *)
Fail ==
  /\ pc \in FlashPC
  /\ faulty
  /\ mishaps < MaxMishaps
  /\ mishaps' = mishaps + 1
  /\ \E f \in Interrupted : bank' = f[1] /\ log' = f[2]
  /\ Return("error")
  /\ UNCHANGED <<latest, nextSeq>>

(* A power cut: the Flash operation is left half done, RAM is lost.        *)
Crash ==
  /\ pc # "down"
  /\ mishaps < MaxMishaps
  /\ mishaps' = mishaps + 1
  /\ \E f \in Interrupted : bank' = f[1] /\ log' = f[2]
  /\ pc' = "down"
  /\ latest' = Empty
  /\ nextSeq' = 1
  /\ pending' = {}
  /\ dest' = "A"
  /\ retried' = FALSE
  /\ reply' = "none"

Step ==
  \/ Boot
  \/ \E v \in Value : Begin(v)
  \/ FindRoom \/ FindFull \/ FindUnreadable
  \/ WriteBody \/ Commit
  \/ Pick \/ EraseDest \/ SnapBody \/ SnapCommit \/ EraseOld
  \/ EraseFirst \/ EraseSecond
  \/ Fail \/ Crash

Next == Step /\ UNCHANGED faulty

Spec == Init /\ [][Next]_vars

-----------------------------------------------------------------------------
(* Properties *)

(* Power cuts at any point, failing writes and erases included, the log is *)
(* the register of UpgradeRegister: a compaction neither loses the stored  *)
(* payload nor brings an older one back.                                   *)
Register ==
  INSTANCE UpgradeRegister WITH
    Content  <- Value \cup {Empty},
    value    <- Stored,
    shadowed <- pc # "down" /\ Shadowed

ImplementsRegister == Register!Spec

(* The records in the Flash are recent enough for the wrap-safe comparison *)
(* of their sequence numbers to order them.                                *)
SequencesComparable ==
  LET newest  == Newest
      records == {bank[b] : b \in Bank} \cup {log[i] : i \in 1..LogSlots}
  IN  /\ TypeOK
      /\ \A r \in records :
           IsRecord(r) /\ IsRecord(newest) => ~SeqIsNewer(r.seq, newest.seq)

(* Whatever a power cut left behind, the log can always be appended to:    *)
(* only a failing Flash makes an append fail.  And as long as no call      *)
(* fails, StorageUpgrade_Get answers between appends what the next Init    *)
(* would load.                                                             *)
OnlyFaultsRefuse == reply = "error" => faulty
GetIsStored == ~faulty /\ pc = "idle" => latest = Stored

CutsOnlyDelay == OnlyFaultsRefuse /\ GetIsStored

(* An append that returns OK is what the next StorageUpgrade_Init loads,   *)
(* whatever power cuts happened before.                                    *)
AcknowledgedIsStored ==
  [][reply' = "ok" /\ reply # "ok" => Stored' \in pending]_vars

(* The same as long as only the power fails.                               *)
CutsLoseNothing ==
  [][~faulty /\ reply' = "ok" /\ reply # "ok" => Stored' \in pending]_vars

(* A log that holds a payload never comes back empty.                      *)
StateSurvives == [][Stored # Empty => Stored' # Empty]_vars

=============================================================================
