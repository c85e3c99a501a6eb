----------------------------- MODULE StoreProofs -----------------------------
(* Proofs about the dual bank store, for all sizes of the banks, with or     *)
(* without a record across the sectors, for any number of power cuts,        *)
(* failing calls and decayed records, and for every range of sequence        *)
(* numbers that is wide enough to compare the records of two banks.          *)
EXTENDS DualBankStore, RecordProofs, SequenceTheorems

Slots == 1 .. BankSlots
RecordBank == [Slots -> Contents]

(* The bank with the newest record: the k records that were written to it    *)
(* since it was cleared, the newest of age 1, perhaps decayed; then at most  *)
(* one slot that is not blank.                                               *)
LiveBank(r, k, top, rotten) ==
    /\ \A i \in 1 .. k : \/ r[i] \in Record /\ Age(top, r[i].seq) = k + 1 - i
                         \/ r[i] = Corrupt /\ rotten
    /\ \A i \in k + 1 .. BankSlots : r[i] \notin Record /\ (i # k + 1 => r[i] = Erased)

(* All that is left in the other bank is older.                              *)
OldBank(r, k, top) ==
    \A i \in Slots : r[i] \in Record => k > 0 /\ Age(top, r[i].seq) \in k + 1 .. k + BankSlots

Flash(B, live, k, top, rotten) ==
    /\ LiveBank(B[live], k, top, rotten)
    /\ OldBank(B[Other(live)], k, top)
    /\ k = 0 => live = "A" /\ top = 1

(* The newest record answers with val, unless it decayed.                    *)
Answer(r, k, val) == r[k] \in Record => r[k].val = val

(* It is the snapshot that was promised, or the one that was attempted.      *)
Kept(B, live, k, p, a) ==
    /\ k = 0 => p = NoValue
    /\ k > 0 => Answer(B[live], k, p) \/ (a # NoValue /\ Answer(B[live], k, a))

(* What the RAM knows between two calls.                                     *)
Idle(B, s, live, k, top, p) ==
    /\ s.active = live /\ s.next = top /\ (s.have <=> k > 0)
    /\ k > 0 => Answer(B[live], k, p)

EmptyBut(r, s) == \A i \in Slots : r[i] = IF i = 1 THEN s ELSE Erased

(* Where a Save is that has not committed its record,                        *)
Clearing(B, s, j, live) ==
    /\ j.at = "clear"
    /\ j.b = Other(live) /\ s.prepared = 0
    /\ \A sector \in 1 .. j.sector - 1 : Blank(B[j.b], sector)

Writing(B, s, j, live, k) ==
    /\ j.at \in {"body", "commit"}
    /\ j.switch => /\ s.prepared = 0 /\ j.b = Other(live) /\ j.slot = 1
                   /\ EmptyBut(B[j.b], IF j.at = "body" THEN Erased ELSE Torn)
    /\ ~j.switch => /\ j.b = live /\ j.slot = k + 1
                    /\ B[live][k + 1] = IF j.at = "body" THEN Erased ELSE Torn

(* and one that has.                                                         *)
Verifying(s, j, live, k, m) ==
    /\ j.at = "verify" /\ m = "prepared"
    /\ j.b = live /\ j.slot = k
    /\ s.active = IF j.switch THEN Other(live) ELSE live
    /\ j.switch => k = 1 /\ s.prepared = 0

Retiring(s, j, live, k, m) ==
    /\ j.at = "retire"
    /\ j.b = Other(live) /\ s.active = j.b /\ k = 1 /\ s.prepared = 0
    /\ m = "prepared" => j.sector = 1

Saving(B, s, j, live, k, top, p, m) ==
    /\ s.usable
    /\ \/ /\ Clearing(B, s, j, live) \/ Writing(B, s, j, live, k)
          /\ Idle(B, s, live, k, top, p)
       \/ /\ Verifying(s, j, live, k, m) \/ Retiring(s, j, live, k, m)
          /\ k > 0 /\ top = NextSeq(s.next) /\ Answer(B[live], k, j.val)

Holds(live, k, top) ==
    /\ Flash(bank, live, k, top, decayed)
    /\ Kept(bank, live, k, promise, attempt)
    /\ job = NoSave /\ store.usable => Idle(bank, store, live, k, top, promise)
    /\ job # NoSave => /\ Saving(bank, store, job, live, k, top, promise, mode)
                       /\ attempt = job.val

WriteJob == [at : {"body", "commit", "verify"}, b : Banks, slot : Slots, switch : BOOLEAN,
             val : Value]
EraseJob == [at : {"clear", "retire"}, b : Banks, sector : Sectors, val : Value]
StoreRam == [usable : BOOLEAN, active : Banks, next : SeqNum, have : BOOLEAN, prepared : 0 .. 2]

StoreTypes ==
    /\ mode \in {"legacy", "strict", "prepared"}
    /\ bank \in [Banks -> RecordBank]
    /\ store \in StoreRam
    /\ job = NoSave \/ job \in WriteJob \/ job \in EraseJob
    /\ promise \in Value \cup {NoValue} /\ attempt \in Value \cup {NoValue}
    /\ decayed \in BOOLEAN
    /\ store.prepared # 0 => mode = "prepared"

(* What the store keeps unless its legacy form met a decayed record.         *)
Kind == Strict \/ ~decayed

StoreHolds == \E live \in Banks, k \in 0 .. BankSlots, top \in SeqNum : Holds(live, k, top)

StoreInv == StoreTypes /\ PreparedIsBlank /\ (Kind => StoreHolds)

(* Half the range of sequence numbers holds those of two banks.              *)
WideEnough == SeqMod > 4 * BankSlots

-----------------------------------------------------------------------------
LEMMA StoreSizes ==
  /\ BankSlots \in Nat /\ BankSlots >= 1
  /\ HeadSlots \in 1 .. BankSlots
  /\ SeqMod \in Nat /\ SeqMod > 2
  /\ SeqNum \subseteq Nat /\ 1 \in SeqNum
<1>1. BankSlots \in Nat /\ HeadSlots \in 1 .. BankSlots
  BY StoreAssumption
<1>2. SeqMod \in Nat /\ SeqMod > 2
  BY SeqModAssumption
<1>3. QED
  BY <1>1, <1>2 DEF SeqNum

LEMMA MarksAre ==
  /\ Erased \notin Record /\ Hole \notin Record /\ Garbled \notin Record
  /\ Torn \notin Record /\ Corrupt \notin Record
  /\ Torn \notin {Erased, Hole, Garbled} /\ Corrupt \notin {Erased, Hole, Garbled}
  /\ NoValue \notin Value
  /\ {Erased, Hole, Garbled, Torn, Corrupt} \subseteq Contents
BY SlotsAssumption, StoreAssumption DEF Contents

LEMMA OtherIs ==
  ASSUME NEW b \in Banks
  PROVE  /\ Other(b) \in Banks /\ Other(b) # b /\ Other(Other(b)) = b
         /\ \A c \in Banks : c = b \/ c = Other(b)
BY DEF Other, Banks

LEMMA RecordIs ==
  ASSUME NEW s \in Record
  PROVE  s.seq \in SeqNum /\ s.val \in Value
BY DEF Record

-----------------------------------------------------------------------------
(* What the scans of a bank find                                             *)

LEMMA SeenIs ==
  ASSUME NEW r \in RecordBank, NEW strict
  PROVE  /\ Len(Seen(r, strict)) = BankSlots
         /\ \A i \in Slots : IsRecord(Seen(r, strict)[i]) <=> r[i] \in Record
         /\ \A i \in Slots : r[i] \in Record => Seen(r, strict)[i] = r[i] /\ ~Stops(r[i])
<1> DEFINE e(i) == IF r[i] = Corrupt THEN Garbled
                   ELSE IF r[i] = Torn THEN IF strict THEN Garbled ELSE Hole
                   ELSE r[i]
           S == {e(i) : i \in Slots}
           s == [i \in Slots |-> e(i)]
<1>1. Seen(r, strict) = s
  BY DEF Seen, RecordBank
<1>2. s \in [1 .. BankSlots -> S]
  BY DEF Slots
<1>3. s \in Seq(S) /\ Len(s) = BankSlots
  <2> HIDE DEF s, S
  <2>1. QED
    BY <1>2, StoreSizes, SeqDef, LenProperties
<1>4. \A i \in Slots : s[i] = e(i)
  OBVIOUS
<1> HIDE DEF s, S
<1>5. \A i \in Slots : /\ e(i) \in Record <=> r[i] \in Record
                       /\ r[i] \in Record => e(i) = r[i] /\ ~Stops(r[i])
  BY MarksAre DEF Stops
<1>6. QED
  BY <1>1, <1>3, <1>4, <1>5 DEF IsRecord

(* Whatever a bank holds, what is found is a record of it.                   *)
LEMMA LatestRecord ==
  ASSUME NEW r \in RecordBank, NEW strict
  PROVE  /\ FindLatest(Seen(r, strict)) \in 0 .. BankSlots
         /\ FindLatest(Seen(r, strict)) # 0 => r[FindLatest(Seen(r, strict))] \in Record
<1> DEFINE s == Seen(r, strict)
           m == FindLatest(s)
<1>1. Len(s) = BankSlots /\ \A i \in Slots : IsRecord(s[i]) <=> r[i] \in Record
  BY SeenIs
<1> HIDE DEF s, m
<1>2. IsLatest(s, BankSlots, m)
  BY <1>1, StoreSizes, FindLatestIs DEF m
<1>3. m \in 0 .. BankSlots /\ (m # 0 => IsRecord(s[m]))
  BY <1>2 DEF IsLatest
<1>4. m # 0 => r[m] \in Record
  BY <1>1, <1>3, StoreSizes DEF Slots
<1>5. QED
  BY <1>3, <1>4 DEF m, s

Whole(r, k) == \A i \in 1 .. k : r[i] \in Record

(* Of a bank with k good records the last one is found.                      *)
LEMMA LatestLive ==
  ASSUME WideEnough, NEW r \in RecordBank, NEW strict, NEW k \in 0 .. BankSlots,
         NEW top \in SeqNum, NEW rotten, LiveBank(r, k, top, rotten), Whole(r, k)
  PROVE  FindLatest(Seen(r, strict)) = k
<1> DEFINE s == Seen(r, strict)
           m == FindLatest(s)
<1>1. /\ Len(s) = BankSlots
      /\ \A i \in Slots : IsRecord(s[i]) <=> r[i] \in Record
      /\ \A i \in Slots : r[i] \in Record => s[i] = r[i] /\ ~Stops(s[i])
  BY SeenIs
<1> HIDE DEF s
<1>2. IsLatest(s, BankSlots, m)
  BY <1>1, StoreSizes, FindLatestIs
<1> HIDE DEF m
<1>3. /\ \A i \in 1 .. k : r[i] \in Record /\ Age(top, r[i].seq) = k + 1 - i
      /\ \A i \in k + 1 .. BankSlots : r[i] \notin Record
  BY MarksAre DEF LiveBank, Whole
<1>4. \A i \in 1 .. k : i \in Slots /\ i \in Reach(s) /\ s[i] = r[i]
  <2>1. \A i \in 1 .. k : i \in Slots /\ s[i] = r[i] /\ ~Stops(s[i])
    BY <1>1, <1>3, StoreSizes DEF Slots
  <2>2. \A i \in 1 .. k : i \in 1 .. Len(s) /\ \A j \in 1 .. i : j \in 1 .. k
    BY <1>1, StoreSizes
  <2>3. QED
    BY <2>1, <2>2 DEF Reach
<1>5. Comparable(s, top)
  <2>1. ASSUME NEW i \in 1 .. Len(s), IsRecord(s[i])
        PROVE  2 * Age(top, s[i].seq) < SeqMod
    <3>1. i \in Slots /\ i \in 1 .. BankSlots
      BY <1>1 DEF Slots
    <3>2. r[i] \in Record
      BY <1>1, <2>1, <3>1
    <3>3. i \in 1 .. k
      BY <1>3, <3>1, <3>2, StoreSizes
    <3>4. s[i] = r[i] /\ Age(top, r[i].seq) = k + 1 - i
      BY <1>3, <1>4, <3>3
    <3>5. 2 * (k + 1 - i) < SeqMod
      BY <3>3, StoreSizes DEF WideEnough
    <3>6. QED
      BY <3>4, <3>5
  <2>2. QED
    BY <2>1 DEF Comparable
<1>6. m \in 0 .. BankSlots /\ (m # 0 => IsRecord(s[m]))
  BY <1>2 DEF IsLatest
<1>7. m <= k
  <2>1. CASE m = 0
    BY <2>1
  <2>2. CASE m # 0
    <3>1. m \in Slots /\ r[m] \in Record
      BY <1>1, <1>6, <2>2, StoreSizes DEF Slots
    <3>2. QED
      BY <1>3, <3>1, StoreSizes DEF Slots
  <2>3. QED
    BY <2>1, <2>2
<1>8. CASE k = 0
  BY <1>6, <1>7, <1>8 DEF m, s
<1>9. CASE k # 0
  <2>1. k \in 1 .. k /\ k \in 1 .. BankSlots /\ k \in Reach(s) /\ IsRecord(s[k]) /\ s[k] = r[k]
    BY <1>1, <1>3, <1>4, <1>9
  <2>2. m # 0
    BY <1>2, <2>1 DEF IsLatest
  <2>3. \/ Age(top, s[m].seq) < Age(top, s[k].seq)
        \/ Age(top, s[m].seq) = Age(top, s[k].seq) /\ m <= k
    BY <1>2, <1>5, <2>1 DEF IsLatest
  <2>4. m \in 1 .. k
    BY <1>6, <1>7, <2>2
  <2>5. Age(top, s[m].seq) = k + 1 - m /\ Age(top, s[k].seq) = k + 1 - k
    BY <1>3, <1>4, <2>1, <2>4
  <2>6. QED
    BY <1>9, <2>3, <2>4, <2>5 DEF m, s
<1>10. QED
  BY <1>8, <1>9

(* No good records, and none are found.                                      *)
LEMMA NothingThere ==
  ASSUME NEW r \in RecordBank, \A i \in Slots : r[i] \notin Record, NEW strict
  PROVE  FindLatest(Seen(r, strict)) = 0
BY LatestRecord, StoreSizes DEF Slots

-----------------------------------------------------------------------------
(* Which bank Init selects                                                   *)

LEMMA FlashTypes ==
  ASSUME StoreTypes
  PROVE  /\ bank["A"] \in RecordBank /\ bank["B"] \in RecordBank
         /\ \A b \in Banks : bank[b] \in RecordBank
         /\ \A b \in Banks, i \in Slots : bank[b][i] \in Contents
BY DEF StoreTypes, Banks, RecordBank

(* The strict scan tells when one of the newest records decayed.             *)
LEMMA NoneDecayed ==
  ASSUME StoreTypes, Kind, NEW live \in Banks, NEW k \in 0 .. BankSlots, NEW top \in SeqNum,
         LiveBank(bank[live], k, top, decayed), ~ScanFails(bank[live])
  PROVE  Whole(bank[live], k)
<1> DEFINE r == bank[live]
<1>1. r \in RecordBank
  BY FlashTypes
<1>2. \A i \in 1 .. k : r[i] \in Record \/ (r[i] = Corrupt /\ decayed)
  BY DEF LiveBank
<1>3. CASE ~decayed
  BY <1>2, <1>3 DEF Whole
<1>4. CASE decayed
  <2>1. Strict
    BY <1>4 DEF Kind
  <2>2. ASSUME NEW i \in 1 .. k, r[i] = Corrupt
        PROVE  FALSE
    <3>1. i \in DOMAIN r
      BY <1>1, StoreSizes DEF RecordBank, Slots
    <3>2. \A j \in 1 .. i - 1 : r[j] \notin {Erased, Hole}
      <4>1. \A j \in 1 .. i - 1 : j \in 1 .. k
        OBVIOUS
      <4>2. QED
        BY <1>2, <4>1, MarksAre
    <3>3. QED
      BY <2>1, <2>2, <3>1, <3>2 DEF ScanFails
  <2>3. QED
    BY <1>2, <2>2 DEF Whole
<1>5. QED
  BY <1>3, <1>4 DEF StoreTypes

LEMMA RecoveredIs ==
  ASSUME WideEnough, StoreTypes, Kind, ~InitFails,
         NEW live \in Banks, NEW k \in 0 .. BankSlots, NEW top \in SeqNum,
         Flash(bank, live, k, top, decayed)
  PROVE  /\ SomethingFound <=> k > 0
         /\ k > 0 => /\ NewestBank = live /\ NewestIn(live) = bank[live][k]
                     /\ bank[live][k] \in Record
                     /\ Age(top, bank[live][k].seq) = 1
<1> DEFINE o == Other(live)
<1>1. LiveBank(bank[live], k, top, decayed) /\ OldBank(bank[o], k, top)
  BY DEF Flash
<1>2. o \in Banks /\ o # live /\ \A b \in Banks : b = live \/ b = o
  BY OtherIs
<1>3. bank[live] \in RecordBank /\ bank[o] \in RecordBank
  BY <1>2, FlashTypes
<1>4. Whole(bank[live], k)
  BY <1>1, NoneDecayed DEF InitFails
<1>5. Latest(bank[live]) = k
  BY <1>1, <1>3, <1>4, LatestLive DEF Latest
<1>6. Latest(bank[o]) \in 0 .. BankSlots
      /\ (Latest(bank[o]) # 0 => bank[o][Latest(bank[o])] \in Record)
  BY <1>3, LatestRecord DEF Latest
<1>7. CASE k = 0
  <2>1. \A b \in Banks : \A i \in Slots : bank[b][i] \notin Record
    BY <1>1, <1>2, <1>7 DEF LiveBank, OldBank, Slots
  <2>2. \A b \in Banks : Latest(bank[b]) = 0
    BY <2>1, FlashTypes, NothingThere DEF Latest
  <2>3. QED
    BY <1>7, <2>2 DEF SomethingFound, Found
<1>8. CASE k > 0
  <2>1. Found(live) /\ NewestIn(live) = bank[live][k] /\ SomethingFound
    BY <1>5, <1>8 DEF Found, NewestIn, SomethingFound
  <2>2. bank[live][k] \in Record /\ Age(top, bank[live][k].seq) = 1
    <3>1. k \in 1 .. k /\ k + 1 - k = 1
      BY <1>8
    <3>2. bank[live][k] \in Record
      BY <1>4, <3>1 DEF Whole
    <3>3. QED
      BY <1>1, <3>1, <3>2, MarksAre DEF LiveBank
  <2>3. Found(o) => ~SeqIsNewer(NewestIn(o).seq, NewestIn(live).seq)
                    /\ SeqIsNewer(NewestIn(live).seq, NewestIn(o).seq)
    <3> SUFFICES ASSUME Found(o)
                 PROVE  ~SeqIsNewer(NewestIn(o).seq, NewestIn(live).seq)
                        /\ SeqIsNewer(NewestIn(live).seq, NewestIn(o).seq)
      OBVIOUS
    <3> DEFINE a == NewestIn(live).seq
               c == NewestIn(o).seq
    <3>1. Latest(bank[o]) \in Slots /\ NewestIn(o) \in Record
      BY <1>6, StoreSizes DEF Found, NewestIn, Slots
    <3>2. Age(top, c) \in k + 1 .. k + BankSlots
      BY <1>1, <3>1 DEF OldBank, NewestIn
    <3>3. a \in SeqNum /\ c \in SeqNum /\ Age(top, a) = 1
      BY <2>1, <2>2, <3>1, RecordIs
    <3> HIDE DEF a, c
    <3>4. 2 * Age(top, a) < SeqMod /\ 2 * Age(top, c) < SeqMod /\ Age(top, a) < Age(top, c)
      BY <1>8, <3>2, <3>3, StoreSizes DEF WideEnough
    <3>5. Age(top, a) \in Nat /\ Age(top, c) \in Nat
      BY <1>8, <3>2, <3>3, StoreSizes
    <3>6. SeqIsNewer(a, c) /\ ~SeqIsNewer(c, a)
      BY <3>3, <3>4, <3>5, NewerIs
    <3>7. QED
      BY <3>6 DEF a, c
  <2>4. NewestBank = live
    <3>1. CASE live = "B"
      BY <2>1, <2>3, <3>1 DEF NewestBank, Other
    <3>2. CASE live = "A"
      BY <2>1, <2>3, <3>2 DEF NewestBank, Other
    <3>3. QED
      BY <3>1, <3>2 DEF Banks
  <2>5. QED
    BY <1>8, <2>1, <2>2, <2>4
<1>9. QED
  BY <1>7, <1>8

LEMMA AgeOne ==
  ASSUME NEW top \in SeqNum, NEW s \in SeqNum, Age(top, s) = 1
  PROVE  NextSeq(s) = top
<1>1. SeqMod \in Nat /\ SeqMod > 2 /\ top \in Nat /\ top < SeqMod /\ s \in Nat /\ s < SeqMod
  BY SeqModAssumption DEF SeqNum
<1>2. 1 = IF s <= top THEN top - s ELSE top + SeqMod - s
  BY AgeIs
<1>3. NextSeq(s) = IF s + 1 < SeqMod THEN s + 1 ELSE 0
  BY NextSeqIs
<1>4. QED
  BY <1>1, <1>2, <1>3

-----------------------------------------------------------------------------
(* How the Flash changes                                                     *)

(* The bank with the newest record is as it was, and no record came into the *)
(* other.                                                                    *)
LEMMA OtherChanged ==
  ASSUME NEW B, NEW C, NEW live, NEW k, NEW top, NEW rotten, Flash(B, live, k, top, rotten),
         C[live] = B[live],
         \A i \in Slots : C[Other(live)][i] \in Record => C[Other(live)][i] = B[Other(live)][i]
  PROVE  Flash(C, live, k, top, rotten)
BY DEF Flash, OldBank

(* What is no record was written behind the newest one.                      *)
LEMMA JunkWritten ==
  ASSUME NEW B, NEW C, NEW live, NEW k \in 0 .. BankSlots, NEW top, NEW rotten,
         Flash(B, live, k, top, rotten), NEW s, s \notin Record,
         \A i \in Slots : C[live][i] = IF i = k + 1 THEN s ELSE B[live][i],
         C[Other(live)] = B[Other(live)]
  PROVE  Flash(C, live, k, top, rotten)
<1>1. \A i \in 1 .. k : i \in Slots /\ i # k + 1
  BY StoreSizes DEF Slots
<1>2. \A i \in k + 1 .. BankSlots : i \in Slots
  BY StoreSizes DEF Slots
<1>3. LiveBank(C[live], k, top, rotten)
  BY <1>1, <1>2 DEF Flash, LiveBank
<1>4. QED
  BY <1>3 DEF Flash, OldBank

(* All records are one older.                                                *)
LEMMA OneOlder ==
  ASSUME WideEnough, NEW top \in SeqNum, NEW s \in SeqNum, Age(top, s) <= 2 * BankSlots
  PROVE  Age(NextSeq(top), s) = Age(top, s) + 1
<1>1. Age(top, s) < SeqMod - 1
  BY StoreSizes, AgeIs DEF WideEnough
<1>2. QED
  BY <1>1, AgeNext

(* A record was written behind the newest one,                               *)
LEMMA RecordWritten ==
  ASSUME WideEnough, NEW B, NEW C, NEW live \in Banks, NEW k \in 0 .. BankSlots - 1,
         NEW top \in SeqNum, NEW rotten, Flash(B, live, k, top, rotten), NEW v \in Value,
         \A i \in Slots : C[live][i] = IF i = k + 1 THEN [seq |-> top, val |-> v] ELSE B[live][i],
         C[Other(live)] = B[Other(live)]
  PROVE  Flash(C, live, k + 1, NextSeq(top), rotten) /\ C[live][k + 1] = [seq |-> top, val |-> v]
<1> DEFINE r == B[live]
           q == C[live]
           u == NextSeq(top)
           n == [seq |-> top, val |-> v]
<1>1. \A i \in 1 .. k : i \in Slots /\ i # k + 1
  BY StoreSizes DEF Slots
<1>2. \A i \in k + 2 .. BankSlots : i \in Slots /\ i # k + 1 /\ i \in k + 1 .. BankSlots
  BY StoreSizes DEF Slots
<1>3. k + 1 \in Slots
  BY StoreSizes DEF Slots
<1>4. n \in Record /\ n.seq = top /\ Age(u, top) = 1
  BY AgeNext DEF Record
<1>5. LiveBank(r, k, top, rotten) /\ OldBank(B[Other(live)], k, top)
  BY DEF Flash
<1> HIDE DEF u, n
<1>6. q[k + 1] = n
  BY <1>3 DEF n
<1>7. ASSUME NEW i \in 1 .. k + 1
      PROVE  \/ q[i] \in Record /\ Age(u, q[i].seq) = (k + 1) + 1 - i
             \/ q[i] = Corrupt /\ rotten
  <2>1. CASE i = k + 1
    BY <1>4, <1>6, <2>1
  <2>2. CASE i # k + 1
    <3>1. i \in 1 .. k
      BY <2>2
    <3>2. q[i] = r[i]
      BY <1>1, <3>1
    <3>3. CASE r[i] \in Record /\ Age(top, r[i].seq) = k + 1 - i
      <4>1. r[i].seq \in SeqNum
        BY <3>3, RecordIs
      <4>2. k + 1 - i <= 2 * BankSlots
        BY <3>1, StoreSizes
      <4>3. Age(u, r[i].seq) = (k + 1 - i) + 1
        BY <3>3, <4>1, <4>2, OneOlder DEF u
      <4>4. QED
        BY <3>1, <3>2, <3>3, <4>3
    <3>4. QED
      BY <1>5, <3>1, <3>2, <3>3 DEF LiveBank
  <2>3. QED
    BY <2>1, <2>2
<1>8. ASSUME NEW i \in (k + 1) + 1 .. BankSlots
      PROVE  q[i] \notin Record /\ q[i] = Erased
  BY <1>2, <1>5 DEF LiveBank
<1>9. LiveBank(q, k + 1, u, rotten)
  BY <1>7, <1>8 DEF LiveBank
<1>10. ASSUME NEW i \in Slots, C[Other(live)][i] \in Record
       PROVE  Age(u, C[Other(live)][i].seq) \in (k + 1) + 1 .. (k + 1) + BankSlots
  <2> DEFINE s == C[Other(live)][i].seq
  <2>1. s \in SeqNum /\ Age(top, s) \in k + 1 .. k + BankSlots
    BY <1>5, <1>10, RecordIs DEF OldBank
  <2> HIDE DEF s
  <2>2. Age(top, s) <= 2 * BankSlots
    BY <2>1, StoreSizes
  <2>3. Age(u, s) = Age(top, s) + 1
    BY <2>1, <2>2, OneOlder DEF u
  <2>4. QED
    BY <2>1, <2>3, StoreSizes DEF s
<1>11. OldBank(C[Other(live)], k + 1, u)
  BY <1>10 DEF OldBank
<1>12. QED
  BY <1>6, <1>9, <1>11 DEF Flash, u, n

(* or as the first one of the other bank.                                    *)
LEMMA BankSwitched ==
  ASSUME WideEnough, NEW B, NEW C, NEW live \in Banks, NEW k \in 0 .. BankSlots,
         NEW top \in SeqNum, NEW rotten, Flash(B, live, k, top, rotten), NEW v \in Value,
         NEW s, EmptyBut(B[Other(live)], s),
         \A i \in Slots : C[Other(live)][i] = IF i = 1 THEN [seq |-> top, val |-> v]
                                              ELSE B[Other(live)][i],
         C[live] = B[live]
  PROVE  Flash(C, Other(live), 1, NextSeq(top), rotten)
         /\ C[Other(live)][1] = [seq |-> top, val |-> v]
<1> DEFINE o == Other(live)
           u == NextSeq(top)
           n == [seq |-> top, val |-> v]
<1>1. 1 \in Slots /\ \A i \in 1 + 1 .. BankSlots : i \in Slots /\ i # 1
  BY StoreSizes DEF Slots
<1>2. n \in Record /\ n.seq = top /\ Age(u, top) = 1
  BY AgeNext DEF Record
<1>3. LiveBank(B[live], k, top, rotten) /\ Other(o) = live
  BY OtherIs DEF Flash
<1> HIDE DEF u, n, o
<1>4. C[o][1] = n
  BY <1>1 DEF n, o
<1>5. \A i \in 1 + 1 .. BankSlots : C[o][i] = Erased /\ C[o][i] \notin Record
  BY <1>1, MarksAre DEF EmptyBut, o
<1>6. LiveBank(C[o], 1, u, rotten)
  BY <1>2, <1>4, <1>5 DEF LiveBank
<1>7. ASSUME NEW i \in Slots, C[live][i] \in Record
      PROVE  Age(u, C[live][i].seq) \in 1 + 1 .. 1 + BankSlots
  <2>1. C[live][i] = B[live][i]
    OBVIOUS
  <2>2. i \in 1 .. k
    BY <1>3, <1>7, <2>1, StoreSizes DEF LiveBank, Slots
  <2>3. Age(top, C[live][i].seq) = k + 1 - i /\ C[live][i].seq \in SeqNum
    BY <1>3, <1>7, <2>1, <2>2, MarksAre, RecordIs DEF LiveBank
  <2>4. k + 1 - i <= 2 * BankSlots
    BY <2>2, StoreSizes
  <2>5. Age(u, C[live][i].seq) = (k + 1 - i) + 1
    BY <2>3, <2>4, OneOlder DEF u
  <2>6. QED
    BY <2>2, <2>5, StoreSizes
<1>8. OldBank(C[Other(o)], 1, u)
  BY <1>3, <1>7 DEF OldBank
<1>9. Flash(C, o, 1, u, rotten) /\ C[o][1] = n
  BY <1>4, <1>6, <1>8 DEF Flash
<1>10. QED
  BY <1>9 DEF u, n, o

(* A record decayed.                                                         *)
LEMMA RecordDecayed ==
  ASSUME NEW B \in [Banks -> RecordBank], NEW live \in Banks, NEW k \in 0 .. BankSlots,
         NEW top, NEW rotten,
         Flash(B, live, k, top, rotten), NEW b \in Banks, NEW i \in Slots, B[b][i] \in Record
  PROVE  Flash([B EXCEPT ![b][i] = Corrupt], live, k, top, TRUE)
<1> DEFINE C == [B EXCEPT ![b][i] = Corrupt]
<1>1. ASSUME NEW c \in Banks, NEW j \in Slots
      PROVE  C[c][j] = IF c = b /\ j = i THEN Corrupt ELSE B[c][j]
  BY DEF RecordBank
<1> HIDE DEF C
<1>2. Other(live) \in Banks
  BY OtherIs
<1>3. LiveBank(C[live], k, top, TRUE)
  <2>1. ASSUME NEW j \in 1 .. k
        PROVE  \/ C[live][j] \in Record /\ Age(top, C[live][j].seq) = k + 1 - j
               \/ C[live][j] = Corrupt
    <3>1. j \in Slots
      BY StoreSizes DEF Slots
    <3>2. QED
      BY <1>1, <3>1 DEF Flash, LiveBank
  <2>2. ASSUME NEW j \in k + 1 .. BankSlots
        PROVE  C[live][j] \notin Record /\ (j # k + 1 => C[live][j] = Erased)
    <3>1. j \in Slots
      BY StoreSizes DEF Slots
    <3>2. B[live][j] \notin Record /\ (j # k + 1 => B[live][j] = Erased)
      BY DEF Flash, LiveBank
    <3>3. C[live][j] = B[live][j]
      BY <1>1, <3>1, <3>2
    <3>4. QED
      BY <3>2, <3>3
  <2>3. QED
    BY <2>1, <2>2 DEF LiveBank
<1>4. OldBank(C[Other(live)], k, top)
  BY <1>1, <1>2, MarksAre DEF Flash, OldBank
<1>5. QED
  BY <1>3, <1>4 DEF Flash, C

(* What clearing a sector leaves of a slot.                                  *)
ClearedSlot(s, i, sector) ==
  IF Straddles /\ i = HeadSlots THEN ClearedStraddler(s, sector)
  ELSE IF i \in SlotsOf(sector) THEN Erased ELSE s

LEMMA ClearedSlots ==
  ASSUME NEW r \in RecordBank, NEW sector
  PROVE  /\ Cleared(r, sector) \in RecordBank
         /\ \A i \in Slots : Cleared(r, sector)[i] = ClearedSlot(r[i], i, sector)
         /\ Blank(r, sector) <=> \A i \in Slots : ClearedSlot(r[i], i, sector) = r[i]
<1> DEFINE c == [i \in Slots |-> ClearedSlot(r[i], i, sector)]
<1>1. Cleared(r, sector) = c
  BY DEF Cleared, ClearedSlot, RecordBank
<1>2. \A i \in Slots : r[i] \in Contents /\ ClearedSlot(r[i], i, sector) \in Contents
  BY MarksAre DEF ClearedSlot, ClearedStraddler, RecordBank
<1>3. r = [i \in Slots |-> r[i]]
  BY DEF RecordBank
<1>4. c = r <=> \A i \in Slots : ClearedSlot(r[i], i, sector) = r[i]
  BY <1>3
<1>5. QED
  BY <1>1, <1>2, <1>4 DEF Blank, RecordBank

LEMMA ClearedIs ==
  ASSUME NEW r \in RecordBank, NEW sector \in Sectors
  PROVE  /\ Cleared(r, sector) \in RecordBank
         /\ \A i \in Slots : Cleared(r, sector)[i] \in Record => Cleared(r, sector)[i] = r[i]
         /\ Blank(Cleared(r, sector), sector)
         /\ sector = 2 /\ Blank(r, 1) => Blank(Cleared(r, sector), 1)
<1> DEFINE c == Cleared(r, sector)
<1>1. c \in RecordBank /\ \A i \in Slots : c[i] = ClearedSlot(r[i], i, sector)
  BY ClearedSlots
<1> HIDE DEF c
<1>2. \A i \in Slots : c[i] \in Record => c[i] = r[i]
  BY <1>1, MarksAre DEF ClearedSlot, ClearedStraddler
<1>3. ASSUME NEW i \in Slots
      PROVE  ClearedSlot(c[i], i, sector) = c[i]
  <2>1. sector = 1 \/ sector = 2
    BY DEF Sectors
  <2>2. QED
    BY <1>1, <2>1, MarksAre DEF ClearedSlot, ClearedStraddler
<1>4. ASSUME sector = 2, Blank(r, 1), NEW i \in Slots
      PROVE  ClearedSlot(c[i], i, 1) = c[i]
  <2>1. ClearedSlot(r[i], i, 1) = r[i]
    BY <1>4, ClearedSlots
  <2>2. i \in SlotsOf(1) => i \notin SlotsOf(2)
    BY StoreSizes DEF SlotsOf
  <2>3. c[i] = ClearedSlot(r[i], i, 2)
    BY <1>1, <1>4
  <2>4. CASE Straddles /\ i = HeadSlots
    <3>1. r[i] = Erased \/ r[i] = Hole
      BY <2>1, <2>4 DEF ClearedSlot, ClearedStraddler
    <3>2. c[i] = Erased
      BY <2>3, <2>4, <3>1, MarksAre DEF ClearedSlot, ClearedStraddler
    <3>3. QED
      BY <2>4, <3>2 DEF ClearedSlot, ClearedStraddler
  <2>5. CASE ~(Straddles /\ i = HeadSlots)
    BY <2>1, <2>2, <2>3, <2>5 DEF ClearedSlot
  <2>6. QED
    BY <2>4, <2>5
<1>5. QED
  BY <1>1, <1>2, <1>3, <1>4, ClearedSlots DEF c

LEMMA AllBlank ==
  ASSUME NEW r \in RecordBank, Blank(r, 1), Blank(r, 2), NEW i \in Slots
  PROVE  r[i] = Erased
<1>1. ClearedSlot(r[i], i, 1) = r[i] /\ ClearedSlot(r[i], i, 2) = r[i]
  BY ClearedSlots
<1>2. i \in SlotsOf(1) \/ i \in SlotsOf(2)
  BY StoreSizes DEF SlotsOf, Slots
<1>3. CASE Straddles /\ i = HeadSlots
  BY <1>1, <1>3, MarksAre DEF ClearedSlot, ClearedStraddler
<1>4. CASE ~(Straddles /\ i = HeadSlots)
  BY <1>1, <1>2, <1>4 DEF ClearedSlot
<1>5. QED
  BY <1>3, <1>4

LEMMA HalfClearedIs ==
  ASSUME NEW r \in RecordBank, NEW sector, NEW c \in HalfCleared(r, sector)
  PROVE  /\ c \in RecordBank
         /\ \A i \in Slots : c[i] \in Record => c[i] = r[i]
<1> DEFINE Kinds == {Hole, Garbled, Corrupt, Erased}
           Touched == {i \in DOMAIN r : Cleared(r, sector)[i] # r[i]}
<1>1. PICK q \in [Touched -> Kinds \cup {Torn}] :
         c = [i \in DOMAIN r |-> IF i \in Touched /\ q[i] # Torn THEN q[i] ELSE r[i]]
  BY DEF HalfCleared
<1>2. DOMAIN r = Slots /\ \A i \in Slots : r[i] \in Contents
  BY DEF RecordBank
<1>3. ASSUME NEW i \in Slots
      PROVE  c[i] = r[i] \/ c[i] \in Kinds
  <2>1. c[i] = IF i \in Touched /\ q[i] # Torn THEN q[i] ELSE r[i]
    BY <1>1, <1>2
  <2>2. i \in Touched => q[i] \in Kinds \cup {Torn}
    BY <1>1
  <2> HIDE DEF Touched, Kinds
  <2>3. QED
    BY <2>1, <2>2
<1>4. c = [i \in Slots |-> c[i]]
  BY <1>1, <1>2
<1>5. \A i \in Slots : c[i] \in Contents /\ (c[i] \in Record => c[i] = r[i])
  BY <1>2, <1>3, MarksAre
<1> HIDE DEF Touched, Kinds
<1>6. QED
  BY <1>4, <1>5 DEF RecordBank

-----------------------------------------------------------------------------
(* The steps                                                                 *)

LEMMA UnusableIs ==
  /\ Unusable \in StoreRam /\ Unusable.usable = FALSE /\ Unusable.prepared = 0
  /\ \A s \in StoreRam : [s EXCEPT !.usable = FALSE] \in StoreRam
                         /\ [s EXCEPT !.usable = FALSE].usable = FALSE
                         /\ [s EXCEPT !.usable = FALSE].prepared = s.prepared
<1>1. "A" \in Banks /\ 0 \in 0 .. 2
  BY DEF Banks
<1>2. Unusable \in StoreRam /\ Unusable.usable = FALSE /\ Unusable.prepared = 0
  BY <1>1, StoreSizes DEF Unusable, StoreRam
<1>3. ASSUME NEW s \in StoreRam
      PROVE  /\ [s EXCEPT !.usable = FALSE] \in StoreRam
             /\ [s EXCEPT !.usable = FALSE].usable = FALSE
             /\ [s EXCEPT !.usable = FALSE].prepared = s.prepared
  BY DEF StoreRam
<1>4. QED
  BY <1>2, <1>3

(* No call is under way and the RAM is not used: the Flash decides.          *)
LEMMA RamGone ==
  ASSUME StoreTypes, NEW live \in Banks, NEW k \in 0 .. BankSlots, NEW top \in SeqNum,
         Flash(bank', live, k, top, decayed'), Kept(bank', live, k, promise', attempt'),
         job' = NoSave, ~store'.usable
  PROVE  StoreHolds'
<1>1. Holds(live, k, top)'
  BY DEF Holds
<1>2. QED
  BY <1>1 DEF StoreHolds

LEMMA NoJob ==
  /\ \A j \in WriteJob : j # NoSave /\ j.at \in {"body", "commit", "verify"} /\ j.b \in Banks
                         /\ j.slot \in Slots /\ j.switch \in BOOLEAN /\ j.val \in Value
  /\ \A j \in EraseJob : j # NoSave /\ j.at \in {"clear", "retire"} /\ j.b \in Banks
                         /\ j.sector \in Sectors /\ j.val \in Value
  /\ NoSave.at = "idle"
BY DEF WriteJob, EraseJob, NoSave

LEMMA StoreInitHolds == StoreInit => StoreInv
<1> SUFFICES ASSUME StoreInit
             PROVE  StoreInv
  OBVIOUS
<1>1. mode \in {"legacy", "strict", "prepared"}
  BY StoreAssumption DEF StoreInit
<1>2. /\ bank = [b \in Banks |-> [i \in 1 .. BankSlots |-> Erased]]
      /\ store = Unusable /\ job = NoSave
      /\ promise = NoValue /\ attempt = NoValue /\ decayed = FALSE
  BY DEF StoreInit
<1>3. \A b \in Banks : bank[b] \in RecordBank /\ \A i \in Slots : bank[b][i] = Erased
  BY <1>2, MarksAre DEF RecordBank, Slots
<1>4. StoreTypes
  <2>1. bank \in [Banks -> RecordBank]
    BY <1>2, <1>3
  <2>2. QED
    BY <1>1, <1>2, <2>1, UnusableIs DEF StoreTypes
<1>5. PreparedIsBlank
  BY <1>2, UnusableIs DEF PreparedIsBlank
<1>6. StoreHolds
  <2>1. "A" \in Banks /\ 0 \in 0 .. BankSlots /\ 1 \in SeqNum /\ Other("A") \in Banks
    BY StoreSizes, OtherIs DEF Banks
  <2>2. LiveBank(bank["A"], 0, 1, decayed)
    <3>1. \A i \in 0 + 1 .. BankSlots : i \in Slots
      BY DEF Slots
    <3>2. QED
      BY <1>3, <2>1, <3>1, MarksAre, StoreSizes DEF LiveBank
  <2>3. OldBank(bank[Other("A")], 0, 1)
    BY <1>3, <2>1, MarksAre DEF OldBank
  <2>4. Flash(bank, "A", 0, 1, decayed) /\ Kept(bank, "A", 0, promise, attempt)
    BY <1>2, <2>2, <2>3 DEF Flash, Kept
  <2>5. Holds("A", 0, 1)
    BY <1>2, <2>4, UnusableIs DEF Holds
  <2>6. QED
    BY <2>1, <2>5 DEF StoreHolds
<1>7. QED
  BY <1>4, <1>5, <1>6 DEF StoreInv

LEMMA RamTypes ==
  ASSUME StoreTypes
  PROVE  /\ store.usable \in BOOLEAN /\ store.active \in Banks /\ store.next \in SeqNum
         /\ store.have \in BOOLEAN /\ store.prepared \in 0 .. 2
BY DEF StoreTypes, StoreRam

LEMMA InitStoreStep == ASSUME WideEnough, StoreInv, InitStore PROVE StoreInv'
<1>1. /\ job = NoSave /\ job' = NoSave /\ bank' = bank /\ mode' = mode /\ decayed' = decayed
      /\ StoreTypes /\ (Strict' <=> Strict)
  BY DEF InitStore, StoreInv, Strict
<1>2. CASE InitFails /\ store' = Unusable /\ promise' = promise /\ attempt' = attempt
  <2>1. StoreTypes' /\ PreparedIsBlank'
    BY <1>1, <1>2, UnusableIs DEF StoreTypes, PreparedIsBlank
  <2>2. ASSUME Kind
        PROVE  StoreHolds'
    <3>1. PICK live \in Banks, k \in 0 .. BankSlots, top \in SeqNum : Holds(live, k, top)
      BY <2>2 DEF StoreInv, StoreHolds
    <3>2. Flash(bank', live, k, top, decayed') /\ Kept(bank', live, k, promise', attempt')
      BY <1>1, <1>2, <3>1 DEF Holds
    <3>3. QED
      BY <1>1, <1>2, <3>2, RamGone, UnusableIs
  <2>3. QED
    BY <1>1, <2>1, <2>2 DEF StoreInv, Kind
<1>3. CASE /\ ~InitFails /\ promise' = Recovered /\ attempt' = NoValue
           /\ store' = [Unusable EXCEPT !.usable = TRUE, !.have = SomethingFound,
                          !.active = IF SomethingFound THEN NewestBank ELSE "A",
                          !.next = IF SomethingFound THEN NextSeq(NewestIn(NewestBank).seq) ELSE 1]
  <2>1. NewestBank \in Banks
    BY DEF NewestBank, Banks
  <2>2. SomethingFound => NewestIn(NewestBank) \in Record
    <3>1. SomethingFound => Found(NewestBank)
      BY DEF SomethingFound, NewestBank, Banks
    <3>2. SUFFICES ASSUME Found(NewestBank)
                   PROVE  NewestIn(NewestBank) \in Record
      BY <3>1
    <3>3. bank[NewestBank] \in RecordBank
      BY <1>1, <2>1, FlashTypes
    <3>4. QED
      BY <3>2, <3>3, LatestRecord DEF Found, NewestIn, Latest
  <2>3. SomethingFound \in BOOLEAN
    BY DEF SomethingFound
  <2>4. /\ store'.usable = TRUE /\ store'.have = SomethingFound
        /\ store'.active = (IF SomethingFound THEN NewestBank ELSE "A")
        /\ store'.next = (IF SomethingFound THEN NextSeq(NewestIn(NewestBank).seq) ELSE 1)
        /\ store'.prepared = 0
    BY <1>3 DEF Unusable
  <2>5. store' \in StoreRam
    <3>1. (IF SomethingFound THEN NewestBank ELSE "A") \in Banks
      BY <2>1 DEF Banks
    <3>2. (IF SomethingFound THEN NextSeq(NewestIn(NewestBank).seq) ELSE 1) \in SeqNum
      BY <2>2, RecordIs, NextSeqIs, StoreSizes
    <3>3. QED
      BY <1>3, <2>3, <3>1, <3>2, UnusableIs DEF StoreRam
  <2>6. promise' \in Value \cup {NoValue}
    BY <1>3, <2>2, RecordIs DEF Recovered
  <2>7. StoreTypes' /\ PreparedIsBlank'
    BY <1>1, <1>3, <2>4, <2>5, <2>6 DEF StoreTypes, PreparedIsBlank
  <2>8. ASSUME Kind
        PROVE  StoreHolds'
    <3>1. PICK live \in Banks, k \in 0 .. BankSlots, top \in SeqNum : Holds(live, k, top)
      BY <2>8 DEF StoreInv, StoreHolds
    <3>2. Flash(bank, live, k, top, decayed)
      BY <3>1 DEF Holds
    <3>3. /\ SomethingFound <=> k > 0
          /\ k > 0 => /\ NewestBank = live /\ NewestIn(live) = bank[live][k]
                      /\ bank[live][k] \in Record
                      /\ Age(top, bank[live][k].seq) = 1
      BY <1>1, <1>3, <2>8, <3>2, RecoveredIs
    <3>4. CASE k = 0
      <4>1. live = "A" /\ top = 1 /\ ~SomethingFound /\ promise' = NoValue
        BY <1>3, <3>2, <3>3, <3>4 DEF Flash, Recovered
      <4>2. ~(k > 0) /\ store'.have = FALSE
        BY <2>3, <2>4, <3>4, <4>1
      <4>3. Idle(bank', store', live, k, top, promise') /\ Kept(bank', live, k, promise', attempt')
        <5>1. store'.active = live /\ store'.next = top
          BY <2>4, <4>1
        <5>2. QED
          BY <3>4, <4>1, <4>2, <5>1 DEF Idle, Kept
      <4>4. Holds(live, k, top)'
        BY <1>1, <3>2, <4>3 DEF Holds
      <4>5. QED
        BY <4>4 DEF StoreHolds
    <3>5. CASE k > 0
      <4>1. promise' = bank[live][k].val /\ SomethingFound
        BY <1>3, <3>3, <3>5 DEF Recovered
      <4>2. NextSeq(NewestIn(live).seq) = top
        BY <3>3, <3>5, RecordIs, AgeOne
      <4>3. Idle(bank', store', live, k, top, promise')
        BY <1>1, <2>4, <3>3, <3>5, <4>1, <4>2 DEF Idle, Answer
      <4>4. Kept(bank', live, k, promise', attempt')
        BY <1>1, <3>5, <4>1 DEF Kept, Answer
      <4>5. Holds(live, k, top)'
        BY <1>1, <3>2, <4>3, <4>4 DEF Holds
      <4>6. QED
        BY <4>5 DEF StoreHolds
    <3>6. QED
      BY <3>4, <3>5
  <2>9. QED
    BY <1>1, <2>7, <2>8 DEF StoreInv, Kind
<1>4. QED
  BY <1>2, <1>3 DEF InitStore

(* The store is given up and the Flash is left as it is.                     *)
LEMMA GivenUp ==
  ASSUME StoreInv, bank' = bank, mode' = mode, decayed' = decayed,
         promise' = promise, attempt' = attempt, job' = NoSave,
         store' = Unusable \/ store' = [store EXCEPT !.usable = FALSE]
  PROVE  StoreInv'
<1>1. StoreTypes /\ (Kind' <=> Kind)
  BY DEF StoreInv, Kind, Strict
<1>2. /\ store' \in StoreRam /\ store'.usable = FALSE
      /\ store'.prepared # 0 => store.prepared # 0
  BY <1>1, UnusableIs DEF StoreTypes
<1>3. StoreTypes' /\ PreparedIsBlank'
  BY <1>1, <1>2 DEF StoreTypes, PreparedIsBlank
<1>4. ASSUME Kind
      PROVE  StoreHolds'
  <2>1. PICK live \in Banks, k \in 0 .. BankSlots, top \in SeqNum : Holds(live, k, top)
    BY <1>4 DEF StoreInv, StoreHolds
  <2>2. Flash(bank', live, k, top, decayed') /\ Kept(bank', live, k, promise', attempt')
    BY <2>1 DEF Holds
  <2>3. QED
    BY <1>1, <1>2, <2>2, RamGone
<1>5. QED
  BY <1>1, <1>3, <1>4 DEF StoreInv

LEMMA SaveRefusedStep == ASSUME StoreInv, SaveRefused PROVE StoreInv'
<1>1. /\ bank' = bank /\ mode' = mode /\ decayed' = decayed /\ promise' = promise
      /\ attempt' = attempt /\ job' = NoSave /\ store' = Unusable
  BY DEF SaveRefused
<1>2. QED
  BY <1>1, GivenUp

LEMMA VerifyFailsStep == ASSUME StoreInv, VerifyFails PROVE StoreInv'
<1>1. /\ bank' = bank /\ mode' = mode /\ decayed' = decayed /\ promise' = promise
      /\ attempt' = attempt /\ job' = NoSave /\ store' = [store EXCEPT !.usable = FALSE]
  BY DEF VerifyFails
<1>2. QED
  BY <1>1, GivenUp

(* Clearing a sector of the other bank makes it blank and keeps what was.    *)
LEMMA PrepareStepHolds == ASSUME StoreInv, PrepareStep PROVE StoreInv'
<1> DEFINE o == Other(store.active)
           n == store.prepared + 1
<1>1. /\ job = NoSave /\ job' = job /\ mode = "prepared" /\ mode' = mode /\ decayed' = decayed
      /\ promise' = promise /\ attempt' = attempt
      /\ store.usable /\ store.have /\ n \in Sectors
      /\ bank' = [bank EXCEPT ![o] = Cleared(@, n)]
      /\ store' = [store EXCEPT !.prepared = @ + 1]
      /\ StoreTypes /\ (Kind' <=> Kind)
  BY DEF PrepareStep, Prepares, StoreInv, Kind, Strict
<1>2. /\ store'.usable = store.usable /\ store'.active = store.active /\ store'.next = store.next
      /\ store'.have = store.have /\ store'.prepared = n /\ store' \in StoreRam
  <2>1. store \in StoreRam /\ store.prepared + 1 \in 0 .. 2
    BY <1>1 DEF StoreTypes, Sectors
  <2>2. store' = [store EXCEPT !.prepared = store.prepared + 1]
    BY <1>1
  <2> DEFINE q == store.prepared + 1
  <2> HIDE DEF q
  <2>3. q \in 0 .. 2 /\ store' = [store EXCEPT !.prepared = q] /\ q = n
    BY <2>1, <2>2 DEF q
  <2> HIDE DEF n
  <2>4. QED
    BY <2>1, <2>3 DEF StoreRam
<1>3. o \in Banks /\ o # store.active /\ bank[o] \in RecordBank /\ store.active \in Banks
  BY <1>1, RamTypes, OtherIs, FlashTypes
<1>4. /\ bank'[o] = Cleared(bank[o], n) /\ \A b \in Banks : b # o => bank'[b] = bank[b]
      /\ bank' \in [Banks -> RecordBank]
  BY <1>1, <1>3, ClearedIs DEF StoreTypes
<1>5. StoreTypes'
  BY <1>1, <1>2, <1>4 DEF StoreTypes
<1>6. PreparedIsBlank'
  <2>1. n = 1 \/ (n = 2 /\ Blank(bank[o], 1))
    <3>1. n = 1 \/ n = 2
      BY <1>1 DEF Sectors
    <3>2. n = 2 => 1 \in 1 .. store.prepared
      BY <1>1, RamTypes
    <3>3. QED
      BY <1>1, <3>1, <3>2 DEF StoreInv, PreparedIsBlank
  <2>2. \A sector \in 1 .. n : Blank(bank'[o], sector)
    <3>1. Blank(bank'[o], n) /\ (n = 2 => Blank(bank'[o], 1))
      BY <1>1, <1>3, <1>4, <2>1, ClearedIs
    <3>2. \A sector \in 1 .. n : sector = n \/ (n = 2 /\ sector = 1)
      BY <1>1 DEF Sectors
    <3> HIDE DEF n, o
    <3>3. QED
      BY <3>1, <3>2
  <2>3. QED
    BY <1>2, <2>2 DEF PreparedIsBlank
<1>7. ASSUME Kind
      PROVE  StoreHolds'
  <2>1. PICK live \in Banks, k \in 0 .. BankSlots, top \in SeqNum : Holds(live, k, top)
    BY <1>7 DEF StoreInv, StoreHolds
  <2>2. Flash(bank, live, k, top, decayed) /\ Idle(bank, store, live, k, top, promise)
        /\ Kept(bank, live, k, promise, attempt)
    BY <1>1, <2>1 DEF Holds
  <2>3. store.active = live
    BY <2>2 DEF Idle
  <2>4. bank'[live] = bank[live] /\ bank'[Other(live)] = Cleared(bank[Other(live)], n)
    BY <1>3, <1>4, <2>3
  <2>5. Flash(bank', live, k, top, decayed')
    <3>1. \A i \in Slots : bank'[Other(live)][i] \in Record =>
            bank'[Other(live)][i] = bank[Other(live)][i]
      BY <1>1, <1>3, <2>3, <2>4, ClearedIs
    <3>2. QED
      BY <1>1, <2>2, <2>4, <3>1, OtherChanged
  <2>6. Idle(bank', store', live, k, top, promise')
    BY <1>1, <1>2, <2>2, <2>4 DEF Idle
  <2>7. Kept(bank', live, k, promise', attempt')
    BY <1>1, <2>2, <2>4 DEF Kept
  <2>8. Holds(live, k, top)'
    BY <1>1, <2>5, <2>6, <2>7 DEF Holds
  <2>9. QED
    BY <2>8 DEF StoreHolds
<1>8. QED
  BY <1>1, <1>5, <1>6, <1>7 DEF StoreInv

(* The job after the sectors before the n-th are blank.                      *)
ClearJob(j, b, n, val) ==
  /\ j \in WriteJob \/ j \in EraseJob
  /\ j # NoSave /\ j.val = val /\ j.b = b
  /\ n \in Sectors => j.at = "clear" /\ j.sector = n
  /\ n \notin Sectors => j.at = "body" /\ j.slot = 1 /\ j.switch = TRUE

LEMMA ClearFromIs ==
  ASSUME NEW b \in Banks, NEW n \in 1 .. 3, NEW val \in Value
  PROVE  ClearJob(ClearFrom(b, n, val), b, n, val)
<1>1. CASE n \in Sectors
  BY <1>1 DEF ClearFrom, EraseJob, NoSave, ClearJob
<1>2. CASE n \notin Sectors
  BY <1>2, StoreSizes DEF ClearFrom, Write, WriteJob, NoSave, Slots, ClearJob
<1>3. QED
  BY <1>1, <1>2

LEMMA ClearingGoesOn ==
  ASSUME NEW live \in Banks, NEW B, B[Other(live)] \in RecordBank, NEW s, s.prepared = 0,
         NEW n \in 1 .. 3, \A sector \in 1 .. n - 1 : Blank(B[Other(live)], sector),
         NEW val \in Value, NEW k
  PROVE  \/ Clearing(B, s, ClearFrom(Other(live), n, val), live)
         \/ Writing(B, s, ClearFrom(Other(live), n, val), live, k)
<1> DEFINE j == ClearFrom(Other(live), n, val)
<1>1. Other(live) \in Banks
  BY OtherIs
<1>2. ClearJob(j, Other(live), n, val)
  BY <1>1, ClearFromIs
<1> HIDE DEF j
<1>3. CASE n \in Sectors
  <2>1. Clearing(B, s, j, live)
    BY <1>2, <1>3 DEF Clearing, ClearJob
  <2>2. QED
    BY <2>1 DEF j
<1>4. CASE n \notin Sectors
  <2>1. 1 \in 1 .. n - 1 /\ 2 \in 1 .. n - 1
    BY <1>4 DEF Sectors
  <2>2. EmptyBut(B[Other(live)], Erased)
    BY <2>1, AllBlank DEF EmptyBut
  <2>3. Writing(B, s, j, live, k)
    BY <1>2, <1>4, <2>2 DEF Writing, ClearJob
  <2>4. QED
    BY <2>3 DEF j
<1>5. QED
  BY <1>3, <1>4

(* Nothing is promised yet; what the Save wants to store is noted.           *)
LEMMA SaveBeginsStep ==
  ASSUME WideEnough, StoreInv, NEW val \in Value, SaveBegins(val)
  PROVE  StoreInv'
<1> DEFINE o == Other(store.active)
           place == AppendPlace(store.active)
           n == store.prepared + 1
<1>1. /\ job = NoSave /\ store.usable /\ bank' = bank /\ mode' = mode /\ decayed' = decayed
      /\ promise' = promise /\ attempt' = val
      /\ StoreTypes /\ PreparedIsBlank /\ (Kind' <=> Kind) /\ ~ScanFails(bank[store.active])
  BY DEF SaveBegins, StoreInv, Kind, Strict, ActiveValid, ScanFails
<1>2. /\ store.active \in Banks /\ o \in Banks /\ n \in 1 .. 3
      /\ bank[o] \in RecordBank /\ bank[store.active] \in RecordBank
  BY <1>1, RamTypes, OtherIs, FlashTypes
<1>3. ASSUME Kind
      PROVE  \E live \in Banks, k \in 0 .. BankSlots, top \in SeqNum :
                /\ Flash(bank', live, k, top, decayed') /\ Kept(bank', live, k, promise', attempt')
                /\ Idle(bank, store, live, k, top, promise)
                /\ FindLatest(Seen(bank[live], FALSE)) = k
  <2>1. PICK live \in Banks, k \in 0 .. BankSlots, top \in SeqNum : Holds(live, k, top)
    BY <1>3 DEF StoreInv, StoreHolds
  <2>2. /\ Flash(bank, live, k, top, decayed) /\ Kept(bank, live, k, promise, attempt)
        /\ Idle(bank, store, live, k, top, promise)
    BY <1>1, <2>1 DEF Holds
  <2>3. Kept(bank', live, k, promise', attempt')
    BY <1>1, <2>2 DEF Kept, Idle
  <2>4. store.active = live /\ LiveBank(bank[live], k, top, decayed)
    BY <2>2 DEF Idle, Flash
  <2>5. Whole(bank[live], k)
    BY <1>1, <1>3, <2>4, NoneDecayed
  <2>6. FindLatest(Seen(bank[live], FALSE)) = k
    BY <1>2, <2>4, <2>5, LatestLive
  <2>7. QED
    BY <1>1, <2>2, <2>3, <2>6
<1>4. CASE Fits(store.active)
  <2>1. store' = store /\ job' = Write(store.active, place, FALSE, val)
    BY <1>4 DEF SaveBegins
  <2>2. place \in Slots /\ bank[store.active][place] = Erased
    BY <1>4 DEF Fits, Slots
  <2>3. /\ job' \in WriteJob /\ job' # NoSave /\ job'.val = val
        /\ job'.at = "body" /\ job'.b = store.active /\ job'.slot = place /\ job'.switch = FALSE
    <3> HIDE DEF place
    <3>1. QED
      BY <1>2, <2>1, <2>2 DEF Write, WriteJob, NoSave
  <2>4. StoreTypes' /\ PreparedIsBlank'
    BY <1>1, <2>1, <2>3 DEF StoreTypes, PreparedIsBlank
  <2>5. ASSUME Kind
        PROVE  StoreHolds'
    <3>1. PICK live \in Banks, k \in 0 .. BankSlots, top \in SeqNum :
                /\ Flash(bank', live, k, top, decayed') /\ Kept(bank', live, k, promise', attempt')
                /\ Idle(bank, store, live, k, top, promise)
                /\ FindLatest(Seen(bank[live], FALSE)) = k
      BY <1>3, <2>5
    <3>2. store.active = live /\ place = k + 1
      BY <3>1 DEF Idle, AppendPlace, Cursor
    <3>3. Writing(bank', store', job', live, k)
      BY <1>1, <2>2, <2>3, <3>2 DEF Writing
    <3>4. Idle(bank', store', live, k, top, promise')
      BY <1>1, <2>1, <3>1
    <3>5. Saving(bank', store', job', live, k, top, promise', mode')
      BY <1>1, <2>1, <3>3, <3>4 DEF Saving
    <3>6. Holds(live, k, top)'
      BY <1>1, <2>3, <3>1, <3>5 DEF Holds
    <3>7. QED
      BY <3>6 DEF StoreHolds
  <2>6. QED
    BY <1>1, <2>4, <2>5 DEF StoreInv
<1>5. CASE ~Fits(store.active)
  <2>1. job' = ClearFrom(o, n, val) /\ store' = [store EXCEPT !.prepared = 0]
    BY <1>5 DEF SaveBegins, PreparedConsumed
  <2>2. (job' \in WriteJob \/ job' \in EraseJob) /\ job' # NoSave /\ job'.val = val
    <3>1. ClearJob(job', o, n, val)
      BY <1>2, <2>1, ClearFromIs
    <3>2. QED
      BY <3>1 DEF ClearJob
  <2>3. /\ store' \in StoreRam /\ store'.prepared = 0 /\ store'.usable = store.usable
        /\ store'.active = store.active /\ store'.next = store.next /\ store'.have = store.have
    <3>1. store \in StoreRam
      BY <1>1 DEF StoreTypes
    <3>2. QED
      BY <2>1, <3>1 DEF StoreRam
  <2>4. StoreTypes' /\ PreparedIsBlank'
    BY <1>1, <2>2, <2>3 DEF StoreTypes, PreparedIsBlank
  <2>5. ASSUME Kind
        PROVE  StoreHolds'
    <3>1. PICK live \in Banks, k \in 0 .. BankSlots, top \in SeqNum :
                /\ Flash(bank', live, k, top, decayed') /\ Kept(bank', live, k, promise', attempt')
                /\ Idle(bank, store, live, k, top, promise)
                /\ FindLatest(Seen(bank[live], FALSE)) = k
      BY <1>3, <2>5
    <3>2. store.active = live
      BY <3>1 DEF Idle
    <3>3. \A sector \in 1 .. n - 1 : Blank(bank[o], sector)
      <4>1. n - 1 = store.prepared
        BY <1>1, RamTypes
      <4>2. QED
        BY <1>1, <4>1 DEF PreparedIsBlank
    <3>4. Clearing(bank', store', job', live) \/ Writing(bank', store', job', live, k)
      <4>1. bank'[Other(live)] \in RecordBank
        BY <1>1, <1>2, <3>2
      <4>2. \A sector \in 1 .. n - 1 : Blank(bank'[Other(live)], sector)
        BY <1>1, <3>2, <3>3
      <4> HIDE DEF n
      <4>3. QED
        BY <1>2, <2>1, <2>3, <3>2, <4>1, <4>2, ClearingGoesOn
    <3>5. Idle(bank', store', live, k, top, promise')
      BY <1>1, <2>3, <3>1 DEF Idle
    <3>6. Saving(bank', store', job', live, k, top, promise', mode')
      BY <1>1, <2>3, <3>4, <3>5 DEF Saving
    <3>7. Holds(live, k, top)'
      BY <1>1, <2>2, <3>1, <3>6 DEF Holds
    <3>8. QED
      BY <3>7 DEF StoreHolds
  <2>6. QED
    BY <1>1, <2>4, <2>5 DEF StoreInv
<1>6. QED
  BY <1>4, <1>5

-----------------------------------------------------------------------------
(* What a Save writes                                                        *)

LEMMA JobIs ==
  ASSUME StoreTypes
  PROVE  /\ job.at \in {"clear", "retire"} => job \in EraseJob
         /\ job.at \in {"body", "commit", "verify"} => job \in WriteJob
         /\ job.at \in {"clear", "retire", "body", "commit", "verify"} <=> job # NoSave
<1>1. job = NoSave \/ job \in WriteJob \/ job \in EraseJob
  BY DEF StoreTypes
<1>2. QED
  BY <1>1, NoJob

LEMMA JobAdvances ==
  /\ \A j \in WriteJob, a \in {"commit", "verify"} :
        /\ [j EXCEPT !.at = a] \in WriteJob /\ [j EXCEPT !.at = a].at = a
        /\ [j EXCEPT !.at = a].b = j.b /\ [j EXCEPT !.at = a].slot = j.slot
        /\ [j EXCEPT !.at = a].switch = j.switch /\ [j EXCEPT !.at = a].val = j.val
  /\ \A j \in EraseJob, n \in Sectors :
        /\ [j EXCEPT !.sector = n] \in EraseJob /\ [j EXCEPT !.sector = n].at = j.at
        /\ [j EXCEPT !.sector = n].b = j.b /\ [j EXCEPT !.sector = n].sector = n
        /\ [j EXCEPT !.sector = n].val = j.val
  /\ \A b \in Banks, v \in Value :
        /\ Retire(b, v) \in EraseJob /\ Retire(b, v).at = "retire" /\ Retire(b, v).b = b
        /\ Retire(b, v).sector = 1 /\ Retire(b, v).val = v
<1>1. \A j \in WriteJob, a \in {"commit", "verify"} :
        /\ [j EXCEPT !.at = a] \in WriteJob /\ [j EXCEPT !.at = a].at = a
        /\ [j EXCEPT !.at = a].b = j.b /\ [j EXCEPT !.at = a].slot = j.slot
        /\ [j EXCEPT !.at = a].switch = j.switch /\ [j EXCEPT !.at = a].val = j.val
  BY DEF WriteJob
<1>2. \A j \in EraseJob, n \in Sectors :
        /\ [j EXCEPT !.sector = n] \in EraseJob /\ [j EXCEPT !.sector = n].at = j.at
        /\ [j EXCEPT !.sector = n].b = j.b /\ [j EXCEPT !.sector = n].sector = n
        /\ [j EXCEPT !.sector = n].val = j.val
  BY DEF EraseJob
<1>3. \A b \in Banks, v \in Value :
        /\ Retire(b, v) \in EraseJob /\ Retire(b, v).at = "retire" /\ Retire(b, v).b = b
        /\ Retire(b, v).sector = 1 /\ Retire(b, v).val = v
  BY DEF Retire, EraseJob, Sectors
<1>4. QED
  BY <1>1, <1>2, <1>3

(* C is the Flash with another content of one bank, or of one slot.          *)
BankSet(C, b, r) ==
  /\ C \in [Banks -> RecordBank] /\ C[b] = r
  /\ \A c \in Banks : c # b => C[c] = bank[c]

SlotSet(C, b, n, s) ==
  /\ C \in [Banks -> RecordBank]
  /\ \A i \in Slots : C[b][i] = IF i = n THEN s ELSE bank[b][i]
  /\ \A c \in Banks : c # b => C[c] = bank[c]

LEMMA BankSetIs ==
  ASSUME StoreTypes, NEW b \in Banks, NEW r \in RecordBank
  PROVE  BankSet([bank EXCEPT ![b] = r], b, r)
<1>1. bank \in [Banks -> RecordBank]
  BY DEF StoreTypes
<1>2. QED
  BY <1>1 DEF BankSet

LEMMA SlotSetIs ==
  ASSUME StoreTypes, NEW b \in Banks, NEW n \in Slots, NEW s \in Contents
  PROVE  SlotSet([bank EXCEPT ![b][n] = s], b, n, s)
<1> DEFINE r == [bank[b] EXCEPT ![n] = s]
           C == [bank EXCEPT ![b][n] = s]
           D == [bank EXCEPT ![b] = r]
<1>1. bank[b] \in RecordBank
  BY FlashTypes
<1>2. r \in RecordBank /\ \A i \in Slots : r[i] = IF i = n THEN s ELSE bank[b][i]
  BY <1>1 DEF RecordBank
<1>3. C = D
  OBVIOUS
<1> HIDE DEF r
<1>4. BankSet(D, b, r)
  BY <1>2, BankSetIs
<1> HIDE DEF C, D
<1>5. SlotSet(C, b, n, s)
  BY <1>2, <1>3, <1>4 DEF BankSet, SlotSet
<1>6. QED
  BY <1>5 DEF C

(* The Flash after the step a Save is at.                                    *)
LEMMA SteppedIs ==
  ASSUME StoreTypes
  PROVE  /\ job.at \in {"clear", "retire"} =>
              BankSet(Stepped, job.b, Cleared(bank[job.b], job.sector))
         /\ job.at = "body" => SlotSet(Stepped, job.b, job.slot, Torn)
         /\ job.at = "commit" =>
              SlotSet(Stepped, job.b, job.slot, [seq |-> store.next, val |-> job.val])
         /\ job.at = "verify" => Stepped = bank
<1>1. ASSUME job.at \in {"clear", "retire"}
      PROVE  BankSet(Stepped, job.b, Cleared(bank[job.b], job.sector))
  <2>1. job.b \in Banks /\ job.sector \in Sectors
    BY <1>1, JobIs, NoJob
  <2>2. Cleared(bank[job.b], job.sector) \in RecordBank
    BY <2>1, FlashTypes, ClearedIs
  <2>3. Stepped = [bank EXCEPT ![job.b] = Cleared(bank[job.b], job.sector)]
    BY <1>1 DEF Stepped
  <2>4. QED
    BY <2>1, <2>2, <2>3, BankSetIs
<1>2. ASSUME job.at \in {"body", "commit"}
      PROVE  job.b \in Banks /\ job.slot \in Slots /\ job.val \in Value
  BY <1>2, JobIs, NoJob
<1>3. ASSUME job.at = "body"
      PROVE  SlotSet(Stepped, job.b, job.slot, Torn)
  <2>1. Stepped = [bank EXCEPT ![job.b][job.slot] = Torn]
    BY <1>3 DEF Stepped
  <2>2. QED
    BY <1>2, <1>3, <2>1, SlotSetIs, MarksAre
<1>4. ASSUME job.at = "commit"
      PROVE  SlotSet(Stepped, job.b, job.slot, [seq |-> store.next, val |-> job.val])
  <2> DEFINE n == [seq |-> store.next, val |-> job.val]
  <2>1. Stepped = [bank EXCEPT ![job.b][job.slot] = n]
    BY <1>4 DEF Stepped
  <2>2. n \in Contents
    BY <1>2, <1>4, RamTypes DEF Record, Contents
  <2> HIDE DEF n
  <2>3. SlotSet(Stepped, job.b, job.slot, n)
    BY <1>2, <1>4, <2>1, <2>2, SlotSetIs
  <2>4. QED
    BY <2>3 DEF n
<1>5. job.at = "verify" => Stepped = bank
  BY DEF Stepped
<1>6. QED
  BY <1>1, <1>3, <1>4, <1>5

(* Of a Save before its commit word: the Flash after the body was written,   *)
(* or some of it.                                                            *)
LEMMA BodyWrites ==
  ASSUME StoreTypes, job.at = "body", NEW live \in Banks, NEW k \in 0 .. BankSlots,
         NEW top \in SeqNum, Holds(live, k, top), NEW s, s \notin Record,
         NEW C, SlotSet(C, job.b, job.slot, s)
  PROVE  /\ Flash(C, live, k, top, decayed) /\ Kept(C, live, k, promise, attempt)
         /\ Idle(C, store, live, k, top, promise)
         /\ s = Torn => Writing(C, store, AfterBody(job), live, k)
         /\ job.b = Other(store.active) => store.prepared = 0
<1>1. job # NoSave /\ job \in WriteJob /\ job.slot \in Slots
  BY JobIs, NoJob
<1>2. /\ Flash(bank, live, k, top, decayed) /\ Kept(bank, live, k, promise, attempt)
      /\ Saving(bank, store, job, live, k, top, promise, mode)
  BY <1>1 DEF Holds
<1>3. Writing(bank, store, job, live, k) /\ Idle(bank, store, live, k, top, promise)
  BY <1>2 DEF Saving, Clearing, Verifying, Retiring
<1>4. Other(live) \in Banks /\ Other(live) # live /\ store.active = live
  BY <1>3, OtherIs DEF Idle
<1>5. /\ AfterBody(job).at = "commit" /\ AfterBody(job).b = job.b
      /\ AfterBody(job).slot = job.slot /\ AfterBody(job).switch = job.switch
  BY <1>1, JobAdvances DEF AfterBody
<1>6. CASE job.switch
  <2>1. /\ store.prepared = 0 /\ job.b = Other(live) /\ job.slot = 1
        /\ EmptyBut(bank[Other(live)], Erased)
    BY <1>3, <1>6 DEF Writing
  <2>2. C[live] = bank[live] /\ EmptyBut(C[Other(live)], s)
    BY <1>4, <2>1 DEF SlotSet, EmptyBut
  <2>3. \A i \in Slots : C[Other(live)][i] \notin Record
    BY <2>2, MarksAre DEF EmptyBut
  <2>4. Flash(C, live, k, top, decayed)
    BY <1>2, <2>2, <2>3, OtherChanged
  <2>5. Kept(C, live, k, promise, attempt) /\ Idle(C, store, live, k, top, promise)
    BY <1>2, <1>3, <2>2 DEF Kept, Idle
  <2>6. s = Torn => Writing(C, store, AfterBody(job), live, k)
    BY <1>5, <1>6, <2>1, <2>2 DEF Writing
  <2>7. QED
    BY <2>1, <2>4, <2>5, <2>6
<1>7. CASE ~job.switch
  <2>1. job.b = live /\ job.slot = k + 1
    BY <1>3, <1>7 DEF Writing
  <2>2. /\ \A i \in Slots : C[live][i] = IF i = k + 1 THEN s ELSE bank[live][i]
        /\ C[Other(live)] = bank[Other(live)]
    BY <1>4, <2>1 DEF SlotSet
  <2>3. Flash(C, live, k, top, decayed)
    BY <1>2, <2>2, JunkWritten
  <2>4. k > 0 => C[live][k] = bank[live][k]
    <3>1. k > 0 => k \in Slots /\ k # k + 1
      BY StoreSizes DEF Slots
    <3>2. QED
      BY <2>2, <3>1
  <2>5. Kept(C, live, k, promise, attempt) /\ Idle(C, store, live, k, top, promise)
    BY <1>2, <1>3, <2>4 DEF Kept, Idle, Answer
  <2>6. s = Torn => Writing(C, store, AfterBody(job), live, k)
    <3>1. C[live][k + 1] = s
      BY <1>1, <2>1, <2>2
    <3>2. QED
      BY <1>5, <1>7, <2>1, <3>1 DEF Writing
  <2>7. QED
    BY <1>4, <2>1, <2>3, <2>5, <2>6
<1>8. QED
  BY <1>6, <1>7

(* The commit word makes the record the newest one.                          *)
Committed(C, live, k, top) ==
  /\ Flash(C, live, k, top, decayed) /\ Answer(C[live], k, job.val) /\ k > 0
  /\ top = NextSeq(store.next)
  /\ job.b = live /\ job.slot = k
  /\ store.active = IF job.switch THEN Other(live) ELSE live
  /\ job.switch => k = 1 /\ store.prepared = 0

LEMMA CommitWrites ==
  ASSUME WideEnough, StoreTypes, job.at = "commit", NEW live \in Banks,
         NEW k \in 0 .. BankSlots, NEW top \in SeqNum, Holds(live, k, top),
         NEW C, SlotSet(C, job.b, job.slot, [seq |-> store.next, val |-> job.val])
  PROVE  \E l \in Banks, m \in 0 .. BankSlots, t \in SeqNum : Committed(C, l, m, t)
<1>1. job # NoSave /\ job \in WriteJob /\ job.slot \in Slots /\ job.val \in Value
  BY JobIs, NoJob
<1>2. /\ Flash(bank, live, k, top, decayed)
      /\ Saving(bank, store, job, live, k, top, promise, mode)
  BY <1>1 DEF Holds
<1>3. Writing(bank, store, job, live, k) /\ Idle(bank, store, live, k, top, promise)
  BY <1>2 DEF Saving, Clearing, Verifying, Retiring
<1>4. Other(live) \in Banks /\ Other(live) # live /\ Other(Other(live)) = live
      /\ store.active = live /\ store.next = top
  BY <1>3, OtherIs DEF Idle
<1> DEFINE v == job.val
           n == [seq |-> top, val |-> v]
<1>5. SlotSet(C, job.b, job.slot, n)
  BY <1>4
<1>6. NextSeq(top) \in SeqNum /\ n.val = job.val
  BY NextSeqIs
<1>7. CASE job.switch
  <2>1. /\ store.prepared = 0 /\ job.b = Other(live) /\ job.slot = 1
        /\ EmptyBut(bank[Other(live)], Torn)
    BY <1>3, <1>7 DEF Writing
  <2> HIDE DEF n
  <2>2. /\ \A i \in Slots : C[Other(live)][i] = IF i = 1 THEN n ELSE bank[Other(live)][i]
        /\ C[live] = bank[live]
    BY <1>4, <1>5, <2>1 DEF SlotSet
  <2>3. Flash(C, Other(live), 1, NextSeq(top), decayed) /\ C[Other(live)][1] = n
    BY <1>1, <1>2, <2>1, <2>2, BankSwitched DEF n
  <2>4. Answer(C[Other(live)], 1, job.val)
    BY <1>6, <2>3 DEF Answer
  <2>5. Committed(C, Other(live), 1, NextSeq(top))
    BY <1>4, <1>7, <2>1, <2>3, <2>4 DEF Committed
  <2>6. 1 \in 0 .. BankSlots
    BY StoreSizes
  <2>7. QED
    BY <1>4, <1>6, <2>5, <2>6
<1>8. CASE ~job.switch
  <2>1. job.b = live /\ job.slot = k + 1
    BY <1>3, <1>8 DEF Writing
  <2>2. k \in 0 .. BankSlots - 1 /\ k + 1 \in 0 .. BankSlots /\ k + 1 > 0
    BY <1>1, <2>1, StoreSizes DEF Slots
  <2> HIDE DEF n
  <2>3. /\ \A i \in Slots : C[live][i] = IF i = k + 1 THEN n ELSE bank[live][i]
        /\ C[Other(live)] = bank[Other(live)]
    BY <1>4, <1>5, <2>1 DEF SlotSet
  <2>4. Flash(C, live, k + 1, NextSeq(top), decayed) /\ C[live][k + 1] = n
    BY <1>1, <1>2, <2>2, <2>3, RecordWritten DEF n
  <2>5. Answer(C[live], k + 1, job.val)
    BY <1>6, <2>4 DEF Answer
  <2>6. Committed(C, live, k + 1, NextSeq(top))
    BY <1>4, <1>8, <2>1, <2>2, <2>4, <2>5 DEF Committed
  <2>7. QED
    BY <1>6, <2>2, <2>6
<1>9. QED
  BY <1>7, <1>8

(* A bank is erased that does not have the newest record.                    *)
LEMMA BankErased ==
  ASSUME StoreTypes, job.at \in {"clear", "retire"}, NEW live \in Banks,
         NEW k \in 0 .. BankSlots, NEW top \in SeqNum, Holds(live, k, top),
         NEW r, \A i \in Slots : r[i] \in Record => r[i] = bank[job.b][i],
         NEW C, BankSet(C, job.b, r)
  PROVE  /\ Flash(C, live, k, top, decayed) /\ Kept(C, live, k, promise, attempt)
         /\ C[live] = bank[live] /\ job.b = Other(live) /\ store.prepared = 0
<1>1. job # NoSave
  BY JobIs
<1>2. /\ Flash(bank, live, k, top, decayed) /\ Kept(bank, live, k, promise, attempt)
      /\ Saving(bank, store, job, live, k, top, promise, mode)
  BY <1>1 DEF Holds
<1>3. job.b = Other(live) /\ store.prepared = 0
  BY <1>2 DEF Saving, Clearing, Writing, Verifying, Retiring
<1>4. Other(live) \in Banks /\ Other(live) # live
  BY OtherIs
<1>5. C[live] = bank[live] /\ C[Other(live)] = r
  BY <1>3, <1>4 DEF BankSet
<1>6. Flash(C, live, k, top, decayed)
  BY <1>2, <1>3, <1>5, OtherChanged
<1>7. QED
  BY <1>2, <1>3, <1>5, <1>6 DEF Kept

-----------------------------------------------------------------------------
(* The steps of a Save                                                       *)

SaveRuns == bank' = Stepped /\ mode' = mode /\ decayed' = decayed

LEMMA SaveRunsIs ==
  ASSUME StoreInv, SaveRuns
  PROVE  StoreTypes /\ PreparedIsBlank /\ (Kind' <=> Kind)
BY DEF StoreInv, SaveRuns, Kind, Strict

LEMMA NothingPrepared ==
  ASSUME StoreTypes, ~Kind
  PROVE  store.prepared = 0
BY DEF StoreTypes, Kind, Strict

LEMMA NotBlank == ASSUME store'.prepared = 0 PROVE PreparedIsBlank'
BY DEF PreparedIsBlank

LEMMA ClearStepHolds == ASSUME StoreInv, SaveRuns, ClearStep PROVE StoreInv'
<1> DEFINE n == job.sector + 1
           r == Cleared(bank[job.b], job.sector)
<1>1. /\ job.at = "clear" /\ job' = ClearFrom(job.b, n, job.val) /\ store' = store
      /\ promise' = promise /\ attempt' = attempt
      /\ StoreTypes /\ PreparedIsBlank /\ (Kind' <=> Kind)
      /\ bank' = Stepped /\ mode' = mode /\ decayed' = decayed
  BY SaveRunsIs DEF ClearStep, SaveGoesOn, SaveRuns
<1>2. job # NoSave /\ job.b \in Banks /\ job.sector \in Sectors /\ job.val \in Value
  BY <1>1, JobIs, NoJob
<1>3. n \in 1 .. 3 /\ bank[job.b] \in RecordBank
  BY <1>1, <1>2, FlashTypes DEF Sectors
<1>4. BankSet(bank', job.b, r)
  BY <1>1, SteppedIs
<1>5. ClearJob(job', job.b, n, job.val)
  BY <1>1, <1>2, <1>3, ClearFromIs
<1>6. StoreTypes'
  BY <1>1, <1>4, <1>5 DEF StoreTypes, BankSet, ClearJob
<1>7. \A i \in Slots : r[i] \in Record => r[i] = bank[job.b][i]
  BY <1>2, <1>3, ClearedIs
<1> HIDE DEF r
<1>8. CASE Kind
  <2>1. PICK live \in Banks, k \in 0 .. BankSlots, top \in SeqNum : Holds(live, k, top)
    BY <1>8 DEF StoreInv, StoreHolds
  <2>2. /\ Flash(bank', live, k, top, decayed) /\ Kept(bank', live, k, promise, attempt)
        /\ bank'[live] = bank[live] /\ job.b = Other(live) /\ store.prepared = 0
    BY <1>1, <1>4, <1>7, <2>1, BankErased
  <2>3. /\ Saving(bank, store, job, live, k, top, promise, mode) /\ attempt = job.val
    BY <1>2, <2>1 DEF Holds
  <2>4. /\ store.usable /\ Clearing(bank, store, job, live)
        /\ Idle(bank, store, live, k, top, promise)
    BY <1>1, <2>3 DEF Saving, Writing, Verifying, Retiring
  <2>5. \A sector \in 1 .. n - 1 : Blank(bank'[Other(live)], sector)
    <3>1. bank'[Other(live)] = r
      BY <1>4, <2>2 DEF BankSet
    <3>2. Blank(r, job.sector) /\ (job.sector = 2 /\ Blank(bank[job.b], 1) => Blank(r, 1))
      BY <1>2, <1>3, ClearedIs DEF r
    <3>3. job.sector = 2 => Blank(bank[job.b], 1)
      <4>1. job.sector = 2 => 1 \in 1 .. job.sector - 1
        OBVIOUS
      <4>2. QED
        BY <2>4, <4>1 DEF Clearing
    <3>4. \A sector \in 1 .. n - 1 : sector = job.sector \/ (job.sector = 2 /\ sector = 1)
      BY <1>2 DEF Sectors
    <3> HIDE DEF n
    <3>5. QED
      BY <3>1, <3>2, <3>3, <3>4
  <2>6. Clearing(bank', store', job', live) \/ Writing(bank', store', job', live, k)
    <3>1. bank'[Other(live)] \in RecordBank
      BY <1>4, OtherIs DEF BankSet
    <3> HIDE DEF n
    <3>2. QED
      BY <1>1, <1>2, <1>3, <2>2, <2>5, <3>1, ClearingGoesOn
  <2>7. Idle(bank', store', live, k, top, promise')
    BY <1>1, <2>2, <2>4 DEF Idle
  <2>8. Saving(bank', store', job', live, k, top, promise', mode')
    BY <1>1, <2>4, <2>6, <2>7 DEF Saving
  <2>9. Holds(live, k, top)'
    BY <1>1, <1>5, <2>2, <2>3, <2>8 DEF Holds, ClearJob
  <2>10. StoreHolds'
    BY <2>9 DEF StoreHolds
  <2>11. QED
    BY <1>1, <1>6, <2>2, <2>10, NotBlank DEF StoreInv
<1>9. CASE ~Kind
  BY <1>1, <1>6, <1>9, NothingPrepared, NotBlank DEF StoreInv
<1>10. QED
  BY <1>8, <1>9

LEMMA BodyStepHolds == ASSUME StoreInv, SaveRuns, BodyStep PROVE StoreInv'
<1>1. /\ job.at = "body" /\ job' = AfterBody(job) /\ store' = store
      /\ promise' = promise /\ attempt' = attempt
      /\ StoreTypes /\ PreparedIsBlank /\ (Kind' <=> Kind)
      /\ bank' = Stepped /\ mode' = mode /\ decayed' = decayed
  BY SaveRunsIs DEF BodyStep, SaveGoesOn, SaveRuns
<1>2. job # NoSave /\ job \in WriteJob /\ job.b \in Banks
  BY <1>1, JobIs, NoJob
<1>3. job' \in WriteJob /\ job' # NoSave /\ job'.val = job.val
  BY <1>1, <1>2, JobAdvances, NoJob DEF AfterBody
<1>4. SlotSet(bank', job.b, job.slot, Torn)
  BY <1>1, SteppedIs
<1>5. StoreTypes'
  BY <1>1, <1>3, <1>4 DEF StoreTypes, SlotSet
<1>6. CASE Kind
  <2>1. PICK live \in Banks, k \in 0 .. BankSlots, top \in SeqNum : Holds(live, k, top)
    BY <1>6 DEF StoreInv, StoreHolds
  <2>2. /\ Flash(bank', live, k, top, decayed) /\ Kept(bank', live, k, promise, attempt)
        /\ Idle(bank', store, live, k, top, promise)
        /\ Writing(bank', store, job', live, k)
        /\ job.b = Other(store.active) => store.prepared = 0
    BY <1>1, <1>4, <2>1, BodyWrites, MarksAre
  <2>3. store.usable /\ attempt = job.val
    BY <1>2, <2>1 DEF Holds, Saving
  <2>4. Saving(bank', store', job', live, k, top, promise', mode')
    BY <1>1, <2>2, <2>3 DEF Saving
  <2>5. Holds(live, k, top)'
    BY <1>1, <1>3, <2>2, <2>3, <2>4 DEF Holds
  <2>6. PreparedIsBlank'
    <3>1. CASE store.prepared = 0
      BY <1>1, <3>1, NotBlank
    <3>2. CASE store.prepared # 0
      <4>1. bank'[Other(store.active)] = bank[Other(store.active)]
        BY <1>1, <1>4, <2>2, <3>2, RamTypes, OtherIs DEF SlotSet
      <4>2. QED
        BY <1>1, <4>1 DEF PreparedIsBlank
    <3>3. QED
      BY <3>1, <3>2
  <2>7. QED
    BY <1>5, <2>5, <2>6 DEF StoreInv, StoreHolds
<1>7. CASE ~Kind
  BY <1>1, <1>5, <1>7, NothingPrepared, NotBlank DEF StoreInv
<1>8. QED
  BY <1>6, <1>7

LEMMA SaveEndsTypes ==
  ASSUME StoreTypes, job.val \in Value, NEW switched \in BOOLEAN, NEW prepared \in 0 .. 2,
         SaveEnds(switched, prepared), prepared # 0 => mode = "prepared",
         bank' \in [Banks -> RecordBank], mode' = mode, decayed' = decayed
  PROVE  /\ StoreTypes'
         /\ store'.next = NextSeq(store.next) /\ store'.have = TRUE /\ store'.usable = store.usable
         /\ store'.prepared = prepared
         /\ store'.active = IF switched THEN Other(store.active) ELSE store.active
         /\ job' = NoSave /\ promise' = job.val /\ attempt' = NoValue
<1> DEFINE u == NextSeq(store.next)
           a == IF switched THEN Other(store.active) ELSE store.active
<1>1. store \in StoreRam
  BY DEF StoreTypes
<1>2. u \in SeqNum /\ a \in Banks
  BY RamTypes, NextSeqIs, OtherIs
<1>3. /\ store' = [store EXCEPT !.next = u, !.have = TRUE, !.prepared = prepared, !.active = a]
      /\ job' = NoSave /\ promise' = job.val /\ attempt' = NoValue
  BY DEF SaveEnds
<1> HIDE DEF u, a
<1>4. /\ store' \in StoreRam
      /\ store'.next = u /\ store'.have = TRUE /\ store'.usable = store.usable
      /\ store'.prepared = prepared /\ store'.active = a
  BY <1>1, <1>2, <1>3 DEF StoreRam
<1>5. StoreTypes'
  BY <1>3, <1>4 DEF StoreTypes
<1>6. QED
  BY <1>3, <1>4, <1>5 DEF u, a

(* The owner is told OK and the newest record is the one that was stored.    *)
LEMMA SaveEndsHolds ==
  ASSUME NEW live \in Banks, NEW k \in 0 .. BankSlots, NEW top \in SeqNum,
         Flash(bank', live, k, top, decayed'), Answer(bank'[live], k, job.val), k > 0,
         job' = NoSave, promise' = job.val, attempt' = NoValue,
         store'.active = live, store'.next = top, store'.have = TRUE
  PROVE  StoreHolds'
<1>1. Kept(bank', live, k, promise', attempt')
  BY DEF Kept
<1>2. Idle(bank', store', live, k, top, promise')
  BY DEF Idle
<1>3. Holds(live, k, top)'
  BY <1>1, <1>2 DEF Holds
<1>4. QED
  BY <1>3 DEF StoreHolds

(* After the commit word, and what it wrote if it is verified.               *)
GoesOnOrEnds ==
  IF job.switch THEN SaveGoesOn(Retire(Other(job.b), job.val))
  ELSE SaveEnds(FALSE, store.prepared)

LEMMA GoesOnTypes ==
  ASSUME StoreTypes, job \in WriteJob, GoesOnOrEnds, bank' \in [Banks -> RecordBank],
         mode' = mode, decayed' = decayed
  PROVE  /\ StoreTypes' /\ store'.prepared = store.prepared /\ store'.active = store.active
         /\ store'.usable = store.usable
<1>1. job.b \in Banks /\ job.val \in Value /\ Other(job.b) \in Banks /\ job.switch \in BOOLEAN
  BY NoJob, OtherIs
<1>2. CASE job.switch
  <2>1. job' = Retire(Other(job.b), job.val) /\ store' = store
        /\ promise' = promise /\ attempt' = attempt
    BY <1>2 DEF GoesOnOrEnds, SaveGoesOn
  <2>2. job' \in EraseJob
    BY <1>1, <2>1, JobAdvances
  <2>3. QED
    BY <2>1, <2>2 DEF StoreTypes
<1>3. CASE ~job.switch
  <2>1. SaveEnds(FALSE, store.prepared)
    BY <1>3 DEF GoesOnOrEnds
  <2>2. store.prepared \in 0 .. 2 /\ (store.prepared # 0 => mode = "prepared")
    BY RamTypes DEF StoreTypes
  <2>3. FALSE \in BOOLEAN
    OBVIOUS
  <2>4. QED
    BY <1>1, <2>1, <2>2, <2>3, SaveEndsTypes
<1>4. QED
  BY <1>2, <1>3

LEMMA GoesOnHolds ==
  ASSUME StoreTypes, job \in WriteJob, GoesOnOrEnds, bank' \in [Banks -> RecordBank],
         mode' = mode, decayed' = decayed, store.usable, attempt = job.val,
         NEW live \in Banks, NEW k \in 0 .. BankSlots, NEW top \in SeqNum,
         Committed(bank', live, k, top)
  PROVE  StoreHolds'
<1>1. job.b \in Banks /\ job.val \in Value /\ Other(job.b) \in Banks /\ job.switch \in BOOLEAN
  BY NoJob, OtherIs
<1>2. /\ Flash(bank', live, k, top, decayed') /\ Answer(bank'[live], k, job.val) /\ k > 0
      /\ top = NextSeq(store.next) /\ job.b = live
      /\ store.active = IF job.switch THEN Other(live) ELSE live
      /\ job.switch => k = 1 /\ store.prepared = 0
  BY DEF Committed
<1>3. CASE job.switch
  <2>1. job' = Retire(Other(live), job.val) /\ store' = store
        /\ promise' = promise /\ attempt' = attempt
    BY <1>2, <1>3 DEF GoesOnOrEnds, SaveGoesOn
  <2>2. /\ job' \in EraseJob /\ job'.at = "retire" /\ job'.b = Other(live) /\ job'.sector = 1
        /\ job'.val = job.val /\ job' # NoSave
    BY <1>1, <1>2, <2>1, JobAdvances, NoJob
  <2>3. Kept(bank', live, k, promise', attempt')
    BY <1>1, <1>2, <2>1, MarksAre DEF Kept
  <2>4. Retiring(store', job', live, k, mode')
    BY <1>2, <1>3, <2>1, <2>2 DEF Retiring
  <2>5. Saving(bank', store', job', live, k, top, promise', mode')
    BY <1>2, <2>1, <2>2, <2>4 DEF Saving
  <2>6. Holds(live, k, top)'
    BY <1>2, <2>1, <2>2, <2>3, <2>5 DEF Holds
  <2>7. QED
    BY <2>6 DEF StoreHolds
<1>4. CASE ~job.switch
  <2>1. SaveEnds(FALSE, store.prepared)
    BY <1>4 DEF GoesOnOrEnds
  <2>2. store.prepared \in 0 .. 2 /\ (store.prepared # 0 => mode = "prepared")
    BY RamTypes DEF StoreTypes
  <2>3. FALSE \in BOOLEAN
    OBVIOUS
  <2>4. /\ store'.next = NextSeq(store.next) /\ store'.have = TRUE
        /\ store'.active = store.active
        /\ job' = NoSave /\ promise' = job.val /\ attempt' = NoValue
    BY <1>1, <2>1, <2>2, <2>3, SaveEndsTypes
  <2>5. QED
    BY <1>2, <1>4, <2>4, SaveEndsHolds
<1>5. QED
  BY <1>3, <1>4

LEMMA CommitStepHolds == ASSUME WideEnough, StoreInv, SaveRuns, CommitStep PROVE StoreInv'
<1> DEFINE n == [seq |-> store.next, val |-> job.val]
<1>1. /\ job.at = "commit"
      /\ StoreTypes /\ PreparedIsBlank /\ (Kind' <=> Kind)
      /\ bank' = Stepped /\ mode' = mode /\ decayed' = decayed
  BY SaveRunsIs DEF CommitStep, SaveRuns
<1>2. job # NoSave /\ job \in WriteJob /\ job.b \in Banks
  BY <1>1, JobIs, NoJob
<1>3. SlotSet(bank', job.b, job.slot, n)
  BY <1>1, SteppedIs
<1>4. bank' \in [Banks -> RecordBank]
  BY <1>3 DEF SlotSet
<1>5. \/ /\ mode = "prepared" /\ job' = [job EXCEPT !.at = "verify"] /\ store' = store
         /\ promise' = promise /\ attempt' = attempt
      \/ GoesOnOrEnds
  BY DEF CommitStep, SaveGoesOn, GoesOnOrEnds
<1>6. /\ [job EXCEPT !.at = "verify"] \in WriteJob
      /\ [job EXCEPT !.at = "verify"].at = "verify"
      /\ [job EXCEPT !.at = "verify"].b = job.b /\ [job EXCEPT !.at = "verify"].slot = job.slot
      /\ [job EXCEPT !.at = "verify"].switch = job.switch
      /\ [job EXCEPT !.at = "verify"].val = job.val
  BY <1>2, JobAdvances
<1>7. /\ StoreTypes' /\ store'.prepared = store.prepared /\ store'.active = store.active
      /\ store'.usable = store.usable
  <2>1. CASE GoesOnOrEnds
    BY <1>1, <1>2, <1>4, <2>1, GoesOnTypes
  <2>2. CASE /\ mode = "prepared" /\ job' = [job EXCEPT !.at = "verify"] /\ store' = store
             /\ promise' = promise /\ attempt' = attempt
    BY <1>1, <1>4, <1>6, <2>2 DEF StoreTypes
  <2>3. QED
    BY <1>5, <2>1, <2>2
<1> HIDE DEF n
<1>8. CASE Kind
  <2>1. PICK l \in Banks, m \in 0 .. BankSlots, t \in SeqNum : Holds(l, m, t)
    BY <1>8 DEF StoreInv, StoreHolds
  <2>2. store.usable /\ attempt = job.val
    BY <1>2, <2>1 DEF Holds, Saving
  <2>3. PICK live \in Banks, k \in 0 .. BankSlots, top \in SeqNum : Committed(bank', live, k, top)
    BY <1>1, <1>3, <2>1, CommitWrites DEF n
  <2>4. ASSUME /\ mode = "prepared" /\ job' = [job EXCEPT !.at = "verify"] /\ store' = store
               /\ promise' = promise /\ attempt' = attempt
        PROVE  StoreHolds'
    <3>1. /\ Flash(bank', live, k, top, decayed') /\ Answer(bank'[live], k, job.val) /\ k > 0
          /\ top = NextSeq(store.next)
      BY <1>1, <2>3 DEF Committed
    <3>2. job' # NoSave /\ job'.val = job.val /\ attempt' # NoValue
      BY <1>2, <1>6, <2>2, <2>4, NoJob, MarksAre
    <3>3. Verifying(store', job', live, k, mode')
      BY <1>1, <1>6, <2>3, <2>4 DEF Verifying, Committed
    <3>4. Saving(bank', store', job', live, k, top, promise', mode')
      BY <2>2, <2>4, <3>1, <3>2, <3>3 DEF Saving
    <3>5. Kept(bank', live, k, promise', attempt')
      BY <2>2, <2>4, <3>1, <3>2 DEF Kept
    <3>6. Holds(live, k, top)'
      BY <2>2, <2>4, <3>1, <3>2, <3>4, <3>5 DEF Holds
    <3>7. QED
      BY <3>6 DEF StoreHolds
  <2>5. GoesOnOrEnds => StoreHolds'
    BY <1>1, <1>2, <1>4, <2>2, <2>3, GoesOnHolds
  <2>6. StoreHolds'
    BY <1>5, <2>4, <2>5
  <2>7. PreparedIsBlank'
    <3>1. CASE store.prepared = 0
      BY <1>7, <3>1, NotBlank
    <3>2. CASE store.prepared # 0
      <4>1. job.b = store.active
        BY <2>3, <3>2 DEF Committed
      <4>2. bank'[Other(store.active)] = bank[Other(store.active)]
        BY <1>2, <1>3, <4>1, OtherIs DEF SlotSet
      <4>3. QED
        BY <1>1, <1>7, <4>2 DEF PreparedIsBlank
    <3>3. QED
      BY <3>1, <3>2
  <2>8. QED
    BY <1>7, <2>6, <2>7 DEF StoreInv
<1>9. CASE ~Kind
  BY <1>1, <1>7, <1>9, NothingPrepared, NotBlank DEF StoreInv
<1>10. QED
  BY <1>8, <1>9

LEMMA VerifyStepHolds == ASSUME StoreInv, SaveRuns, VerifyStep PROVE StoreInv'
<1>1. /\ job.at = "verify" /\ GoesOnOrEnds
      /\ StoreTypes /\ PreparedIsBlank /\ (Kind' <=> Kind)
      /\ bank' = Stepped /\ mode' = mode /\ decayed' = decayed
  BY SaveRunsIs DEF VerifyStep, GoesOnOrEnds, SaveRuns
<1>2. job # NoSave /\ job \in WriteJob
  BY <1>1, JobIs, NoJob
<1>3. bank' = bank /\ bank' \in [Banks -> RecordBank]
  BY <1>1, SteppedIs DEF StoreTypes
<1>4. /\ StoreTypes' /\ store'.prepared = store.prepared /\ store'.active = store.active
      /\ store'.usable = store.usable
  BY <1>1, <1>2, <1>3, GoesOnTypes
<1>5. PreparedIsBlank'
  BY <1>1, <1>3, <1>4 DEF PreparedIsBlank
<1>6. ASSUME Kind
      PROVE  StoreHolds'
  <2>1. PICK live \in Banks, k \in 0 .. BankSlots, top \in SeqNum : Holds(live, k, top)
    BY <1>6 DEF StoreInv, StoreHolds
  <2>2. /\ Flash(bank, live, k, top, decayed) /\ attempt = job.val
        /\ Saving(bank, store, job, live, k, top, promise, mode)
    BY <1>2, <2>1 DEF Holds
  <2>3. /\ store.usable /\ Verifying(store, job, live, k, mode)
        /\ k > 0 /\ top = NextSeq(store.next) /\ Answer(bank[live], k, job.val)
    BY <1>1, <2>2 DEF Saving, Clearing, Writing, Retiring
  <2>4. Committed(bank', live, k, top)
    BY <1>3, <2>2, <2>3 DEF Committed, Verifying
  <2>5. QED
    BY <1>1, <1>2, <1>3, <2>2, <2>3, <2>4, GoesOnHolds
<1>7. QED
  BY <1>1, <1>4, <1>5, <1>6 DEF StoreInv

LEMMA RetireStepHolds == ASSUME StoreInv, SaveRuns, RetireStep PROVE StoreInv'
<1> DEFINE r == Cleared(bank[job.b], job.sector)
<1>1. /\ job.at = "retire"
      /\ StoreTypes /\ PreparedIsBlank /\ (Kind' <=> Kind)
      /\ bank' = Stepped /\ mode' = mode /\ decayed' = decayed
  BY SaveRunsIs DEF RetireStep, SaveRuns
<1>2. /\ job # NoSave /\ job \in EraseJob /\ job.b \in Banks /\ job.sector \in Sectors
      /\ job.val \in Value
  BY <1>1, JobIs, NoJob
<1>3. bank[job.b] \in RecordBank
  BY <1>1, <1>2, FlashTypes
<1>4. BankSet(bank', job.b, r) /\ bank' \in [Banks -> RecordBank]
  BY <1>1, SteppedIs DEF BankSet
<1>5. \A i \in Slots : r[i] \in Record => r[i] = bank[job.b][i]
  BY <1>2, <1>3, ClearedIs
<1>6. Blank(r, job.sector)
  BY <1>2, <1>3, ClearedIs
<1> HIDE DEF r
<1> DEFINE p == IF mode = "prepared" THEN 1 ELSE store.prepared
<1>7. p \in 0 .. 2 /\ (p # 0 => mode = "prepared")
  BY <1>1, RamTypes DEF StoreTypes
<1>8. \/ SaveEnds(TRUE, p)
      \/ /\ mode # "prepared" /\ job.sector + 1 \in Sectors
         /\ job' = [job EXCEPT !.sector = job.sector + 1] /\ store' = store
         /\ promise' = promise /\ attempt' = attempt
  BY DEF RetireStep, SaveGoesOn
<1> HIDE DEF p
<1>9. CASE Kind
  <2>1. PICK live \in Banks, k \in 0 .. BankSlots, top \in SeqNum : Holds(live, k, top)
    BY <1>9 DEF StoreInv, StoreHolds
  <2>2. /\ Flash(bank', live, k, top, decayed) /\ Kept(bank', live, k, promise, attempt)
        /\ bank'[live] = bank[live] /\ job.b = Other(live) /\ store.prepared = 0
    BY <1>1, <1>4, <1>5, <2>1, BankErased
  <2>3. attempt = job.val /\ Saving(bank, store, job, live, k, top, promise, mode)
    BY <1>2, <2>1 DEF Holds
  <2>4. /\ store.usable /\ Retiring(store, job, live, k, mode)
        /\ k > 0 /\ top = NextSeq(store.next) /\ Answer(bank[live], k, job.val)
    BY <1>1, <2>3 DEF Saving, Clearing, Writing, Verifying
  <2>5. store.active = Other(live) /\ Other(store.active) = live
    BY <2>2, <2>4, OtherIs DEF Retiring
  <2>6. ASSUME SaveEnds(TRUE, p)
        PROVE  StoreInv'
    <3>1. TRUE \in BOOLEAN
      OBVIOUS
    <3>2. /\ StoreTypes'
          /\ store'.next = NextSeq(store.next) /\ store'.have = TRUE
          /\ store'.prepared = p /\ store'.active = live
          /\ job' = NoSave /\ promise' = job.val /\ attempt' = NoValue
      BY <1>1, <1>2, <1>4, <1>7, <2>5, <2>6, <3>1, SaveEndsTypes
    <3>3. StoreHolds'
      BY <1>1, <2>2, <2>4, <3>2, SaveEndsHolds
    <3>4. PreparedIsBlank'
      <4>1. CASE p = 0
        BY <3>2, <4>1, NotBlank
      <4>2. CASE p # 0
        <5>1. p = 1 /\ mode = "prepared" /\ job.sector = 1
          BY <1>7, <2>2, <2>4, <4>2 DEF p, Retiring
        <5>2. Blank(bank'[Other(live)], 1)
          BY <1>4, <1>6, <2>2, <5>1 DEF BankSet
        <5>3. \A sector \in 1 .. p : sector = 1
          BY <5>1
        <5>4. QED
          BY <3>2, <5>2, <5>3 DEF PreparedIsBlank
      <4>3. QED
        BY <4>1, <4>2
    <3>5. QED
      BY <3>2, <3>3, <3>4 DEF StoreInv
  <2>7. ASSUME /\ mode # "prepared" /\ job.sector + 1 \in Sectors
               /\ job' = [job EXCEPT !.sector = job.sector + 1] /\ store' = store
               /\ promise' = promise /\ attempt' = attempt
        PROVE  StoreInv'
    <3> DEFINE m == job.sector + 1
    <3>1. job' = [job EXCEPT !.sector = m] /\ m \in Sectors
      BY <2>7
    <3> HIDE DEF m
    <3>2. /\ job' \in EraseJob /\ job' # NoSave /\ job'.at = "retire" /\ job'.b = job.b
          /\ job'.val = job.val
      BY <1>1, <1>2, <3>1, JobAdvances, NoJob
    <3>3. StoreTypes'
      BY <1>1, <1>4, <2>7, <3>2 DEF StoreTypes
    <3>4. Retiring(store', job', live, k, mode')
      BY <1>1, <2>4, <2>7, <3>2 DEF Retiring
    <3>5. Saving(bank', store', job', live, k, top, promise', mode')
      BY <2>2, <2>4, <2>7, <3>2, <3>4 DEF Saving
    <3>6. Holds(live, k, top)'
      BY <1>1, <2>2, <2>3, <2>7, <3>2, <3>5 DEF Holds
    <3>7. QED
      BY <2>2, <2>7, <3>3, <3>6, NotBlank DEF StoreInv, StoreHolds
  <2>8. QED
    BY <1>8, <2>6, <2>7
<1>10. CASE ~Kind
  <2>1. mode # "prepared" /\ store.prepared = 0
    BY <1>1, <1>10, NothingPrepared DEF Kind, Strict
  <2>2. ASSUME SaveEnds(TRUE, p)
        PROVE  StoreTypes' /\ store'.prepared = 0
    <3>1. TRUE \in BOOLEAN /\ p = 0
      BY <2>1 DEF p
    <3>2. QED
      BY <1>1, <1>2, <1>4, <1>7, <2>2, <3>1, SaveEndsTypes
  <2>3. ASSUME /\ mode # "prepared" /\ job.sector + 1 \in Sectors
               /\ job' = [job EXCEPT !.sector = job.sector + 1] /\ store' = store
               /\ promise' = promise /\ attempt' = attempt
        PROVE  StoreTypes' /\ store'.prepared = 0
    <3> DEFINE m == job.sector + 1
    <3>1. job' = [job EXCEPT !.sector = m] /\ m \in Sectors
      BY <2>3
    <3> HIDE DEF m
    <3>2. job' \in EraseJob
      BY <1>2, <3>1, JobAdvances
    <3>3. QED
      BY <1>1, <1>4, <2>1, <2>3, <3>2 DEF StoreTypes
  <2>4. QED
    BY <1>1, <1>8, <1>10, <2>2, <2>3, NotBlank DEF StoreInv
<1>11. QED
  BY <1>9, <1>10

LEMMA SaveStepHolds == ASSUME WideEnough, StoreInv, SaveStep PROVE StoreInv'
<1>1. SaveRuns
  BY DEF SaveStep, SaveRuns
<1>2. ClearStep \/ BodyStep \/ CommitStep \/ VerifyStep \/ RetireStep
  BY DEF SaveStep
<1>3. QED
  BY <1>1, <1>2, ClearStepHolds, BodyStepHolds, CommitStepHolds, VerifyStepHolds, RetireStepHolds

-----------------------------------------------------------------------------
(* Failures                                                                  *)

LEMMA HalfwayIs ==
  ASSUME StoreTypes, NEW C \in Halfway, job # NoSave
  PROVE  /\ C \in [Banks -> RecordBank]
         /\ job.at \in {"clear", "retire"} =>
              \E r : /\ \A i \in Slots : r[i] \in Record => r[i] = bank[job.b][i]
                     /\ BankSet(C, job.b, r)
         /\ job.at = "body" => \E s : s \notin Record /\ SlotSet(C, job.b, job.slot, s)
         /\ job.at \in {"commit", "verify"} => C = bank \/ C = Stepped
<1>1. job.at \in {"clear", "retire", "body", "commit", "verify"}
  BY JobIs
<1>2. ASSUME job.at \in {"clear", "retire"}
      PROVE  /\ C \in [Banks -> RecordBank]
             /\ \E r : /\ \A i \in Slots : r[i] \in Record => r[i] = bank[job.b][i]
                       /\ BankSet(C, job.b, r)
  <2>1. PICK r \in HalfCleared(bank[job.b], job.sector) : C = [bank EXCEPT ![job.b] = r]
    BY <1>2 DEF Halfway
  <2>2. job.b \in Banks /\ bank[job.b] \in RecordBank
    BY <1>2, JobIs, NoJob, FlashTypes
  <2>3. r \in RecordBank /\ \A i \in Slots : r[i] \in Record => r[i] = bank[job.b][i]
    BY <2>2, HalfClearedIs
  <2>4. BankSet(C, job.b, r)
    BY <2>1, <2>2, <2>3, BankSetIs
  <2>5. QED
    BY <2>3, <2>4 DEF BankSet
<1>3. ASSUME job.at = "body"
      PROVE  /\ C \in [Banks -> RecordBank]
             /\ \E s : s \notin Record /\ SlotSet(C, job.b, job.slot, s)
  <2>1. PICK s \in {Erased, Hole, Garbled, Torn} : C = [bank EXCEPT ![job.b][job.slot] = s]
    BY <1>3 DEF Halfway
  <2>2. job.b \in Banks /\ job.slot \in Slots
    BY <1>3, JobIs, NoJob
  <2>3. s \in Contents /\ s \notin Record
    BY <2>1, MarksAre
  <2>4. SlotSet(C, job.b, job.slot, s)
    BY <2>1, <2>2, <2>3, SlotSetIs
  <2>5. QED
    BY <2>3, <2>4 DEF SlotSet
<1>4. ASSUME job.at \in {"commit", "verify"}
      PROVE  C \in [Banks -> RecordBank] /\ (C = bank \/ C = Stepped)
  <2>1. C = bank \/ C = Stepped
    BY <1>4 DEF Halfway
  <2>2. bank \in [Banks -> RecordBank]
    BY DEF StoreTypes
  <2>3. Stepped \in [Banks -> RecordBank]
    BY <1>4, <2>2, SteppedIs DEF SlotSet
  <2>4. QED
    BY <2>1, <2>2, <2>3
<1>5. QED
  BY <1>1, <1>2, <1>3, <1>4

(* However far a step came that was cut short, the newest record is the one  *)
(* it was or the one that was being stored.                                  *)
LEMMA HalfwayHolds ==
  ASSUME WideEnough, StoreInv, Kind, job # NoSave, NEW C \in Halfway
  PROVE  \E live \in Banks, k \in 0 .. BankSlots, top \in SeqNum :
            Flash(C, live, k, top, decayed) /\ Kept(C, live, k, promise, attempt)
<1>1. StoreTypes /\ job.at \in {"clear", "retire", "body", "commit", "verify"}
  BY JobIs DEF StoreInv
<1>2. PICK live \in Banks, k \in 0 .. BankSlots, top \in SeqNum : Holds(live, k, top)
  BY DEF StoreInv, StoreHolds
<1>3. Flash(bank, live, k, top, decayed) /\ Kept(bank, live, k, promise, attempt)
      /\ attempt = job.val
  BY <1>2 DEF Holds
<1>4. CASE job.at \in {"clear", "retire"}
  <2>1. PICK r : /\ \A i \in Slots : r[i] \in Record => r[i] = bank[job.b][i]
                 /\ BankSet(C, job.b, r)
    BY <1>1, <1>4, HalfwayIs
  <2>2. QED
    BY <1>1, <1>2, <1>4, <2>1, BankErased
<1>5. CASE job.at = "body"
  <2>1. PICK s : s \notin Record /\ SlotSet(C, job.b, job.slot, s)
    BY <1>1, <1>5, HalfwayIs
  <2>2. QED
    BY <1>1, <1>2, <1>5, <2>1, BodyWrites
<1>6. CASE C = bank
  BY <1>2, <1>3, <1>6
<1>7. CASE job.at = "verify" /\ C = Stepped
  BY <1>1, <1>6, <1>7, SteppedIs
<1>8. CASE job.at = "commit" /\ C = Stepped
  <2>1. PICK l \in Banks, m \in 0 .. BankSlots, t \in SeqNum : Committed(C, l, m, t)
    BY <1>1, <1>2, <1>8, SteppedIs, CommitWrites
  <2>2. job.val \in Value /\ NoValue \notin Value
    BY <1>1, <1>8, JobIs, NoJob, MarksAre
  <2>3. Kept(C, l, m, promise, attempt)
    BY <1>3, <2>1, <2>2 DEF Committed, Kept
  <2>4. QED
    BY <2>1, <2>3 DEF Committed
<1>9. QED
  BY <1>1, <1>4, <1>5, <1>6, <1>7, <1>8, HalfwayIs

LEMMA CutShort ==
  ASSUME WideEnough, StoreInv, job # NoSave, bank' \in Halfway, mode' = mode,
         promise' = promise, attempt' = attempt, decayed' = decayed, job' = NoSave,
         store' = Unusable \/ store' = [store EXCEPT !.usable = FALSE]
  PROVE  StoreInv'
<1>1. StoreTypes /\ (Kind' <=> Kind)
  BY DEF StoreInv, Kind, Strict
<1>2. bank' \in [Banks -> RecordBank]
  BY <1>1, HalfwayIs
<1>3. /\ store' \in StoreRam /\ store'.usable = FALSE
      /\ store'.prepared # 0 => store.prepared # 0
  BY <1>1, UnusableIs DEF StoreTypes
<1>4. StoreTypes' /\ PreparedIsBlank'
  BY <1>1, <1>2, <1>3 DEF StoreTypes, PreparedIsBlank
<1>5. ASSUME Kind
      PROVE  StoreHolds'
  <2>1. PICK live \in Banks, k \in 0 .. BankSlots, top \in SeqNum :
            Flash(bank', live, k, top, decayed) /\ Kept(bank', live, k, promise, attempt)
    BY <1>5, HalfwayHolds
  <2>2. QED
    BY <1>1, <1>3, <2>1, RamGone
<1>6. QED
  BY <1>1, <1>4, <1>5 DEF StoreInv

LEMMA SaveFailsStep == ASSUME WideEnough, StoreInv, SaveFails PROVE StoreInv'
<1>1. /\ job # NoSave /\ bank' \in Halfway /\ mode' = mode /\ promise' = promise
      /\ attempt' = attempt /\ decayed' = decayed /\ job' = NoSave
      /\ store' = [store EXCEPT !.usable = FALSE]
  BY DEF SaveFails
<1>2. QED
  BY <1>1, CutShort

LEMMA PowerCutStep == ASSUME WideEnough, StoreInv, PowerCut PROVE StoreInv'
<1> DEFINE o == Other(store.active)
<1>1. /\ mode' = mode /\ promise' = promise /\ attempt' = attempt /\ decayed' = decayed
      /\ job' = NoSave /\ store' = Unusable
      /\ StoreTypes /\ (Kind' <=> Kind)
  BY DEF PowerCut, StoreInv, Kind, Strict
<1>2. CASE job # NoSave
  <2>1. bank' \in Halfway
    BY <1>2 DEF PowerCut
  <2>2. QED
    BY <1>1, <1>2, <2>1, CutShort
<1>3. CASE job = NoSave /\ ~Prepares
  <2>1. bank' = bank
    BY <1>3 DEF PowerCut
  <2>2. QED
    BY <1>1, <2>1, GivenUp
<1>4. CASE job = NoSave /\ Prepares
  <2>1. PICK r \in HalfCleared(bank[o], store.prepared + 1) : bank' = [bank EXCEPT ![o] = r]
    BY <1>4 DEF PowerCut
  <2>2. o \in Banks /\ bank[o] \in RecordBank
    BY <1>1, RamTypes, OtherIs, FlashTypes
  <2>3. r \in RecordBank /\ \A i \in Slots : r[i] \in Record => r[i] = bank[o][i]
    BY <2>2, HalfClearedIs
  <2>4. BankSet(bank', o, r)
    BY <1>1, <2>1, <2>2, <2>3, BankSetIs
  <2>5. StoreTypes' /\ PreparedIsBlank'
    BY <1>1, <2>4, UnusableIs DEF StoreTypes, PreparedIsBlank, BankSet
  <2>6. ASSUME Kind
        PROVE  StoreHolds'
    <3>1. PICK live \in Banks, k \in 0 .. BankSlots, top \in SeqNum : Holds(live, k, top)
      BY <2>6 DEF StoreInv, StoreHolds
    <3>2. Flash(bank, live, k, top, decayed) /\ Idle(bank, store, live, k, top, promise)
          /\ Kept(bank, live, k, promise, attempt)
      BY <1>4, <3>1 DEF Holds, Prepares
    <3>3. store.active = live /\ o # live
      BY <3>2, OtherIs DEF Idle
    <3>4. bank'[live] = bank[live] /\ bank'[Other(live)] = r
      BY <2>4, <3>3 DEF BankSet
    <3>5. Flash(bank', live, k, top, decayed')
      BY <1>1, <2>3, <3>2, <3>3, <3>4, OtherChanged
    <3>6. Kept(bank', live, k, promise', attempt')
      BY <1>1, <3>2, <3>4 DEF Kept
    <3>7. QED
      BY <1>1, <3>5, <3>6, UnusableIs, RamGone
  <2>7. QED
    BY <1>1, <2>5, <2>6 DEF StoreInv
<1>5. QED
  BY <1>2, <1>3, <1>4

(* No record lies in what is blank.                                          *)
LEMMA BlankDecays ==
  ASSUME NEW r \in RecordBank, NEW sector \in Sectors, Blank(r, sector), NEW q \in RecordBank,
         \A i \in Slots : q[i] # r[i] => r[i] \in Record /\ q[i] = Corrupt
  PROVE  Blank(q, sector)
<1>1. ASSUME NEW i \in Slots
      PROVE  ClearedSlot(q[i], i, sector) = q[i]
  <2>1. ClearedSlot(r[i], i, sector) = r[i]
    BY ClearedSlots
  <2>2. CASE q[i] = r[i]
    BY <2>1, <2>2
  <2>3. CASE q[i] # r[i]
    <3>1. r[i] \in Record /\ q[i] = Corrupt /\ (sector = 1 \/ sector = 2)
      BY <2>3 DEF Sectors
    <3>2. QED
      BY <2>1, <3>1, MarksAre DEF ClearedSlot, ClearedStraddler
  <2>4. QED
    BY <2>2, <2>3
<1>2. QED
  BY <1>1, ClearedSlots

LEMMA DecaysStep == ASSUME WideEnough, StoreInv, Decays PROVE StoreInv'
<1>1. /\ mode' = mode /\ store' = store /\ job' = job /\ promise' = promise
      /\ attempt' = attempt /\ decayed' = TRUE
      /\ StoreTypes /\ PreparedIsBlank /\ (Kind' => Kind)
  BY DEF Decays, StoreInv, Kind, Strict
<1>2. PICK b \in Banks, i \in Slots :
         bank[b][i] \in Record /\ bank' = [bank EXCEPT ![b][i] = Corrupt]
  BY DEF Decays, Slots
<1>3. SlotSet(bank', b, i, Corrupt)
  BY <1>1, <1>2, SlotSetIs, MarksAre
<1>4. /\ bank' \in [Banks -> RecordBank]
      /\ \A c \in Banks, j \in Slots :
            bank'[c][j] # bank[c][j] => bank[c][j] \in Record /\ bank'[c][j] = Corrupt
  BY <1>2, <1>3 DEF SlotSet
<1>5. \A c \in Banks : bank[c] \in RecordBank /\ bank'[c] \in RecordBank
  BY <1>1, <1>4, FlashTypes
<1>6. \A c \in Banks, sector \in Sectors : Blank(bank[c], sector) => Blank(bank'[c], sector)
  BY <1>4, <1>5, BlankDecays
<1>7. StoreTypes'
  BY <1>1, <1>4 DEF StoreTypes
<1>8. PreparedIsBlank'
  <2>1. Other(store.active) \in Banks /\ \A sector \in 1 .. store.prepared : sector \in Sectors
    BY <1>1, RamTypes, OtherIs DEF Sectors
  <2>2. QED
    BY <1>1, <1>6, <2>1 DEF PreparedIsBlank
<1>9. ASSUME Kind
      PROVE  StoreHolds'
  <2>1. PICK live \in Banks, k \in 0 .. BankSlots, top \in SeqNum : Holds(live, k, top)
    BY <1>9 DEF StoreInv, StoreHolds
  <2>2. Flash(bank, live, k, top, decayed) /\ Kept(bank, live, k, promise, attempt)
    BY <2>1 DEF Holds
  <2>3. Flash(bank', live, k, top, decayed')
    <3>1. bank \in [Banks -> RecordBank]
      BY <1>1 DEF StoreTypes
    <3>2. QED
      BY <1>1, <1>2, <2>2, <3>1, RecordDecayed
  <2>4. \A v : k > 0 /\ Answer(bank[live], k, v) => Answer(bank'[live], k, v)
    <3>1. k > 0 => k \in Slots
      BY StoreSizes DEF Slots
    <3>2. k > 0 => (bank'[live][k] = bank[live][k] \/ bank'[live][k] = Corrupt)
      BY <1>4, <3>1
    <3>3. QED
      BY <3>2, MarksAre DEF Answer
  <2>5. Kept(bank', live, k, promise', attempt')
    BY <1>1, <2>2, <2>4 DEF Kept
  <2>6. Idle(bank, store, live, k, top, promise) => Idle(bank', store', live, k, top, promise')
    BY <1>1, <2>4 DEF Idle
  <2>7. ASSUME job # NoSave
        PROVE  Saving(bank', store', job', live, k, top, promise', mode') /\ attempt' = job'.val
    <3>1. Saving(bank, store, job, live, k, top, promise, mode) /\ attempt = job.val
      BY <2>1, <2>7 DEF Holds
    <3>2. Other(live) \in Banks
      BY OtherIs
    <3>3. Clearing(bank, store, job, live) => Clearing(bank', store', job', live)
      <4> SUFFICES ASSUME Clearing(bank, store, job, live)
                   PROVE  Clearing(bank', store', job', live)
        OBVIOUS
      <4>1. job.at = "clear" /\ job.b = Other(live)
        BY DEF Clearing
      <4>2. \A sector \in 1 .. job.sector - 1 : sector \in Sectors
        BY <1>1, <4>1, JobIs, NoJob DEF Sectors
      <4>3. QED
        BY <1>1, <1>6, <3>2, <4>1, <4>2 DEF Clearing
    <3>4. Writing(bank, store, job, live, k) => Writing(bank', store', job', live, k)
      <4> SUFFICES ASSUME Writing(bank, store, job, live, k)
                   PROVE  Writing(bank', store', job', live, k)
        OBVIOUS
      <4>1. job.at \in {"body", "commit"} /\ job.slot \in Slots
        BY <1>1, JobIs, NoJob DEF Writing
      <4>2. \A s : s \notin Record /\ EmptyBut(bank[Other(live)], s)
                    => EmptyBut(bank'[Other(live)], s)
        BY <1>4, <3>2, MarksAre DEF EmptyBut
      <4>3. CASE job.switch
        BY <1>1, <4>1, <4>2, <4>3, MarksAre DEF Writing
      <4>4. CASE ~job.switch
        <5>1. k + 1 \in Slots /\ bank[live][k + 1] \notin Record
          BY <4>1, <4>4, MarksAre DEF Writing
        <5>2. bank'[live][k + 1] = bank[live][k + 1]
          BY <1>4, <5>1
        <5>3. QED
          BY <1>1, <4>4, <5>2 DEF Writing
      <4>5. QED
        BY <4>3, <4>4
    <3>5. /\ Verifying(store, job, live, k, mode) => Verifying(store', job', live, k, mode')
          /\ Retiring(store, job, live, k, mode) => Retiring(store', job', live, k, mode')
      BY <1>1
    <3>6. k > 0 /\ Answer(bank[live], k, job.val) => Answer(bank'[live], k, job'.val)
      BY <1>1, <2>4
    <3>7. QED
      BY <1>1, <2>6, <3>1, <3>3, <3>4, <3>5, <3>6 DEF Saving
  <2>8. Holds(live, k, top)'
    <3>1. job = NoSave /\ store.usable => Idle(bank, store, live, k, top, promise)
      BY <2>1 DEF Holds
    <3>2. QED
      BY <1>1, <2>3, <2>5, <2>6, <2>7, <3>1 DEF Holds
  <2>9. QED
    BY <2>8 DEF StoreHolds
<1>10. QED
  BY <1>1, <1>7, <1>8, <1>9 DEF StoreInv

-----------------------------------------------------------------------------
(* The theorems                                                              *)

LEMMA StoreNextHolds == ASSUME WideEnough, StoreInv, [StoreNext]_storeVars PROVE StoreInv'
<1>1. CASE UNCHANGED storeVars
  <2>1. /\ mode' = mode /\ bank' = bank /\ store' = store /\ job' = job /\ promise' = promise
        /\ attempt' = attempt /\ decayed' = decayed
    BY <1>1 DEF storeVars
  <2>2. StoreTypes' <=> StoreTypes
    BY <2>1 DEF StoreTypes
  <2>3. PreparedIsBlank' <=> PreparedIsBlank
    BY <2>1 DEF PreparedIsBlank
  <2>4. Kind' <=> Kind
    BY <2>1 DEF Kind, Strict
  <2>5. StoreHolds' <=> StoreHolds
    BY <2>1 DEF StoreHolds, Holds
  <2>6. QED
    BY <2>2, <2>3, <2>4, <2>5 DEF StoreInv
<1>2. CASE \E val \in Value : SaveBegins(val)
  BY <1>2, SaveBeginsStep
<1>3. CASE InitStore \/ PrepareStep \/ SaveRefused \/ SaveStep
  BY <1>3, InitStoreStep, PrepareStepHolds, SaveRefusedStep, SaveStepHolds
<1>4. CASE SaveFails \/ VerifyFails \/ PowerCut \/ Decays
  BY <1>4, SaveFailsStep, VerifyFailsStep, PowerCutStep, DecaysStep
<1>5. QED
  BY <1>1, <1>2, <1>3, <1>4 DEF StoreNext

LEMMA StoreInvSurvives == ASSUME WideEnough, StoreInv PROVE SnapshotSurvives
<1> SUFFICES ASSUME Kind, ~InitFails
             PROVE  Recovered = promise \/ (Recovered = attempt /\ attempt # NoValue)
  BY DEF SnapshotSurvives, Kind
<1>1. PICK live \in Banks, k \in 0 .. BankSlots, top \in SeqNum : Holds(live, k, top)
  BY DEF StoreInv, StoreHolds
<1>2. StoreTypes /\ Flash(bank, live, k, top, decayed) /\ Kept(bank, live, k, promise, attempt)
  BY <1>1 DEF StoreInv, Holds
<1>3. /\ SomethingFound <=> k > 0
      /\ k > 0 => /\ NewestBank = live /\ NewestIn(live) = bank[live][k]
                  /\ bank[live][k] \in Record
  BY <1>2, RecoveredIs
<1>4. CASE k = 0
  BY <1>2, <1>3, <1>4 DEF Kept, Recovered
<1>5. CASE k > 0
  BY <1>2, <1>3, <1>5 DEF Kept, Recovered, Answer
<1>6. QED
  BY <1>4, <1>5

LEMMA StoreInvAgrees == ASSUME WideEnough, StoreInv PROVE RamAgrees
<1>1. StoreTypes /\ PreparedIsBlank
  BY DEF StoreInv
<1>2. StoreTypeOK
  BY <1>1, RamTypes DEF StoreTypes, StoreTypeOK, RecordBank, Slots
<1>3. ASSUME store.usable, job = NoSave, ~decayed
      PROVE  /\ promise = IF store.have /\ Found(store.active) THEN NewestIn(store.active).val
                          ELSE NoValue
             /\ \A b \in Banks, i \in 1 .. BankSlots :
                  bank[b][i] \in Record /\ Found(b) => SeqIsNewer(store.next, bank[b][i].seq)
  <2>1. PICK live \in Banks, k \in 0 .. BankSlots, top \in SeqNum : Holds(live, k, top)
    BY <1>3 DEF StoreInv, StoreHolds, Kind
  <2>2. /\ Flash(bank, live, k, top, decayed) /\ Kept(bank, live, k, promise, attempt)
        /\ Idle(bank, store, live, k, top, promise)
    BY <1>3, <2>1 DEF Holds
  <2>3. /\ store.active = live /\ store.next = top /\ (store.have <=> k > 0)
        /\ k > 0 => Answer(bank[live], k, promise)
    BY <2>2 DEF Idle
  <2>4. LiveBank(bank[live], k, top, decayed) /\ OldBank(bank[Other(live)], k, top)
    BY <2>2 DEF Flash
  <2>5. Whole(bank[live], k)
    BY <1>3, <2>4 DEF LiveBank, Whole
  <2>6. Latest(bank[live]) = k
    BY <1>1, <2>4, <2>5, FlashTypes, LatestLive DEF Latest
  <2>7. promise = IF store.have /\ Found(store.active) THEN NewestIn(store.active).val
                  ELSE NoValue
    <3>1. CASE k = 0
      BY <2>2, <2>3, <3>1 DEF Kept
    <3>2. CASE k > 0
      <4>1. Found(live) /\ NewestIn(live) = bank[live][k] /\ store.have
        BY <2>3, <2>6, <3>2 DEF Found, NewestIn
      <4>2. bank[live][k] \in Record
        <5>1. k \in 1 .. k
          BY <3>2
        <5>2. QED
          BY <2>5, <5>1 DEF Whole
      <4>3. QED
        BY <2>3, <3>2, <4>1, <4>2 DEF Answer
    <3>3. QED
      BY <3>1, <3>2
  <2>8. ASSUME NEW b \in Banks, NEW i \in 1 .. BankSlots, bank[b][i] \in Record
        PROVE  SeqIsNewer(store.next, bank[b][i].seq)
    <3> DEFINE s == bank[b][i].seq
    <3>1. s \in SeqNum
      BY <2>8, RecordIs
    <3>2. Age(top, s) \in 1 .. 2 * BankSlots
      <4>1. CASE b = live
        <5>1. i \in 1 .. k
          BY <2>4, <2>8, <4>1, StoreSizes DEF LiveBank
        <5>2. Age(top, s) = k + 1 - i
          BY <2>4, <2>8, <4>1, <5>1, MarksAre DEF LiveBank
        <5>3. QED
          BY <5>1, <5>2, StoreSizes
      <4>2. CASE b = Other(live)
        <5>1. i \in Slots
          BY DEF Slots
        <5>2. Age(top, s) \in k + 1 .. k + BankSlots
          BY <2>4, <2>8, <4>2, <5>1 DEF OldBank
        <5>3. QED
          BY <5>2, StoreSizes
      <4>3. QED
        BY <4>1, <4>2, OtherIs
    <3>3. Age(top, top) = 0
      <4>1. top - top = 0 /\ top <= top
        BY StoreSizes
      <4>2. QED
        BY <4>1, AgeIs
    <3> HIDE DEF s
    <3>4. 2 * Age(top, s) < SeqMod /\ 2 * Age(top, top) < SeqMod /\ Age(top, top) < Age(top, s)
      BY <3>2, <3>3, StoreSizes DEF WideEnough
    <3>5. SeqIsNewer(top, s)
      BY <3>1, <3>4, NewerIs
    <3>6. QED
      BY <2>3, <3>5 DEF s
  <2>9. QED
    BY <2>7, <2>8
<1>4. LoadAgrees
  BY <1>3 DEF LoadAgrees
<1>5. QED
  BY <1>1, <1>2, <1>4 DEF RamAgrees

LEMMA StoreAlways == ASSUME WideEnough PROVE StoreSpec => []StoreInv
<1>1. StoreInit => StoreInv
  BY StoreInitHolds
<1>2. StoreInv /\ [StoreNext]_storeVars => StoreInv'
  BY StoreNextHolds
<1>3. QED
  BY <1>1, <1>2, PTL DEF StoreSpec

(* Wherever a Save or an Init is cut short or fails, and however often, the  *)
(* next DualBankStore_Init finds the snapshot that was promised last or the  *)
(* one that was being stored, or says that it cannot tell (SnapshotSurvives),*)
(* when the sequence numbers go four times round the slots of a bank.        *)
THEOREM StoreFindsSnapshot == WideEnough /\ StoreSpec => []SnapshotSurvives
<1> SUFFICES ASSUME WideEnough
             PROVE  StoreSpec => []SnapshotSurvives
  OBVIOUS
<1>1. StoreSpec => []StoreInv
  BY StoreAlways
<1>2. StoreInv => SnapshotSurvives
  BY StoreInvSurvives
<1>3. QED
  BY <1>1, <1>2, PTL

(* Whenever the store answered OK, what the RAM of DualBankStore holds is    *)
(* what the Flash holds: Load answers the promised snapshot, the next        *)
(* sequence number is newer than all, and the prepared prefix of the other   *)
(* bank is blank (RamAgrees).                                                *)
THEOREM RamIsRight == WideEnough /\ StoreSpec => []RamAgrees
<1> SUFFICES ASSUME WideEnough
             PROVE  StoreSpec => []RamAgrees
  OBVIOUS
<1>1. StoreSpec => []StoreInv
  BY StoreAlways
<1>2. StoreInv => RamAgrees
  BY StoreInvAgrees
<1>3. QED
  BY <1>1, <1>2, PTL

=============================================================================
