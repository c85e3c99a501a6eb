---------------------------- MODULE UpgradeProofs ----------------------------
(* Proofs about the upgrade log, for logs of every length, any number of     *)
(* power cuts and failing writes, and every range of sequence numbers that   *)
(* is wide enough for them; not for reads of the banks that fail unnoticed.  *)
EXTENDS UpgradeLog, RecordProofs, SequenceTheorems

Places == 1 .. LogSlots
LogRegion == [Places -> Slot]

(* What StorageUpgrade_Init finds in banks B and log l.                      *)
LatestOf(l) == [i \in 0 .. LogSlots |-> IF i = 0 THEN Erased ELSE l[i]][FindLatest(l)]
NewestOf(B, l) == Better(Better(B["A"], B["B"]), LatestOf(l))

(* No record was numbered more than d records ago.                           *)
Recent(B, l, top, d) ==
  /\ \A b \in Bank : IsRecord(B[b]) => Age(top, B[b].seq) <= d
  /\ \A i \in Places : IsRecord(l[i]) => Age(top, l[i].seq) <= d

NoRecords(B, l) == /\ \A b \in Bank : ~IsRecord(B[b])
                   /\ \A i \in Places : ~IsRecord(l[i])

(* The newest record of all is in bank b; bank A comes before bank B and     *)
(* both before the log when there are several.                               *)
BankIsNewest(B, l, top, b) ==
  /\ IsRecord(B[b])
  /\ \A c \in Bank : IsRecord(B[c]) =>
        \/ Age(top, B[b].seq) < Age(top, B[c].seq)
        \/ Age(top, B[b].seq) = Age(top, B[c].seq) /\ (b = "A" \/ c = b)
  /\ \A i \in Places : IsRecord(l[i]) => Age(top, B[b].seq) <= Age(top, l[i].seq)

(* It is in slot i of the log, where the scan comes to.                      *)
LogIsNewest(B, l, top, i) ==
  /\ i \in Reach(l) /\ IsRecord(l[i])
  /\ \A b \in Bank : IsRecord(B[b]) => Age(top, l[i].seq) < Age(top, B[b].seq)
  /\ \A j \in Places : IsRecord(l[j]) =>
        \/ Age(top, l[i].seq) < Age(top, l[j].seq)
        \/ Age(top, l[i].seq) = Age(top, l[j].seq) /\ i <= j

(* If there are records, Init finds the newest and its age is one of these.  *)
Order(B, l, top, ages) ==
  \/ NoRecords(B, l)
  \/ \E b \in Bank : BankIsNewest(B, l, top, b) /\ Age(top, B[b].seq) \in ages
  \/ \E i \in Places : LogIsNewest(B, l, top, i) /\ Age(top, l[i].seq) \in ages

SameNewest(B, l, C, k) ==
  IF IsRecord(NewestOf(B, l)) THEN NewestOf(C, k) = NewestOf(B, l)
  ELSE ~IsRecord(NewestOf(C, k))

(* Between two compactions that are not cut short every append takes a slot, *)
(* and each mishap may give slots back and age the records by one.           *)
Bound(m) == (LogSlots + 1) * (m + 1)
WideForAll == SeqMod > 2 * Bound(MaxMishaps)

-----------------------------------------------------------------------------
LEMMA LogSizes ==
  /\ LogSlots \in Nat /\ LogSlots >= 1 /\ Straddle \in Places
  /\ MaxMishaps \in Nat /\ SeqMod \in Nat /\ SeqMod > 2
  /\ SeqNum \subseteq Nat /\ 0 \in SeqNum /\ 1 \in SeqNum
<1>1. LogSlots \in Nat /\ Straddle \in 1 .. LogSlots /\ MaxMishaps \in Nat
  BY LogAssumption
<1>2. SeqMod \in Nat /\ SeqMod > 2
  BY SeqModAssumption
<1>3. QED
  BY <1>1, <1>2 DEF SeqNum, Places

LEMMA SlotKinds ==
  /\ ~IsRecord(Erased) /\ ~IsRecord(Hole) /\ ~IsRecord(Garbled)
  /\ Erased \in Slot /\ Hole \in Slot /\ Garbled \in Slot
  /\ \A s : IsRecord(s) => s \in Slot /\ ~Stops(s) /\ s.seq \in SeqNum /\ s.val \in Value
BY SlotsAssumption DEF IsRecord, Slot, Stops, Record

LEMMA AgeNat == ASSUME NEW top \in SeqNum, NEW s \in SeqNum PROVE Age(top, s) \in Nat
<1>1. Age(top, s) \in 0 .. SeqMod - 1
  BY AgeIs
<1>2. QED
  BY <1>1, LogSizes

LEMMA BoundIs ==
  ASSUME NEW m \in Nat
  PROVE  /\ Bound(m) \in Nat /\ Bound(m) >= LogSlots + 1
         /\ Bound(m + 1) = Bound(m) + LogSlots + 1
         /\ m <= MaxMishaps => Bound(m) <= Bound(MaxMishaps)
<1>1. LogSlots \in Nat /\ MaxMishaps \in Nat
  BY LogSizes
<1> DEFINE n == LogSlots + 1
<1>2. n \in Nat
  BY <1>1
<1> HIDE DEF n
<1>3. n * (m + 1) \in Nat /\ n * (m + 1) >= n /\ n * (m + 1 + 1) = n * (m + 1) + n
  BY <1>2, Z3
<1>4. m <= MaxMishaps => n * (m + 1) <= n * (MaxMishaps + 1)
  BY <1>1, <1>2, Z3
<1>5. QED
  BY <1>1, <1>3, <1>4 DEF Bound, n

-----------------------------------------------------------------------------
(* What Init finds                                                           *)

LEMMA LatestOfIs ==
  ASSUME NEW l \in LogRegion
  PROVE  /\ Len(l) = LogSlots /\ FindLatest(l) \in 0 .. LogSlots
         /\ IsLatest(l, LogSlots, FindLatest(l))
         /\ LatestOf(l) = IF FindLatest(l) = 0 THEN Erased ELSE l[FindLatest(l)]
<1>1. l \in Seq(Slot) /\ Len(l) = LogSlots
  BY LogSizes, SeqDef, LenProperties DEF LogRegion, Places
<1>2. IsLatest(l, LogSlots, FindLatest(l))
  BY <1>1, LogSizes, FindLatestIs
<1>3. FindLatest(l) \in 0 .. LogSlots
  BY <1>2 DEF IsLatest
<1>4. QED
  BY <1>1, <1>2, <1>3 DEF LatestOf

LEMMA RecentComparable ==
  ASSUME NEW l \in LogRegion, NEW B, NEW top \in SeqNum, NEW d \in Nat, 2 * d < SeqMod,
         Recent(B, l, top, d)
  PROVE  Comparable(l, top)
<1>1. Len(l) = LogSlots
  BY LatestOfIs
<1>2. ASSUME NEW i \in Places, IsRecord(l[i])
      PROVE  2 * Age(top, l[i].seq) < SeqMod
  <2>1. l[i].seq \in SeqNum /\ Age(top, l[i].seq) <= d
    BY <1>2, SlotKinds DEF Recent
  <2>2. Age(top, l[i].seq) \in Nat
    BY <2>1, AgeNat
  <2>3. QED
    BY <2>1, <2>2, LogSizes
<1>3. QED
  BY <1>1, <1>2 DEF Comparable, Places

(* Of two records that are recent the newer one is Better.                   *)
LEMMA BetterIs ==
  ASSUME NEW top \in SeqNum, NEW d \in Nat, 2 * d < SeqMod, NEW x, NEW y,
         IsRecord(x) => Age(top, x.seq) <= d, IsRecord(y) => Age(top, y.seq) <= d
  PROVE  /\ IsRecord(x) /\ (IsRecord(y) => Age(top, x.seq) <= Age(top, y.seq)) => Better(x, y) = x
         /\ IsRecord(y) /\ (IsRecord(x) => Age(top, y.seq) < Age(top, x.seq)) => Better(x, y) = y
         /\ ~IsRecord(x) /\ ~IsRecord(y) => Better(x, y) = x
<1>1. CASE IsRecord(x) /\ IsRecord(y)
  <2> DEFINE a == Age(top, x.seq)
             c == Age(top, y.seq)
  <2>1. x.seq \in SeqNum /\ y.seq \in SeqNum
    BY <1>1, SlotKinds
  <2>2. a \in Nat /\ c \in Nat /\ 2 * a < SeqMod /\ 2 * c < SeqMod
    <3>1. a \in Nat /\ c \in Nat
      BY <2>1, AgeNat
    <3>2. a <= d /\ c <= d
      BY <1>1
    <3> HIDE DEF a, c
    <3>3. QED
      BY <3>1, <3>2, LogSizes
  <2>3. SeqIsNewer(y.seq, x.seq) <=> c < a
    BY <2>1, <2>2, NewerIs
  <2>4. Better(x, y) = IF c < a THEN y ELSE x
    BY <1>1, <2>3 DEF Better
  <2> HIDE DEF a, c
  <2>5. /\ a <= c => Better(x, y) = x
        /\ c < a => Better(x, y) = y
    BY <2>2, <2>4
  <2>6. QED
    BY <1>1, <2>5 DEF a, c
<1>2. CASE ~(IsRecord(x) /\ IsRecord(y))
  BY <1>2 DEF Better
<1>3. QED
  BY <1>1, <1>2

LEMMA FindsNone ==
  ASSUME NEW B, NEW l \in LogRegion, NoRecords(B, l)
  PROVE  ~IsRecord(NewestOf(B, l)) /\ FindLatest(l) = 0
<1>1. FindLatest(l) = 0
  <2>1. FindLatest(l) # 0 => FindLatest(l) \in Places
    BY LatestOfIs DEF Places
  <2>2. QED
    BY <2>1, LatestOfIs DEF NoRecords, IsLatest
<1>2. ~IsRecord(LatestOf(l)) /\ ~IsRecord(B["A"]) /\ ~IsRecord(B["B"])
  BY <1>1, LatestOfIs, SlotKinds DEF NoRecords, Bank
<1>3. QED
  BY <1>1, <1>2 DEF NewestOf, Better

LEMMA FindsBank ==
  ASSUME NEW B, NEW l \in LogRegion, NEW top \in SeqNum, NEW d \in Nat, 2 * d < SeqMod,
         Recent(B, l, top, d), NEW b \in Bank, BankIsNewest(B, l, top, b)
  PROVE  NewestOf(B, l) = B[b]
<1> DEFINE x == Better(B["A"], B["B"])
           y == LatestOf(l)
<1>1. /\ IsRecord(B["A"]) => Age(top, B["A"].seq) <= d
      /\ IsRecord(B["B"]) => Age(top, B["B"].seq) <= d
  BY DEF Recent, Bank
<1>2. x = B[b]
  <2>1. CASE b = "A"
    <3>1. IsRecord(B["A"]) /\ (IsRecord(B["B"]) => Age(top, B["A"].seq) <= Age(top, B["B"].seq))
      <4>1. "A" \in Bank /\ "B" \in Bank
        BY DEF Bank
      <4>2. IsRecord(B["B"]) => \/ Age(top, B["A"].seq) < Age(top, B["B"].seq)
                                \/ Age(top, B["A"].seq) = Age(top, B["B"].seq)
        BY <2>1, <4>1 DEF BankIsNewest
      <4>3. IsRecord(B["A"])
        BY <2>1 DEF BankIsNewest
      <4>4. IsRecord(B["B"]) => Age(top, B["A"].seq) \in Nat /\ Age(top, B["B"].seq) \in Nat
        BY <4>3, SlotKinds, AgeNat
      <4>5. QED
        BY <4>2, <4>3, <4>4
    <3>2. QED
      BY <1>1, <2>1, <3>1, BetterIs
  <2>2. CASE b = "B"
    <3>1. IsRecord(B["B"]) /\ (IsRecord(B["A"]) => Age(top, B["B"].seq) < Age(top, B["A"].seq))
      BY <2>2 DEF BankIsNewest, Bank
    <3>2. QED
      BY <1>1, <2>2, <3>1, BetterIs
  <2>3. QED
    BY <2>1, <2>2 DEF Bank
<1>3. IsRecord(x) /\ Age(top, x.seq) <= d
  BY <1>2 DEF BankIsNewest, Recent
<1>4. IsRecord(y) => Age(top, y.seq) <= d /\ Age(top, x.seq) <= Age(top, y.seq)
  <2>1. IsRecord(y) => FindLatest(l) \in Places /\ y = l[FindLatest(l)]
    BY LatestOfIs, SlotKinds DEF Places
  <2>2. QED
    BY <1>2, <2>1 DEF BankIsNewest, Recent
<1> HIDE DEF x, y
<1>5. Better(x, y) = x
  BY <1>3, <1>4, BetterIs
<1>6. QED
  BY <1>2, <1>5 DEF NewestOf, x, y

LEMMA FindsLog ==
  ASSUME NEW B, NEW l \in LogRegion, NEW top \in SeqNum, NEW d \in Nat, 2 * d < SeqMod,
         Recent(B, l, top, d), NEW i \in Places, LogIsNewest(B, l, top, i)
  PROVE  NewestOf(B, l) = l[i] /\ FindLatest(l) = i
<1> DEFINE m == FindLatest(l)
           x == Better(B["A"], B["B"])
<1>1. Comparable(l, top) /\ IsLatest(l, LogSlots, m) /\ i \in Reach(l) /\ IsRecord(l[i])
  BY RecentComparable, LatestOfIs DEF LogIsNewest
<1>2. m \in Places /\ IsRecord(l[m])
  <2>1. m # 0
    BY <1>1 DEF IsLatest, Places
  <2>2. QED
    BY <1>1, <2>1 DEF IsLatest, Places
<1>3. \/ Age(top, l[m].seq) < Age(top, l[i].seq)
      \/ Age(top, l[m].seq) = Age(top, l[i].seq) /\ m <= i
  BY <1>1 DEF IsLatest, Places
<1>4. \/ Age(top, l[i].seq) < Age(top, l[m].seq)
      \/ Age(top, l[i].seq) = Age(top, l[m].seq) /\ i <= m
  BY <1>2 DEF LogIsNewest
<1>5. Age(top, l[m].seq) \in Nat /\ Age(top, l[i].seq) \in Nat
  BY <1>1, <1>2, SlotKinds, AgeNat
<1> HIDE DEF m
<1>6. m = i
  BY <1>2, <1>3, <1>4, <1>5 DEF Places
<1>7. LatestOf(l) = l[i]
  BY <1>6, LatestOfIs, LogSizes DEF m, Places
<1>8. IsRecord(x) => Age(top, l[i].seq) < Age(top, x.seq) /\ Age(top, x.seq) <= d
  <2>1. x = B["A"] \/ x = B["B"]
    BY DEF Better
  <2>2. QED
    BY <2>1 DEF LogIsNewest, Recent, Bank
<1>9. Age(top, l[i].seq) <= d
  BY <1>1 DEF Recent
<1> HIDE DEF x
<1>10. Better(x, l[i]) = l[i]
  BY <1>1, <1>8, <1>9, BetterIs
<1>11. QED
  BY <1>6, <1>7, <1>10 DEF NewestOf, m, x

-----------------------------------------------------------------------------
(* How the newest record changes with the Flash                              *)

LEMMA ReachSame ==
  ASSUME NEW l \in LogRegion, NEW k \in LogRegion, NEW i \in Reach(l), \A j \in 1 .. i : k[j] = l[j]
  PROVE  i \in Reach(k)
<1>1. Len(l) = LogSlots /\ Len(k) = LogSlots
  BY LatestOfIs
<1>2. QED
  BY <1>1 DEF Reach

(* Records went away, but not the newest one and nothing before it.          *)
LEMMA NewestStays ==
  ASSUME NEW B, NEW l \in LogRegion, NEW C, NEW k \in LogRegion,
         NEW top \in SeqNum, NEW d \in Nat, 2 * d < SeqMod, NEW ages,
         Recent(B, l, top, d), Order(B, l, top, ages),
         \A b \in Bank : IsRecord(C[b]) => C[b] = B[b],
         \A i \in Places : IsRecord(k[i]) => k[i] = l[i],
         \A b \in Bank : BankIsNewest(B, l, top, b) => C[b] = B[b],
         \A i \in Places : LogIsNewest(B, l, top, i) => \A j \in 1 .. i : k[j] = l[j]
  PROVE  Recent(C, k, top, d) /\ Order(C, k, top, ages) /\ SameNewest(B, l, C, k)
<1>1. Recent(C, k, top, d)
  BY DEF Recent
<1>2. CASE NoRecords(B, l)
  <2>1. NoRecords(C, k)
    BY <1>2 DEF NoRecords
  <2>2. QED
    BY <1>1, <1>2, <2>1, FindsNone DEF Order, SameNewest
<1>3. ASSUME NEW b \in Bank, BankIsNewest(B, l, top, b), Age(top, B[b].seq) \in ages
      PROVE  Order(C, k, top, ages) /\ SameNewest(B, l, C, k)
  <2>1. C[b] = B[b]
    BY <1>3
  <2>2. BankIsNewest(C, k, top, b)
    BY <1>3, <2>1 DEF BankIsNewest
  <2>3. NewestOf(B, l) = B[b] /\ NewestOf(C, k) = B[b]
    BY <1>1, <1>3, <2>1, <2>2, FindsBank
  <2>4. QED
    BY <1>3, <2>1, <2>2, <2>3 DEF Order, SameNewest
<1>4. ASSUME NEW i \in Places, LogIsNewest(B, l, top, i), Age(top, l[i].seq) \in ages
      PROVE  Order(C, k, top, ages) /\ SameNewest(B, l, C, k)
  <2>1. k[i] = l[i] /\ i \in Reach(k)
    <3>1. \A j \in 1 .. i : k[j] = l[j]
      BY <1>4
    <3>2. i \in 1 .. i
      BY DEF Places
    <3>3. i \in Reach(l)
      BY <1>4 DEF LogIsNewest
    <3>4. QED
      BY <3>1, <3>2, <3>3, ReachSame
  <2>2. LogIsNewest(C, k, top, i)
    BY <1>4, <2>1 DEF LogIsNewest
  <2>3. NewestOf(B, l) = l[i] /\ NewestOf(C, k) = l[i]
    BY <1>1, <1>4, <2>1, <2>2, FindsLog
  <2>4. QED
    BY <1>4, <2>1, <2>2, <2>3 DEF Order, SameNewest
<1>5. QED
  BY <1>1, <1>2, <1>3, <1>4 DEF Order

(* n became the newest one, or the newest has its number already.            *)
NewOrSame(B, l, C, k, top, n) ==
  \/ NewestOf(C, k) = n
  \/ /\ IsRecord(NewestOf(B, l)) /\ NewestOf(B, l).seq = top
     /\ NewestOf(C, k) = NewestOf(B, l)

LEMMA AgeZero ==
  ASSUME NEW top \in SeqNum
  PROVE  Age(top, top) = 0 /\ \A s \in SeqNum : Age(top, s) = 0 => s = top
<1>1. top \in Nat /\ top < SeqMod /\ SeqMod \in Nat
  BY LogSizes DEF SeqNum
<1>2. top - top = 0 /\ top <= top
  BY <1>1
<1>3. Age(top, top) = 0
  BY <1>2, AgeIs
<1>4. ASSUME NEW s \in SeqNum, Age(top, s) = 0
      PROVE  s = top
  <2>1. s \in Nat /\ s < SeqMod
    BY <1>1 DEF SeqNum
  <2>2. 0 = IF s <= top THEN top - s ELSE top + SeqMod - s
    BY <1>4, AgeIs
  <2>3. QED
    BY <1>1, <2>1, <2>2
<1>5. QED
  BY <1>3, <1>4

(* An append wrote record n behind the latest one of the log.                *)
LEMMA RecordAppended ==
  ASSUME NEW B, NEW l \in LogRegion, NEW k \in LogRegion,
         NEW top \in SeqNum, NEW d \in Nat, 2 * d < SeqMod, NEW ages,
         Recent(B, l, top, d), Order(B, l, top, ages),
         FindLatest(l) + 1 \in Places, ~IsRecord(l[FindLatest(l) + 1]),
         NEW n, IsRecord(n), n.seq = top,
         \A i \in Places : k[i] = IF i = FindLatest(l) + 1 THEN n ELSE l[i]
  PROVE  /\ Recent(B, k, top, d) /\ Order(B, k, top, {0})
         /\ NewOrSame(B, l, B, k, top, n)
         /\ 0 \notin ages => NewestOf(B, k) = n
<1> DEFINE m == FindLatest(l)
           c == m + 1
<1>1. m \in 0 .. LogSlots /\ IsLatest(l, LogSlots, m) /\ Len(l) = LogSlots /\ Len(k) = LogSlots
  BY LatestOfIs
<1> HIDE DEF m
<1>2. c \in Places /\ k[c] = n /\ \A i \in Places : i # c => k[i] = l[i]
  BY DEF m
<1>3. Age(top, n.seq) = 0
  BY AgeZero
<1>4. Recent(B, k, top, d)
  BY <1>2, <1>3 DEF Recent
<1>5. c \in Reach(k)
  <2>1. ASSUME NEW j \in 1 .. c
        PROVE  ~Stops(k[j])
    <3>1. CASE j = c
      BY <1>2, <3>1, SlotKinds
    <3>2. CASE j # c
      <4>1. j \in 1 .. m /\ m # 0 /\ j \in Places
        BY <1>1, <1>2, <3>2 DEF Places
      <4>2. m \in Reach(l)
        BY <1>1, <4>1 DEF IsLatest
      <4>3. QED
        BY <1>2, <3>2, <4>1, <4>2 DEF Reach
    <3>3. QED
      BY <3>1, <3>2
  <2>2. QED
    BY <1>1, <1>2, <2>1 DEF Reach, Places
<1> DEFINE Older == /\ \A b \in Bank : IsRecord(B[b]) => 0 < Age(top, B[b].seq)
                    /\ \A i \in Places : IsRecord(l[i]) => 0 < Age(top, l[i].seq)
<1>6. ASSUME Older
      PROVE  Order(B, k, top, {0}) /\ NewestOf(B, k) = n
  <2>1. LogIsNewest(B, k, top, c)
    <3>1. c \in Places /\ c <= c /\ IsRecord(k[c]) /\ Age(top, k[c].seq) = 0
      BY <1>2, <1>3 DEF Places
    <3>2. ASSUME NEW j \in Places, IsRecord(k[j])
          PROVE  \/ Age(top, k[c].seq) < Age(top, k[j].seq)
                 \/ Age(top, k[c].seq) = Age(top, k[j].seq) /\ c <= j
      <4>1. CASE j = c
        BY <3>1, <4>1
      <4>2. CASE j # c
        <5>1. k[j] = l[j]
          BY <1>2, <4>2
        <5>2. 0 < Age(top, l[j].seq)
          BY <1>6, <3>2, <5>1
        <5>3. QED
          BY <3>1, <5>1, <5>2
      <4>3. QED
        BY <4>1, <4>2
    <3>3. \A b \in Bank : IsRecord(B[b]) => Age(top, k[c].seq) < Age(top, B[b].seq)
      BY <1>6, <3>1
    <3> HIDE DEF c
    <3>4. QED
      BY <1>5, <3>1, <3>2, <3>3 DEF LogIsNewest
  <2>2. NewestOf(B, k) = n
    BY <1>2, <1>4, <2>1, FindsLog
  <2>3. QED
    BY <1>2, <1>3, <2>1, <2>2 DEF Order
<1>7. CASE NoRecords(B, l)
  <2>1. Older
    BY <1>7 DEF NoRecords
  <2>2. QED
    BY <1>4, <1>6, <2>1 DEF NewOrSame
<1>8. ASSUME NEW b \in Bank, BankIsNewest(B, l, top, b), Age(top, B[b].seq) \in ages
      PROVE  /\ Order(B, k, top, {0})
             /\ NewOrSame(B, l, B, k, top, n)
             /\ 0 \notin ages => NewestOf(B, k) = n
  <2>1. IsRecord(B[b]) /\ B[b].seq \in SeqNum /\ Age(top, B[b].seq) \in Nat
    BY <1>8, SlotKinds, AgeNat DEF BankIsNewest
  <2>2. CASE Age(top, B[b].seq) = 0
    <3>1. BankIsNewest(B, k, top, b)
      BY <1>2, <1>3, <1>8, <2>2 DEF BankIsNewest
    <3>2. NewestOf(B, l) = B[b] /\ NewestOf(B, k) = B[b]
      BY <1>4, <1>8, <3>1, FindsBank
    <3>3. B[b].seq = top
      BY <2>1, <2>2, AgeZero
    <3>4. QED
      BY <1>8, <2>1, <2>2, <3>1, <3>2, <3>3 DEF Order, NewOrSame
  <2>3. CASE Age(top, B[b].seq) # 0
    <3>1. ASSUME NEW c1 \in Bank, IsRecord(B[c1])
          PROVE  0 < Age(top, B[c1].seq)
      <4>1. Age(top, B[b].seq) <= Age(top, B[c1].seq) \/ Age(top, B[b].seq) < Age(top, B[c1].seq)
        BY <1>8, <2>1, <3>1 DEF BankIsNewest
      <4>2. Age(top, B[c1].seq) \in Nat
        BY <3>1, SlotKinds, AgeNat
      <4>3. QED
        BY <2>1, <2>3, <4>1, <4>2
    <3>2. ASSUME NEW i \in Places, IsRecord(l[i])
          PROVE  0 < Age(top, l[i].seq)
      <4>1. Age(top, B[b].seq) <= Age(top, l[i].seq)
        BY <1>8, <3>2 DEF BankIsNewest
      <4>2. Age(top, l[i].seq) \in Nat
        BY <3>2, SlotKinds, AgeNat
      <4>3. QED
        BY <2>1, <2>3, <4>1, <4>2
    <3>3. QED
      BY <1>6, <3>1, <3>2 DEF NewOrSame
  <2>4. QED
    BY <2>2, <2>3
<1>9. ASSUME NEW i \in Places, LogIsNewest(B, l, top, i), Age(top, l[i].seq) \in ages
      PROVE  /\ Order(B, k, top, {0})
             /\ NewOrSame(B, l, B, k, top, n)
             /\ 0 \notin ages => NewestOf(B, k) = n
  <2>1. IsRecord(l[i]) /\ l[i].seq \in SeqNum /\ Age(top, l[i].seq) \in Nat
    BY <1>9, SlotKinds, AgeNat DEF LogIsNewest
  <2>2. m = i /\ i # c /\ i <= c
    <3>1. FindLatest(l) = i
      BY <1>9, FindsLog
    <3>2. i \in Nat
      BY LogSizes DEF Places
    <3>3. QED
      BY <3>1, <3>2 DEF m
  <2>3. CASE Age(top, l[i].seq) = 0
    <3>1. k[i] = l[i] /\ i \in Reach(k)
      <4>1. \A j \in 1 .. i : j \in 1 .. c
        BY <1>1, <2>2
      <4>2. QED
        BY <1>1, <1>2, <1>5, <2>2, <4>1 DEF Reach, Places
    <3>2. LogIsNewest(B, k, top, i)
      BY <1>2, <1>3, <1>9, <2>2, <2>3, <3>1 DEF LogIsNewest
    <3>3. NewestOf(B, l) = l[i] /\ NewestOf(B, k) = l[i]
      BY <1>4, <1>9, <3>1, <3>2, FindsLog
    <3>4. l[i].seq = top
      BY <2>1, <2>3, AgeZero
    <3>5. QED
      BY <1>9, <2>1, <2>3, <3>1, <3>2, <3>3, <3>4 DEF Order, NewOrSame
  <2>4. CASE Age(top, l[i].seq) # 0
    <3>1. ASSUME NEW b \in Bank, IsRecord(B[b])
          PROVE  0 < Age(top, B[b].seq)
      <4>1. Age(top, l[i].seq) < Age(top, B[b].seq) /\ Age(top, B[b].seq) \in Nat
        BY <1>9, <3>1, SlotKinds, AgeNat DEF LogIsNewest
      <4>2. QED
        BY <2>1, <2>4, <4>1
    <3>2. ASSUME NEW j \in Places, IsRecord(l[j])
          PROVE  0 < Age(top, l[j].seq)
      <4>1. Age(top, l[i].seq) < Age(top, l[j].seq) \/ Age(top, l[i].seq) = Age(top, l[j].seq)
        BY <1>9, <3>2 DEF LogIsNewest
      <4>2. Age(top, l[j].seq) \in Nat
        BY <3>2, SlotKinds, AgeNat
      <4>3. QED
        BY <2>1, <2>4, <4>1, <4>2
    <3>3. QED
      BY <1>6, <3>1, <3>2 DEF NewOrSame
  <2>5. QED
    BY <2>3, <2>4
<1>10. QED
  BY <1>4, <1>6, <1>7, <1>8, <1>9 DEF Order, NoRecords, NewOrSame

(* A snapshot was written into a bank that held no record.                   *)
LEMMA SnapshotWritten ==
  ASSUME NEW B, NEW C, NEW l \in LogRegion,
         NEW top \in SeqNum, NEW d \in Nat, 2 * d < SeqMod, NEW ages,
         Recent(B, l, top, d), Order(B, l, top, ages),
         NEW e \in Bank, ~IsRecord(B[e]), NEW n, IsRecord(n), n.seq = top,
         \A b \in Bank : C[b] = IF b = e THEN n ELSE B[b]
  PROVE  /\ Recent(C, l, top, d) /\ Order(C, l, top, {0})
         /\ NewOrSame(B, l, C, l, top, n)
         /\ 0 \notin ages => NewestOf(C, l) = n
<1>1. Age(top, n.seq) = 0 /\ C[e] = n
  BY AgeZero
<1>2. Recent(C, l, top, d)
  BY <1>1 DEF Recent
<1>3. \A b \in Bank : IsRecord(B[b]) => Age(top, B[b].seq) \in Nat /\ B[b].seq \in SeqNum
  BY SlotKinds, AgeNat
<1>4. \A i \in Places : IsRecord(l[i]) => Age(top, l[i].seq) \in Nat
  BY SlotKinds, AgeNat
<1>5. \A i \in Places : IsRecord(l[i]) => 0 <= Age(top, l[i].seq)
  BY <1>4
<1>6. CASE e = "B" /\ IsRecord(B["A"]) /\ Age(top, B["A"].seq) = 0
  <2>1. "A" \in Bank /\ C["A"] = B["A"] /\ B["A"].seq = top
    BY <1>3, <1>6, AgeZero DEF Bank
  <2>2. BankIsNewest(B, l, top, "A")
    <3>1. ASSUME NEW c \in Bank, IsRecord(B[c])
          PROVE  0 < Age(top, B[c].seq) \/ 0 = Age(top, B[c].seq)
      BY <1>3, <3>1
    <3>2. QED
      BY <1>5, <1>6, <3>1 DEF BankIsNewest
  <2>3. BankIsNewest(C, l, top, "A")
    <3>1. ASSUME NEW c \in Bank, IsRecord(C[c])
          PROVE  0 < Age(top, C[c].seq) \/ 0 = Age(top, C[c].seq)
      BY <1>1, <1>3, <3>1
    <3>2. QED
      BY <1>5, <1>6, <2>1, <3>1 DEF BankIsNewest
  <2>4. NewestOf(B, l) = B["A"] /\ NewestOf(C, l) = B["A"]
    BY <1>2, <2>1, <2>2, <2>3, FindsBank
  <2>5. 0 \in ages
    <3>1. CASE NoRecords(B, l)
      BY <1>6, <2>1, <3>1 DEF NoRecords
    <3>2. ASSUME NEW b \in Bank, BankIsNewest(B, l, top, b), Age(top, B[b].seq) \in ages
          PROVE  0 \in ages
      <4>1. B[b] = B["A"]
        BY <2>4, <3>2, FindsBank
      <4>2. QED
        BY <1>6, <3>2, <4>1
    <3>3. ASSUME NEW i \in Places, LogIsNewest(B, l, top, i), Age(top, l[i].seq) \in ages
          PROVE  0 \in ages
      <4>1. l[i] = B["A"]
        BY <2>4, <3>3, FindsLog
      <4>2. QED
        BY <1>6, <3>3, <4>1
    <3>4. QED
      BY <3>1, <3>2, <3>3 DEF Order
  <2>6. Order(C, l, top, {0})
    BY <1>6, <2>1, <2>3 DEF Order
  <2>7. QED
    BY <1>2, <1>6, <2>1, <2>4, <2>5, <2>6 DEF NewOrSame
<1>7. CASE ~(e = "B" /\ IsRecord(B["A"]) /\ Age(top, B["A"].seq) = 0)
  <2>1. ASSUME NEW c \in Bank, IsRecord(C[c])
        PROVE  \/ 0 < Age(top, C[c].seq)
               \/ 0 = Age(top, C[c].seq) /\ (e = "A" \/ c = e)
    <3>1. CASE c = e
      BY <1>1, <3>1
    <3>2. CASE c # e
      <4>1. C[c] = B[c]
        BY <3>2
      <4>2. Age(top, B[c].seq) \in Nat
        BY <1>3, <2>1, <4>1
      <4>3. e = "A" \/ (e = "B" /\ c = "A")
        BY <3>2 DEF Bank
      <4>4. QED
        BY <1>7, <2>1, <4>1, <4>2, <4>3
    <3>3. QED
      BY <3>1, <3>2
  <2>2. BankIsNewest(C, l, top, e)
    BY <1>1, <1>5, <2>1 DEF BankIsNewest
  <2>3. NewestOf(C, l) = n
    BY <1>1, <1>2, <2>2, FindsBank
  <2>4. Order(C, l, top, {0})
    BY <1>1, <2>2 DEF Order
  <2>5. QED
    BY <1>2, <2>3, <2>4 DEF NewOrSame
<1>8. QED
  BY <1>6, <1>7

(* The snapshot is the only bank left.                                       *)
LEMMA OnlySnapshot ==
  ASSUME NEW C, NEW l \in LogRegion, NEW top \in SeqNum, NEW d \in Nat, 2 * d < SeqMod,
         Recent(C, l, top, d), NEW b \in Bank, IsRecord(C[b]), C[b].seq = top,
         ~IsRecord(C[Other(b)])
  PROVE  Order(C, l, top, {0}) /\ NewestOf(C, l) = C[b]
<1>1. Age(top, C[b].seq) = 0
  BY AgeZero
<1>2. \A c \in Bank : IsRecord(C[c]) => c = b
  BY DEF Bank, Other
<1>3. \A i \in Places : IsRecord(l[i]) => 0 <= Age(top, l[i].seq)
  <2>1. \A i \in Places : IsRecord(l[i]) => Age(top, l[i].seq) \in Nat
    BY SlotKinds, AgeNat
  <2>2. QED
    BY <2>1
<1>4. BankIsNewest(C, l, top, b)
  BY <1>1, <1>2, <1>3 DEF BankIsNewest
<1>5. NewestOf(C, l) = C[b]
  BY <1>4, FindsBank
<1>6. QED
  BY <1>1, <1>4, <1>5 DEF Order

(* The next number is used up.                                               *)
LEMMA AllAge ==
  ASSUME NEW B, NEW l, NEW top \in SeqNum, NEW d \in Nat, 2 * d < SeqMod,
         Recent(B, l, top, d), Order(B, l, top, {0})
  PROVE  /\ NextSeq(top) \in SeqNum
         /\ Recent(B, l, NextSeq(top), d + 1)
         /\ Order(B, l, NextSeq(top), {1})
<1> DEFINE next == NextSeq(top)
           Older(s) == IsRecord(s) /\ Age(top, s.seq) <= d
                         => Age(next, s.seq) = Age(top, s.seq) + 1 /\ Age(top, s.seq) \in Nat
<1>1. next \in SeqNum
  BY NextSeqIs
<1>2. ASSUME NEW s
      PROVE  Older(s)
  <2>1. SUFFICES ASSUME IsRecord(s), Age(top, s.seq) <= d
                 PROVE  Age(next, s.seq) = Age(top, s.seq) + 1 /\ Age(top, s.seq) \in Nat
    OBVIOUS
  <2>2. s.seq \in SeqNum /\ Age(top, s.seq) \in Nat
    BY <2>1, SlotKinds, AgeNat
  <2>3. Age(top, s.seq) < SeqMod - 1
    BY <2>1, <2>2, LogSizes
  <2>4. QED
    BY <2>2, <2>3, AgeNext
<1>3. /\ \A b \in Bank : IsRecord(B[b]) => Age(next, B[b].seq) = Age(top, B[b].seq) + 1
                                           /\ Age(top, B[b].seq) \in Nat
      /\ \A i \in Places : IsRecord(l[i]) => Age(next, l[i].seq) = Age(top, l[i].seq) + 1
                                             /\ Age(top, l[i].seq) \in Nat
  BY <1>2 DEF Recent
<1> HIDE DEF next, Older
<1>4. Recent(B, l, next, d + 1)
  BY <1>3 DEF Recent
<1>5. CASE NoRecords(B, l)
  BY <1>1, <1>4, <1>5 DEF Order, next
<1>6. ASSUME NEW b \in Bank, BankIsNewest(B, l, top, b), Age(top, B[b].seq) \in {0}
      PROVE  Order(B, l, next, {1})
  <2>1. IsRecord(B[b]) /\ Age(next, B[b].seq) = 1
    BY <1>3, <1>6 DEF BankIsNewest
  <2>2. BankIsNewest(B, l, next, b)
    <3>1. ASSUME NEW c \in Bank, IsRecord(B[c])
          PROVE  \/ Age(next, B[b].seq) < Age(next, B[c].seq)
                 \/ Age(next, B[b].seq) = Age(next, B[c].seq) /\ (b = "A" \/ c = b)
      <4>1. \/ Age(top, B[b].seq) < Age(top, B[c].seq)
            \/ Age(top, B[b].seq) = Age(top, B[c].seq) /\ (b = "A" \/ c = b)
        BY <1>6, <3>1 DEF BankIsNewest
      <4>2. QED
        BY <1>3, <2>1, <3>1, <4>1
    <3>2. ASSUME NEW i \in Places, IsRecord(l[i])
          PROVE  Age(next, B[b].seq) <= Age(next, l[i].seq)
      BY <1>3, <2>1, <3>2
    <3>3. QED
      BY <2>1, <3>1, <3>2 DEF BankIsNewest
  <2>3. QED
    BY <2>1, <2>2 DEF Order
<1>7. ASSUME NEW i \in Places, LogIsNewest(B, l, top, i), Age(top, l[i].seq) \in {0}
      PROVE  Order(B, l, next, {1})
  <2>1. i \in Reach(l) /\ IsRecord(l[i]) /\ Age(next, l[i].seq) = 1
    BY <1>3, <1>7 DEF LogIsNewest
  <2>2. LogIsNewest(B, l, next, i)
    <3>1. ASSUME NEW c \in Bank, IsRecord(B[c])
          PROVE  Age(next, l[i].seq) < Age(next, B[c].seq)
      <4>1. Age(top, l[i].seq) < Age(top, B[c].seq)
        BY <1>7, <3>1 DEF LogIsNewest
      <4>2. QED
        BY <1>3, <2>1, <3>1, <4>1
    <3>2. ASSUME NEW j \in Places, IsRecord(l[j])
          PROVE  \/ Age(next, l[i].seq) < Age(next, l[j].seq)
                 \/ Age(next, l[i].seq) = Age(next, l[j].seq) /\ i <= j
      <4>1. \/ Age(top, l[i].seq) < Age(top, l[j].seq)
            \/ Age(top, l[i].seq) = Age(top, l[j].seq) /\ i <= j
        BY <1>7, <3>2 DEF LogIsNewest
      <4>2. QED
        BY <1>3, <2>1, <3>2, <4>1
    <3>3. QED
      BY <2>1, <3>1, <3>2 DEF LogIsNewest
  <2>3. QED
    BY <2>1, <2>2 DEF Order
<1>8. QED
  BY <1>1, <1>4, <1>5, <1>6, <1>7 DEF Order, next

LEMMA MoreAges ==
  ASSUME NEW B, NEW l, NEW top, NEW ages, NEW more, ages \subseteq more, Order(B, l, top, ages)
  PROVE  Order(B, l, top, more)
BY DEF Order

(* Records that are at most 1 old may be numbered from where they are 1 old. *)
LEMMA AgesSplit ==
  ASSUME NEW B, NEW l, NEW top, Order(B, l, top, {0, 1})
  PROVE  Order(B, l, top, {0}) \/ Order(B, l, top, {1})
BY DEF Order

-----------------------------------------------------------------------------
(* What the log holds                                                        *)

Free(l) == Cardinality({i \in Places : l[i] = Erased})

LEMMA FreeIs ==
  ASSUME NEW l
  PROVE  Free(l) \in 0 .. LogSlots
<1>1. IsFiniteSet(Places) /\ Cardinality(Places) = LogSlots
  BY LogSizes, FS_Interval DEF Places
<1>2. Free(l) <= LogSlots /\ Free(l) \in Nat
  BY <1>1, FS_Subset, FS_CardinalityType DEF Free
<1>3. QED
  BY <1>2, LogSizes

LEMMA FreeFalls ==
  ASSUME NEW l, NEW k, NEW c \in Places, l[c] = Erased, k[c] # Erased,
         \A i \in Places : i # c => k[i] = l[i]
  PROVE  Free(k) = Free(l) - 1
<1> DEFINE S == {i \in Places : l[i] = Erased}
           T == {i \in Places : k[i] = Erased}
<1>1. IsFiniteSet(S)
  <2>1. IsFiniteSet(Places)
    BY LogSizes, FS_Interval DEF Places
  <2>2. QED
    BY <2>1, FS_Subset
<1>2. T = S \ {c} /\ c \in S
  OBVIOUS
<1> HIDE DEF S, T
<1>3. Cardinality(T) = Cardinality(S) - 1
  BY <1>1, <1>2, FS_RemoveElement
<1>4. QED
  BY <1>3 DEF Free, S, T

LEMMA FreeSame ==
  ASSUME NEW l, NEW k, \A i \in Places : k[i] = Erased <=> l[i] = Erased
  PROVE  Free(k) = Free(l)
<1>1. {i \in Places : k[i] = Erased} = {i \in Places : l[i] = Erased}
  OBVIOUS
<1>2. QED
  BY <1>1 DEF Free

(* What stops the scan behind the latest record hides the rest as well.      *)
LEMMA CursorStays ==
  ASSUME NEW l \in LogRegion, NEW k \in LogRegion, NEW top \in SeqNum,
         Comparable(l, top), Comparable(k, top),
         FindLatest(l) + 1 \in Places, Stops(l[FindLatest(l) + 1]), Stops(k[FindLatest(l) + 1]),
         \A i \in Places : i # FindLatest(l) + 1 => k[i] = l[i]
  PROVE  FindLatest(k) = FindLatest(l)
<1> DEFINE m == FindLatest(l)
           f == FindLatest(k)
<1>1. /\ Len(l) = LogSlots /\ Len(k) = LogSlots
      /\ m \in 0 .. LogSlots /\ f \in 0 .. LogSlots
      /\ IsLatest(l, LogSlots, m) /\ IsLatest(k, LogSlots, f)
  BY LatestOfIs
<1> HIDE DEF m, f
<1>2. m + 1 \in Places /\ Stops(l[m + 1]) /\ Stops(k[m + 1])
      /\ \A i \in Places : i # m + 1 => k[i] = l[i]
  BY DEF m
<1>3. \A i \in Places : \A j \in 1 .. i : j \in Places
  BY LogSizes DEF Places
<1>4. ASSUME NEW i \in Reach(l)
      PROVE  i \in 1 .. m /\ i \in Reach(k) /\ k[i] = l[i]
  <2>1. i \in Places /\ \A j \in 1 .. i : ~Stops(l[j])
    BY <1>1 DEF Reach, Places
  <2>2. i \in 1 .. m
    <3>1. m + 1 \notin 1 .. i
      BY <1>2, <2>1
    <3>2. QED
      BY <1>1, <2>1, <3>1 DEF Places
  <2>3. ASSUME NEW j \in 1 .. i
        PROVE  k[j] = l[j]
    <3>1. j \in Places /\ j # m + 1
      BY <1>1, <1>3, <2>1, <2>2
    <3>2. QED
      BY <1>2, <3>1
  <2>4. i \in 1 .. i
    BY <2>2
  <2>5. QED
    BY <1>1, <2>1, <2>2, <2>3, <2>4 DEF Reach, Places
<1>5. ASSUME NEW i \in Reach(k)
      PROVE  i \in Reach(l) /\ k[i] = l[i]
  <2>1. i \in Places /\ \A j \in 1 .. i : ~Stops(k[j])
    BY <1>1 DEF Reach, Places
  <2>2. m + 1 \notin 1 .. i
    BY <1>2, <2>1
  <2>3. ASSUME NEW j \in 1 .. i
        PROVE  k[j] = l[j]
    <3>1. j \in Places /\ j # m + 1
      BY <1>3, <2>1, <2>2
    <3>2. QED
      BY <1>2, <3>1
  <2>4. i \in 1 .. i
    BY <2>1 DEF Places
  <2>5. QED
    BY <1>1, <2>1, <2>3, <2>4 DEF Reach, Places
<1>6. CASE m = 0 /\ f # 0
  <2>1. f \in Reach(k) /\ IsRecord(k[f])
    BY <1>1, <1>6 DEF IsLatest
  <2>2. f \in 1 .. m
    BY <1>4, <1>5, <2>1
  <2>3. QED
    BY <1>6, <2>2
<1>7. CASE m # 0
  <2>1. m \in Reach(l) /\ IsRecord(l[m]) /\ m \in 1 .. LogSlots
    BY <1>1, <1>7 DEF IsLatest
  <2>2. m \in Reach(k) /\ k[m] = l[m] /\ IsRecord(k[m])
    BY <1>4, <2>1
  <2>3. f # 0 /\ f \in 1 .. LogSlots
    BY <1>1, <2>1, <2>2 DEF IsLatest
  <2>4. f \in Reach(k) /\ IsRecord(k[f])
    BY <1>1, <2>3 DEF IsLatest
  <2>5. f \in Reach(l) /\ k[f] = l[f] /\ IsRecord(l[f])
    BY <1>5, <2>4
  <2>6. \/ Age(top, k[f].seq) < Age(top, k[m].seq)
        \/ Age(top, k[f].seq) = Age(top, k[m].seq) /\ f <= m
    BY <1>1, <2>1, <2>2 DEF IsLatest
  <2>7. \/ Age(top, l[m].seq) < Age(top, l[f].seq)
        \/ Age(top, l[m].seq) = Age(top, l[f].seq) /\ m <= f
    BY <1>1, <2>3, <2>5 DEF IsLatest
  <2>8. Age(top, l[m].seq) \in Nat /\ Age(top, l[f].seq) \in Nat
    BY <2>1, <2>5, SlotKinds, AgeNat
  <2>9. m = f
    <3>1. k[m] = l[m] /\ k[f] = l[f]
      BY <2>2, <2>5
    <3>2. QED
      BY <2>1, <2>3, <2>6, <2>7, <2>8, <3>1
  <2>10. QED
    BY <2>9 DEF m, f
<1>8. QED
  BY <1>6, <1>7 DEF m, f

LEMMA BlankIs ==
  /\ Blank \in LogRegion /\ FindLatest(Blank) = 0 /\ HasRoom(Blank)
  /\ \A i \in Places : ~IsRecord(Blank[i])
<1>1. Blank \in LogRegion /\ \A i \in Places : Blank[i] = Erased /\ ~IsRecord(Blank[i])
  BY SlotKinds DEF Blank, LogRegion, Places
<1> DEFINE B == [b \in Bank |-> Erased]
<1>2. NoRecords(B, Blank)
  BY <1>1, SlotKinds DEF NoRecords
<1>3. FindLatest(Blank) = 0
  BY <1>1, <1>2, FindsNone
<1>4. HasRoom(Blank)
  BY <1>1, <1>3, LogSizes DEF HasRoom, Cursor, Blank, Places
<1>5. QED
  BY <1>1, <1>3, <1>4

(* The bank with the newest record is the one Compact takes for current.     *)
LEMMA ActiveIs ==
  ASSUME NEW l \in LogRegion, NEW top \in SeqNum, NEW d \in Nat, 2 * d < SeqMod,
         Recent(bank, l, top, d), NEW b \in Bank, BankIsNewest(bank, l, top, b)
  PROVE  Active = b
<1>1. \A c \in Bank : IsRecord(bank[c]) =>
        /\ bank[c].seq \in SeqNum /\ Age(top, bank[c].seq) \in Nat
        /\ 2 * Age(top, bank[c].seq) < SeqMod
  <2> TAKE c \in Bank
  <2> HAVE IsRecord(bank[c])
  <2>1. bank[c].seq \in SeqNum /\ Age(top, bank[c].seq) <= d
    BY SlotKinds DEF Recent
  <2>2. Age(top, bank[c].seq) \in Nat
    BY <2>1, AgeNat
  <2>3. QED
    BY <2>1, <2>2, LogSizes
<1>2. ASSUME IsRecord(bank["A"]), IsRecord(bank["B"])
      PROVE  SeqIsNewer(bank["B"].seq, bank["A"].seq)
               <=> Age(top, bank["B"].seq) < Age(top, bank["A"].seq)
  BY <1>1, <1>2, NewerIs DEF Bank
<1>3. CASE b = "A"
  <2>1. IsRecord(bank["A"])
    BY <1>3 DEF BankIsNewest
  <2>2. ASSUME IsRecord(bank["B"])
        PROVE  ~SeqIsNewer(bank["B"].seq, bank["A"].seq)
    <3>1. Age(top, bank["A"].seq) < Age(top, bank["B"].seq)
          \/ Age(top, bank["A"].seq) = Age(top, bank["B"].seq)
      BY <1>3, <2>2 DEF BankIsNewest, Bank
    <3>2. Age(top, bank["A"].seq) \in Nat /\ Age(top, bank["B"].seq) \in Nat
      BY <1>1, <2>1, <2>2 DEF Bank
    <3>3. QED
      BY <1>2, <2>1, <2>2, <3>1, <3>2
  <2>3. QED
    BY <1>3, <2>1, <2>2 DEF Active
<1>4. CASE b = "B"
  <2>1. IsRecord(bank["B"])
    BY <1>4 DEF BankIsNewest
  <2>2. ASSUME IsRecord(bank["A"])
        PROVE  SeqIsNewer(bank["B"].seq, bank["A"].seq)
    <3>1. Age(top, bank["B"].seq) < Age(top, bank["A"].seq)
      BY <1>4, <2>2 DEF BankIsNewest, Bank
    <3>2. QED
      BY <1>2, <2>1, <2>2, <3>1
  <2>3. QED
    BY <1>4, <2>1, <2>2 DEF Active
<1>5. QED
  BY <1>3, <1>4 DEF Bank

-----------------------------------------------------------------------------
(* The invariant                                                             *)

(* The old bank and the old log go, the snapshot is there.                   *)
Settling == pc \in {"eraseOld", "eraseFirst", "eraseSecond"}
Compacting == Settling \/ pc \in {"pick", "eraseDest", "snapBody", "snapCommit"}

(* What the steps of an append before the one at pc have left.               *)
Phases ==
  /\ pc \in {"idle", "down"} <=> pending = {}
  /\ pending # {} => \E v \in Value : pending = {v}
  /\ pc \in {"idle", "down"} => ~retried
  /\ Compacting => latest \in pending
  /\ pc = "find" /\ retried => log = Blank
  /\ pc \in {"body", "commit"} => Cursor(log) \in Places
  /\ pc = "body" => log[Cursor(log)] = Erased
  /\ pc = "commit" => log[Cursor(log)] = Hole
  /\ pc = "eraseDest" => dest = Other(Active)
  /\ pc \in {"snapBody", "snapCommit"} => ~IsRecord(bank[dest])
  /\ Settling => bank[dest] = TheRecord(latest)
  /\ Settling /\ pc # "eraseOld" => bank[Other(dest)] = Erased
  /\ pc = "eraseSecond" => \A i \in 1 .. Straddle - 1 : log[i] = Erased

(* How long ago the newest record may have been numbered: a call that failed *)
(* may have written its record without counting it.                          *)
AgesOf(at, f) ==
  IF at = "down" THEN {1}
  ELSE IF f THEN {0, 1}
  ELSE IF at \in {"eraseOld", "eraseFirst", "eraseSecond"} THEN {0} ELSE {1}

(* How long ago any record may have been numbered.                           *)
RoomOf(m, l, at) == Bound(m) - (IF at = "eraseSecond" THEN 0 ELSE Free(l))
                             - (IF at = "commit" THEN 1 ELSE 0)

FlashAt(B, l, at, f, next, m) ==
  \E top \in SeqNum :
    /\ at # "down" => top = next
    /\ Recent(B, l, top, RoomOf(m, l, at))
    /\ Order(B, l, top, AgesOf(at, f))

FlashHolds == FlashAt(bank, log, pc, faulty, nextSeq, mishaps)

UpgradeInv == TypeOK /\ Phases /\ FlashHolds /\ CutsOnlyDelay

LEMMA RoomIs ==
  ASSUME WideForAll, NEW m \in 0 .. MaxMishaps, NEW l, NEW at
  PROVE  /\ RoomOf(m, l, at) \in Nat /\ 2 * RoomOf(m, l, at) < SeqMod
         /\ RoomOf(m, l, at) <= Bound(m)
         /\ Bound(m) \in Nat /\ 2 * Bound(m) < SeqMod
<1>1. /\ Bound(m) \in Nat /\ Bound(m) >= LogSlots + 1
      /\ Bound(m) <= Bound(MaxMishaps) /\ Bound(MaxMishaps) \in Nat
  BY LogSizes, BoundIs
<1>2. LogSlots \in Nat /\ SeqMod \in Nat /\ Free(l) \in 0 .. LogSlots
  BY LogSizes, FreeIs
<1>3. SeqMod > 2 * Bound(MaxMishaps)
  BY DEF WideForAll
<1>4. 2 * Bound(m) < SeqMod
  BY <1>1, <1>2, <1>3
<1>5. RoomOf(m, l, at) \in Nat /\ RoomOf(m, l, at) <= Bound(m)
  BY <1>1, <1>2 DEF RoomOf
<1>6. QED
  BY <1>1, <1>2, <1>4, <1>5

(* A mishap makes room for all the slots it may have freed.                  *)
LEMMA RoomGrows ==
  ASSUME NEW m \in Nat, m < MaxMishaps, NEW l, NEW k, NEW at, NEW next, next # "commit"
  PROVE  RoomOf(m, l, at) + 1 <= RoomOf(m + 1, k, next)
<1>1. Bound(m) \in Nat /\ Bound(m + 1) = Bound(m) + LogSlots + 1
  BY BoundIs
<1>2. LogSlots \in Nat /\ Free(l) \in 0 .. LogSlots /\ Free(k) \in 0 .. LogSlots
  BY LogSizes, FreeIs
<1>3. RoomOf(m, l, at) <= Bound(m)
  BY <1>1, <1>2 DEF RoomOf
<1>4. RoomOf(m + 1, k, next) >= Bound(m) + 1
  BY <1>1, <1>2 DEF RoomOf
<1>5. RoomOf(m, l, at) \in Int /\ RoomOf(m + 1, k, next) \in Int
  BY <1>1, <1>2 DEF RoomOf
<1>6. QED
  BY <1>1, <1>3, <1>4, <1>5

LEMMA RecentMore ==
  ASSUME NEW B, NEW l, NEW top \in SeqNum, NEW d \in Nat, NEW e \in Nat, d <= e,
         Recent(B, l, top, d)
  PROVE  Recent(B, l, top, e)
<1>1. \A b \in Bank : IsRecord(B[b]) => Age(top, B[b].seq) \in Nat
  BY SlotKinds, AgeNat
<1>2. \A i \in Places : IsRecord(l[i]) => Age(top, l[i].seq) \in Nat
  BY SlotKinds, AgeNat
<1>3. QED
  BY <1>1, <1>2 DEF Recent

(* While the log is in use, top is the number of the next record.            *)
LEMMA InUse ==
  ASSUME WideForAll, TypeOK, FlashHolds, pc # "down"
  PROVE  /\ nextSeq \in SeqNum /\ log \in LogRegion /\ mishaps \in 0 .. MaxMishaps
         /\ RoomOf(mishaps, log, pc) \in Nat /\ 2 * RoomOf(mishaps, log, pc) < SeqMod
         /\ Recent(bank, log, nextSeq, RoomOf(mishaps, log, pc))
         /\ Order(bank, log, nextSeq, AgesOf(pc, faulty))
         /\ Order(bank, log, nextSeq, {0, 1})
         /\ Comparable(log, nextSeq)
<1>1. nextSeq \in SeqNum /\ log \in LogRegion /\ mishaps \in 0 .. MaxMishaps
  BY DEF TypeOK, LogRegion, Places
<1>2. Recent(bank, log, nextSeq, RoomOf(mishaps, log, pc)) /\ Order(bank, log, nextSeq, AgesOf(pc, faulty))
  BY DEF FlashHolds, FlashAt
<1>3. RoomOf(mishaps, log, pc) \in Nat /\ 2 * RoomOf(mishaps, log, pc) < SeqMod
  BY <1>1, RoomIs
<1>4. AgesOf(pc, faulty) \subseteq {0, 1}
  BY DEF AgesOf
<1>5. Order(bank, log, nextSeq, {0, 1})
  BY <1>2, <1>4, MoreAges
<1>6. QED
  BY <1>1, <1>2, <1>3, <1>5, RecentComparable

-----------------------------------------------------------------------------
(* What Init loads                                                           *)

ValueOf(n) == IF IsRecord(n) THEN n.val ELSE Empty
TakenBy(next, n) == IsRecord(n) /\ ~SeqIsNewer(next, n.seq)

LEMMA StoredIs ==
  /\ Newest = NewestOf(bank, log)
  /\ Stored = ValueOf(NewestOf(bank, log))
  /\ Shadowed <=> TakenBy(nextSeq, NewestOf(bank, log))
BY DEF Stored, Shadowed, Newest, LatestInLog, NewestOf, LatestOf, ValueOf, TakenBy

LEMMA StoredPrimed ==
  /\ Stored' = ValueOf(NewestOf(bank', log'))
  /\ Shadowed' <=> TakenBy(nextSeq', NewestOf(bank', log'))
BY DEF Stored, Shadowed, Newest, LatestInLog, NewestOf, LatestOf, ValueOf, TakenBy

LEMMA TakenIs ==
  ASSUME NEW top \in SeqNum
  PROVE  /\ \A n : IsRecord(n) /\ n.seq = top => TakenBy(top, n) /\ ~TakenBy(NextSeq(top), n)
         /\ \A n, k : ~IsRecord(n) => ~TakenBy(k, n)
<1>1. Age(top, top) = 0
  BY AgeZero
<1>2. ~SeqIsNewer(top, top)
  <2>1. (top + SeqMod - top) % SeqMod = 0
    BY <1>1 DEF Age
  <2>2. QED
    BY <2>1 DEF SeqIsNewer
<1>3. SeqIsNewer(NextSeq(top), top)
  <2>1. (NextSeq(top) + SeqMod - top) % SeqMod = 1
    BY AgeNext DEF Age
  <2>2. QED
    BY <2>1, LogSizes DEF SeqIsNewer
<1>4. QED
  BY <1>2, <1>3 DEF TakenBy

-----------------------------------------------------------------------------
(* What a write or an erase of each phase does                               *)

LEMMA Slots ==
  ASSUME TypeOK
  PROVE  /\ log \in LogRegion /\ bank \in [Bank -> Slot] /\ dest \in Bank
         /\ \A s \in Slot : InLog(s) \in LogRegion
         /\ \A s : \A i \in Places : InLog(s)[i] = IF i = FindLatest(log) + 1 THEN s ELSE log[i]
         /\ \A s \in Slot : \A b \in Bank : InBank(b, s) \in [Bank -> Slot]
         /\ \A s : \A b, c \in Bank : InBank(b, s)[c] = IF c = b THEN s ELSE bank[c]
BY DEF TypeOK, LogRegion, Places, InLog, InBank, Cursor

LEMMA Pending ==
  ASSUME TypeOK, Phases, NEW v \in pending
  PROVE  /\ pending = {v} /\ v \in Value /\ TheRecord(v).seq = nextSeq /\ TheRecord(v).val = v
         /\ IsRecord(TheRecord(v)) /\ TheRecord(v) \in Slot
<1>1. pending = {v} /\ v \in Value
  BY DEF Phases
<1>2. TheRecord(v) \in Record /\ TheRecord(v).seq = nextSeq /\ TheRecord(v).val = v
  BY <1>1 DEF TheRecord, Record, TypeOK
<1>3. QED
  BY <1>1, <1>2 DEF IsRecord, Slot

(* The slot of an append is left without a record.                           *)
LEMMA BodyWritten ==
  ASSUME WideForAll, TypeOK, Phases, FlashHolds, pc \in {"body", "commit"}, NEW s \in {Hole, Garbled}
  PROVE  /\ InLog(s) \in LogRegion
         /\ Recent(bank, InLog(s), nextSeq, RoomOf(mishaps, log, pc))
         /\ Order(bank, InLog(s), nextSeq, AgesOf(pc, faulty))
         /\ SameNewest(bank, log, bank, InLog(s))
<1> DEFINE d == RoomOf(mishaps, log, pc)
           k == InLog(s)
           m == FindLatest(log)
<1>1. pc # "down"
  OBVIOUS
<1>2. /\ nextSeq \in SeqNum /\ log \in LogRegion /\ d \in Nat /\ 2 * d < SeqMod
      /\ Recent(bank, log, nextSeq, d) /\ Order(bank, log, nextSeq, AgesOf(pc, faulty))
  BY <1>1, InUse
<1>3. s \in Slot /\ ~IsRecord(s)
  BY SlotKinds
<1>4. /\ k \in LogRegion
      /\ \A i \in Places : k[i] = IF i = m + 1 THEN s ELSE log[i]
  BY <1>3, Slots
<1>5. ASSUME NEW i \in Places, LogIsNewest(bank, log, nextSeq, i)
      PROVE  \A j \in 1 .. i : k[j] = log[j]
  <2>1. m = i
    <3> HIDE DEF d
    <3>1. QED
      BY <1>2, <1>5, FindsLog
  <2>2. \A j \in 1 .. i : j \in Places /\ j # m + 1
    <3> HIDE DEF m
    <3>1. QED
      BY <2>1, LogSizes DEF Places
  <2> HIDE DEF k, m
  <2>3. QED
    BY <1>4, <2>2
<1>6. \A i \in Places : IsRecord(k[i]) => k[i] = log[i]
  BY <1>3, <1>4
<1> HIDE DEF d, k, m
<1>7. /\ Recent(bank, k, nextSeq, d) /\ Order(bank, k, nextSeq, AgesOf(pc, faulty))
      /\ SameNewest(bank, log, bank, k)
  BY <1>2, <1>4, <1>5, <1>6, NewestStays
<1>8. QED
  BY <1>4, <1>7 DEF d, k

(* The record of an append is complete.                                      *)
LEMMA RecordWritten ==
  ASSUME WideForAll, TypeOK, Phases, FlashHolds, pc = "commit", NEW v \in pending
  PROVE  LET n == TheRecord(v) IN
         /\ InLog(n) \in LogRegion
         /\ Recent(bank, InLog(n), nextSeq, RoomOf(mishaps, log, pc))
         /\ Order(bank, InLog(n), nextSeq, {0})
         /\ NewOrSame(bank, log, bank, InLog(n), nextSeq, n)
         /\ ~faulty => NewestOf(bank, InLog(n)) = n
<1> DEFINE d == RoomOf(mishaps, log, pc)
           n == TheRecord(v)
           k == InLog(n)
<1>1. pc # "down"
  OBVIOUS
<1>2. /\ nextSeq \in SeqNum /\ log \in LogRegion /\ d \in Nat /\ 2 * d < SeqMod
      /\ Recent(bank, log, nextSeq, d) /\ Order(bank, log, nextSeq, AgesOf(pc, faulty))
  BY <1>1, InUse
<1>3. n \in Slot /\ IsRecord(n) /\ n.seq = nextSeq
  BY Pending
<1>4. /\ k \in LogRegion
      /\ \A i \in Places : k[i] = IF i = FindLatest(log) + 1 THEN n ELSE log[i]
  BY <1>3, Slots
<1>5. FindLatest(log) + 1 \in Places /\ ~IsRecord(log[FindLatest(log) + 1])
  BY SlotKinds DEF Phases, Cursor
<1>6. ~faulty => 0 \notin AgesOf(pc, faulty)
  BY DEF AgesOf
<1> HIDE DEF d, n, k
<1>7. /\ Recent(bank, k, nextSeq, d) /\ Order(bank, k, nextSeq, {0})
      /\ NewOrSame(bank, log, bank, k, nextSeq, n)
      /\ 0 \notin AgesOf(pc, faulty) => NewestOf(bank, k) = n
  BY <1>2, <1>3, <1>4, <1>5, RecordAppended
<1>8. QED
  BY <1>4, <1>6, <1>7 DEF d, n, k

(* The bank for the snapshot loses what it held, which is not the newest.    *)
LEMMA DestCleared ==
  ASSUME WideForAll, TypeOK, Phases, FlashHolds, pc \in {"eraseDest", "snapBody", "snapCommit"},
         NEW s \in Slot, IsRecord(s) => s = bank[dest]
  PROVE  /\ InBank(dest, s) \in [Bank -> Slot]
         /\ Recent(InBank(dest, s), log, nextSeq, RoomOf(mishaps, log, pc))
         /\ Order(InBank(dest, s), log, nextSeq, AgesOf(pc, faulty))
         /\ SameNewest(bank, log, InBank(dest, s), log)
<1> DEFINE d == RoomOf(mishaps, log, pc)
           C == InBank(dest, s)
<1>1. pc # "down"
  OBVIOUS
<1>2. /\ nextSeq \in SeqNum /\ log \in LogRegion /\ d \in Nat /\ 2 * d < SeqMod
      /\ Recent(bank, log, nextSeq, d) /\ Order(bank, log, nextSeq, AgesOf(pc, faulty))
  BY <1>1, InUse
<1>3. dest \in Bank /\ C \in [Bank -> Slot] /\ \A c \in Bank : C[c] = IF c = dest THEN s ELSE bank[c]
  BY Slots
<1>4. ASSUME NEW b \in Bank, BankIsNewest(bank, log, nextSeq, b)
      PROVE  b # dest
  <2>1. CASE pc = "eraseDest"
    <3>1. Active = b
      <4> HIDE DEF d
      <4>1. QED
        BY <1>2, <1>4, ActiveIs
    <3>2. dest = Other(b)
      BY <2>1, <3>1 DEF Phases
    <3>3. QED
      BY <3>2 DEF Other, Bank
  <2>2. CASE pc # "eraseDest"
    <3>1. ~IsRecord(bank[dest])
      BY <2>2 DEF Phases
    <3>2. QED
      BY <1>4, <3>1 DEF BankIsNewest
  <2>3. QED
    BY <2>1, <2>2
<1> HIDE DEF d, C
<1>5. \A b \in Bank : IsRecord(C[b]) => C[b] = bank[b]
  BY <1>3
<1>6. \A b \in Bank : BankIsNewest(bank, log, nextSeq, b) => C[b] = bank[b]
  BY <1>3, <1>4
<1>7. /\ Recent(C, log, nextSeq, d) /\ Order(C, log, nextSeq, AgesOf(pc, faulty))
      /\ SameNewest(bank, log, C, log)
  BY <1>2, <1>5, <1>6, NewestStays
<1>8. QED
  BY <1>3, <1>7 DEF d, C

(* The snapshot is complete.                                                 *)
LEMMA SnapshotTaken ==
  ASSUME WideForAll, TypeOK, Phases, FlashHolds, pc = "snapCommit"
  PROVE  LET n == TheRecord(latest) IN
         /\ latest \in pending /\ InBank(dest, n) \in [Bank -> Slot]
         /\ Recent(InBank(dest, n), log, nextSeq, RoomOf(mishaps, log, pc))
         /\ Order(InBank(dest, n), log, nextSeq, {0})
         /\ NewOrSame(bank, log, InBank(dest, n), log, nextSeq, n)
<1> DEFINE d == RoomOf(mishaps, log, pc)
           n == TheRecord(latest)
           C == InBank(dest, n)
<1>1. pc # "down" /\ latest \in pending
  BY DEF Phases, Compacting
<1>2. /\ nextSeq \in SeqNum /\ log \in LogRegion /\ d \in Nat /\ 2 * d < SeqMod
      /\ Recent(bank, log, nextSeq, d) /\ Order(bank, log, nextSeq, AgesOf(pc, faulty))
  BY <1>1, InUse
<1>3. n \in Slot /\ IsRecord(n) /\ n.seq = nextSeq
  BY <1>1, Pending
<1>4. dest \in Bank /\ C \in [Bank -> Slot] /\ \A c \in Bank : C[c] = IF c = dest THEN n ELSE bank[c]
  BY <1>3, Slots
<1>5. ~IsRecord(bank[dest])
  BY DEF Phases
<1> HIDE DEF d, n, C
<1>6. /\ Recent(C, log, nextSeq, d) /\ Order(C, log, nextSeq, {0})
      /\ NewOrSame(bank, log, C, log, nextSeq, n)
  BY <1>2, <1>3, <1>4, <1>5, SnapshotWritten
<1>7. QED
  BY <1>1, <1>4, <1>6 DEF d, n, C

(* The old bank is gone, of the log there is what there was or less.         *)
LEMMA OldCleared ==
  ASSUME WideForAll, TypeOK, Phases, FlashHolds, Settling, NEW C, NEW k \in LogRegion,
         C[dest] = bank[dest], ~IsRecord(C[Other(dest)]),
         \A i \in Places : IsRecord(k[i]) => k[i] = log[i]
  PROVE  /\ latest \in pending
         /\ Recent(C, k, nextSeq, RoomOf(mishaps, log, pc))
         /\ Order(C, k, nextSeq, {0})
         /\ NewestOf(C, k) = TheRecord(latest)
<1> DEFINE d == RoomOf(mishaps, log, pc)
           n == TheRecord(latest)
<1>1. pc # "down" /\ latest \in pending /\ C[dest] = n
  BY DEF Phases, Compacting, Settling
<1>2. /\ nextSeq \in SeqNum /\ log \in LogRegion /\ d \in Nat /\ 2 * d < SeqMod
      /\ Recent(bank, log, nextSeq, d)
  BY <1>1, InUse
<1>3. IsRecord(n) /\ n.seq = nextSeq
  BY <1>1, Pending
<1>4. dest \in Bank
  BY DEF TypeOK
<1> HIDE DEF d, n
<1>5. \A b \in Bank : IsRecord(C[b]) => C[b] = bank[b]
  BY <1>4 DEF Bank, Other
<1>6. Recent(C, k, nextSeq, d)
  BY <1>2, <1>5 DEF Recent
<1>7. Order(C, k, nextSeq, {0}) /\ NewestOf(C, k) = n
  BY <1>1, <1>2, <1>3, <1>4, <1>6, OnlySnapshot
<1>8. QED
  BY <1>1, <1>6, <1>7 DEF d, n

-----------------------------------------------------------------------------
(* Half-done operations                                                      *)

(* The records are in order, and the newest one is the one that was, or the  *)
(* one that was being written.                                               *)
Damaged(B, l, C, k, top, d, p) ==
  /\ C \in [Bank -> Slot] /\ k \in LogRegion
  /\ Recent(C, k, top, d) /\ Order(C, k, top, {0, 1})
  /\ \/ SameNewest(B, l, C, k)
     \/ \E v \in p : v \in Value /\ NewestOf(C, k) = [seq |-> top, val |-> v]

Harmless(C, k) == Damaged(bank, log, C, k, nextSeq, RoomOf(mishaps, log, pc), pending)

LEMMA SameIsSame ==
  ASSUME NEW B, NEW l
  PROVE  SameNewest(B, l, B, l)
BY DEF SameNewest

LEMMA Untouched ==
  ASSUME WideForAll, TypeOK, Phases, FlashHolds, pc # "down"
  PROVE  Harmless(bank, log)
BY InUse, Slots, SameIsSame DEF Harmless, Damaged

LEMMA Scribbled ==
  ASSUME WideForAll, TypeOK, Phases, FlashHolds, pc \in {"body", "commit"}, NEW s \in {Hole, Garbled}
  PROVE  Harmless(bank, InLog(s))
<1>1. AgesOf(pc, faulty) \subseteq {0, 1}
  BY DEF AgesOf
<1>2. Order(bank, InLog(s), nextSeq, {0, 1})
  BY <1>1, BodyWritten, MoreAges
<1>3. QED
  BY <1>2, BodyWritten, Slots DEF Harmless, Damaged

LEMMA NewOrSameIs ==
  ASSUME NEW B, NEW l, NEW C, NEW k, NEW top, NEW n, NewOrSame(B, l, C, k, top, n)
  PROVE  SameNewest(B, l, C, k) \/ NewestOf(C, k) = n
BY DEF NewOrSame, SameNewest

LEMMA Recorded ==
  ASSUME WideForAll, TypeOK, Phases, FlashHolds, pc = "commit", NEW v \in pending
  PROVE  Harmless(bank, InLog(TheRecord(v)))
<1> DEFINE n == TheRecord(v)
           k == InLog(n)
<1>1. /\ k \in LogRegion /\ Recent(bank, k, nextSeq, RoomOf(mishaps, log, pc))
      /\ Order(bank, k, nextSeq, {0}) /\ NewOrSame(bank, log, bank, k, nextSeq, n)
  BY RecordWritten
<1>2. v \in Value /\ n = [seq |-> nextSeq, val |-> v]
  BY Pending DEF TheRecord
<1>3. bank \in [Bank -> Slot]
  BY Slots
<1> HIDE DEF n, k
<1>4. Order(bank, k, nextSeq, {0, 1}) /\ (SameNewest(bank, log, bank, k) \/ NewestOf(bank, k) = n)
  BY <1>1, MoreAges, NewOrSameIs
<1>5. Harmless(bank, k)
  BY <1>1, <1>2, <1>3, <1>4 DEF Harmless, Damaged
<1>6. QED
  BY <1>5 DEF n, k

LEMMA Cleared ==
  ASSUME WideForAll, TypeOK, Phases, FlashHolds, pc \in {"eraseDest", "snapBody", "snapCommit"},
         NEW s \in Slot, IsRecord(s) => s = bank[dest]
  PROVE  Harmless(InBank(dest, s), log)
<1>1. AgesOf(pc, faulty) \subseteq {0, 1}
  BY DEF AgesOf
<1>2. Order(InBank(dest, s), log, nextSeq, {0, 1})
  BY <1>1, DestCleared, MoreAges
<1>3. QED
  BY <1>2, DestCleared, Slots DEF Harmless, Damaged

LEMMA Snapped ==
  ASSUME WideForAll, TypeOK, Phases, FlashHolds, pc = "snapCommit"
  PROVE  Harmless(InBank(dest, TheRecord(latest)), log)
<1> DEFINE n == TheRecord(latest)
           C == InBank(dest, n)
<1>1. /\ latest \in pending /\ C \in [Bank -> Slot]
      /\ Recent(C, log, nextSeq, RoomOf(mishaps, log, pc))
      /\ Order(C, log, nextSeq, {0}) /\ NewOrSame(bank, log, C, log, nextSeq, n)
  BY SnapshotTaken
<1>2. latest \in Value /\ n = [seq |-> nextSeq, val |-> latest]
  BY <1>1, Pending DEF TheRecord
<1>3. log \in LogRegion
  BY Slots
<1> HIDE DEF n, C
<1>4. Order(C, log, nextSeq, {0, 1}) /\ (SameNewest(bank, log, C, log) \/ NewestOf(C, log) = n)
  BY <1>1, MoreAges, NewOrSameIs
<1>5. Harmless(C, log)
  BY <1>1, <1>2, <1>3, <1>4 DEF Harmless, Damaged
<1>6. QED
  BY <1>5 DEF n, C

LEMMA Reduced ==
  ASSUME WideForAll, TypeOK, Phases, FlashHolds, Settling,
         NEW C \in [Bank -> Slot], NEW k \in LogRegion,
         C[dest] = bank[dest], ~IsRecord(C[Other(dest)]),
         \A i \in Places : IsRecord(k[i]) => k[i] = log[i]
  PROVE  Harmless(C, k)
<1>1. /\ latest \in pending /\ Recent(C, k, nextSeq, RoomOf(mishaps, log, pc))
      /\ Order(C, k, nextSeq, {0}) /\ NewestOf(C, k) = TheRecord(latest)
  BY OldCleared
<1>2. latest \in Value /\ NewestOf(C, k) = [seq |-> nextSeq, val |-> latest]
  BY <1>1, Pending DEF TheRecord
<1>3. Order(C, k, nextSeq, {0, 1})
  BY <1>1, MoreAges
<1>4. QED
  BY <1>1, <1>2, <1>3 DEF Harmless, Damaged

LEMMA HalfErasedIs ==
  ASSUME NEW s \in Slot, NEW straddles, NEW t \in HalfErased(s, straddles)
  PROVE  t \in Slot /\ (IsRecord(t) => t = s)
BY SlotKinds DEF HalfErased

LEMMA HalfErasedLogIs ==
  ASSUME TypeOK, NEW slots, NEW straddles, NEW l \in HalfErasedLog(slots, straddles)
  PROVE  l \in LogRegion /\ \A i \in Places : IsRecord(l[i]) => l[i] = log[i]
<1>1. log \in LogRegion
  BY Slots
<1>2. l \in [Places -> {log[i] : i \in Places} \cup {Hole, Garbled, Erased}]
  BY DEF HalfErasedLog, Places
<1>3. {log[i] : i \in Places} \cup {Hole, Garbled, Erased} \subseteq Slot
  BY <1>1, SlotKinds DEF LogRegion
<1>4. l \in LogRegion
  BY <1>2, <1>3 DEF LogRegion
<1>5. ASSUME NEW i \in Places, IsRecord(l[i])
      PROVE  l[i] = log[i]
  <2>1. i \in slots => l[i] \in HalfErased(log[i], straddles /\ i = Straddle)
    BY DEF HalfErasedLog, Places
  <2>2. i \notin slots => l[i] = log[i]
    BY DEF HalfErasedLog, Places
  <2>3. log[i] \in Slot
    BY <1>1 DEF LogRegion
  <2>4. QED
    BY <1>5, <2>1, <2>2, <2>3, HalfErasedIs
<1>6. QED
  BY <1>4, <1>5

LEMMA AfterMishap ==
  ASSUME WideForAll, TypeOK, Phases, FlashHolds, pc # "down", NEW f \in Interrupted
  PROVE  Harmless(f[1], f[2])
<1>1. CASE pc = "body"
  <2>1. f = flash \/ f = <<bank, InLog(Hole)>>
    BY <1>1 DEF Interrupted
  <2>2. QED
    BY <1>1, <2>1, Untouched, Scribbled DEF flash
<1>2. CASE pc = "commit"
  <2>1. \E s \in {Hole, Garbled} \cup {TheRecord(v) : v \in pending} : f = <<bank, InLog(s)>>
    BY <1>2 DEF Interrupted
  <2>2. QED
    BY <1>2, <2>1, Scribbled, Recorded
<1>3. CASE pc = "eraseDest"
  <2>1. PICK s \in HalfErased(bank[dest], FALSE) : f = <<InBank(dest, s), log>>
    BY <1>3 DEF Interrupted
  <2>2. s \in Slot /\ (IsRecord(s) => s = bank[dest])
    <3>1. bank[dest] \in Slot
      BY Slots
    <3>2. QED
      BY <3>1, HalfErasedIs
  <2>3. QED
    BY <1>3, <2>1, <2>2, Cleared
<1>4. CASE pc = "snapBody"
  <2>1. f = flash \/ f = <<InBank(dest, Hole), log>>
    BY <1>4 DEF Interrupted
  <2>2. Harmless(InBank(dest, Hole), log)
    BY <1>4, SlotKinds, Cleared
  <2>3. QED
    BY <1>4, <2>1, <2>2, Untouched DEF flash
<1>5. CASE pc = "snapCommit"
  <2>1. PICK s \in {Hole, Garbled, TheRecord(latest)} : f = <<InBank(dest, s), log>>
    BY <1>5 DEF Interrupted
  <2>2. CASE s \in {Hole, Garbled}
    <3>1. s \in Slot /\ ~IsRecord(s)
      BY <2>2, SlotKinds
    <3>2. QED
      BY <1>5, <2>1, <3>1, Cleared
  <2>3. CASE s = TheRecord(latest)
    BY <1>5, <2>1, <2>3, Snapped
  <2>4. QED
    BY <2>2, <2>3
<1>6. CASE pc = "eraseOld"
  <2>1. PICK s \in HalfErased(bank[Other(dest)], FALSE) : f = <<InBank(Other(dest), s), log>>
    BY <1>6 DEF Interrupted
  <2>2. Other(dest) \in Bank /\ Other(dest) # dest /\ dest \in Bank
    BY DEF TypeOK, Other, Bank
  <2>3. s \in Slot /\ (IsRecord(s) => s = bank[Other(dest)])
    <3>1. bank[Other(dest)] \in Slot
      BY <2>2, Slots
    <3>2. QED
      BY <3>1, HalfErasedIs
  <2>4. CASE IsRecord(s)
    <3>1. InBank(Other(dest), s) = bank
      BY <2>3, <2>4, Slots DEF InBank
    <3>2. QED
      BY <2>1, <3>1, Untouched
  <2>5. CASE ~IsRecord(s)
    <3>1. /\ InBank(Other(dest), s) \in [Bank -> Slot]
          /\ InBank(Other(dest), s)[dest] = bank[dest]
          /\ InBank(Other(dest), s)[Other(dest)] = s
      BY <2>2, <2>3, Slots
    <3>2. Settling /\ log \in LogRegion
      BY <1>6, Slots DEF Settling
    <3>3. QED
      BY <2>1, <2>5, <3>1, <3>2, Reduced
  <2>6. QED
    BY <2>4, <2>5
<1>7. CASE pc \in {"eraseFirst", "eraseSecond"}
  <2>1. PICK l : /\ f = <<bank, l>> /\ l \in LogRegion
                 /\ \A i \in Places : IsRecord(l[i]) => l[i] = log[i]
    <3>1. \E slots, straddles : \E l \in HalfErasedLog(slots, straddles) : f = <<bank, l>>
      BY <1>7 DEF Interrupted
    <3>2. QED
      BY <3>1, HalfErasedLogIs
  <2>2. Settling /\ ~IsRecord(bank[Other(dest)]) /\ bank \in [Bank -> Slot]
    BY <1>7, Slots, SlotKinds DEF Settling, Phases
  <2>3. QED
    BY <2>1, <2>2, Reduced
<1>8. CASE pc \notin FlashPC
  <2>1. f = flash
    BY <1>8 DEF Interrupted, FlashPC
  <2>2. QED
    BY <2>1, Untouched DEF flash
<1>9. QED
  BY <1>1, <1>2, <1>3, <1>4, <1>5, <1>6, <1>7, <1>8 DEF FlashPC

-----------------------------------------------------------------------------
(* The steps of the register                                                 *)

Shadow == pc # "down" /\ Shadowed
RegisterStep == [Register!Next]_<<Stored, pending, Shadow>>

(* No acknowledged payload is missing while no call fails.                   *)
Kept == ~faulty /\ reply' = "ok" /\ reply # "ok" => Stored' \in pending

LEMMA Stutters ==
  ASSUME Stored' = Stored, pending' = pending, Shadow' <=> Shadow
  PROVE  RegisterStep
<1>1. Shadow' = Shadow
  BY Zenon DEF Shadow
<1>2. QED
  BY <1>1, Zenon DEF RegisterStep

LEMMA Begins ==
  ASSUME pending = {}, NEW v \in Value, pending' = {v}, Stored' = Stored, Shadow' <=> Shadow
  PROVE  RegisterStep
<1>1. Shadow' = Shadow
  BY Zenon DEF Shadow
<1>2. Register!Begin
  BY <1>1 DEF Register!Begin, Shadow
<1>3. QED
  BY <1>2, Zenon DEF RegisterStep, Register!Next

LEMMA Takes ==
  ASSUME pending' = pending, Stored' \in pending, Shadow'
  PROVE  RegisterStep
<1>1. Shadow' = TRUE
  BY Zenon
<1>2. Register!Take
  BY <1>1, Zenon DEF Register!Take, Shadow
<1>3. QED
  BY <1>2, Zenon DEF RegisterStep, Register!Next

LEMMA Settles ==
  ASSUME pending' = pending, Stored \in pending, Stored' = Stored, ~Shadow'
  PROVE  RegisterStep
<1>1. Shadow' = FALSE
  BY Zenon DEF Shadow
<1>2. Register!Settle
  BY <1>1, Zenon DEF Register!Settle, Shadow
<1>3. QED
  BY <1>2, Zenon DEF RegisterStep, Register!Next

LEMMA Acknowledges ==
  ASSUME pending # {}, pending' = {}, ~Shadow',
         Stored' \in pending \/ (Shadow /\ Stored' = Stored)
  PROVE  RegisterStep
<1>1. Shadow' = FALSE
  BY Zenon DEF Shadow
<1>2. Register!Acknowledge
  BY <1>1, Zenon DEF Register!Acknowledge, Shadow
<1>3. QED
  BY <1>2, Zenon DEF RegisterStep, Register!Next

LEMMA Refuses ==
  ASSUME pending # {}, pending' = {},
         \/ Stored' = Stored /\ (Shadow' <=> Shadow)
         \/ Stored' \in pending /\ Shadow'
  PROVE  RegisterStep
<1>1. CASE Stored' = Stored /\ (Shadow' <=> Shadow)
  <2>1. Shadow' = Shadow
    BY <1>1, Zenon DEF Shadow
  <2>2. Register!Refuse
    BY <1>1, <2>1, Zenon DEF Register!Refuse, Shadow
  <2>3. QED
    BY <2>2, Zenon DEF RegisterStep, Register!Next
<1>2. CASE Stored' \in pending /\ Shadow'
  <2>1. Shadow' = TRUE
    BY <1>2, Zenon
  <2>2. Register!Refuse
    BY <1>2, <2>1, Zenon DEF Register!Refuse, Shadow
  <2>3. QED
    BY <2>2, Zenon DEF RegisterStep, Register!Next
<1>3. QED
  BY <1>1, <1>2

LEMMA Restarts ==
  ASSUME pending' = {}, Stored' \in {Stored} \cup pending, ~Shadow'
  PROVE  RegisterStep
<1>1. Shadow' = FALSE
  BY Zenon DEF Shadow
<1>2. Register!Restart
  BY <1>1, Zenon DEF Register!Restart, Shadow
<1>3. QED
  BY <1>2, Zenon DEF RegisterStep, Register!Next

(* The newest record is the same: so are the stored payload and the shadow.  *)
LEMMA SameStored ==
  ASSUME SameNewest(bank, log, bank', log'), nextSeq' = nextSeq, pc # "down", pc' # "down"
  PROVE  Stored' = Stored /\ (Shadow' <=> Shadow)
BY StoredIs, StoredPrimed DEF SameNewest, ValueOf, TakenBy, Shadow

LEMMA FlashSame ==
  ASSUME UNCHANGED flash, nextSeq' = nextSeq, pc # "down", pc' # "down"
  PROVE  Stored' = Stored /\ (Shadow' <=> Shadow)
BY SameStored, SameIsSame DEF flash

(* The newest record has the number of the next one.                         *)
LEMMA NewStored ==
  ASSUME nextSeq \in SeqNum, nextSeq' = nextSeq, pc' # "down", NEW v \in Value,
         NewestOf(bank', log') = [seq |-> nextSeq, val |-> v]
  PROVE  Stored' = v /\ Shadow'
<1> DEFINE n == NewestOf(bank', log')
<1>1. n.seq = nextSeq /\ n.val = v /\ IsRecord(n)
  BY DEF IsRecord, Record
<1>2. TakenBy(nextSeq', n)
  BY <1>1, TakenIs
<1> HIDE DEF n
<1>3. Stored' = ValueOf(n) /\ (Shadowed' <=> TakenBy(nextSeq', n))
  BY StoredPrimed DEF n
<1>4. QED
  BY <1>1, <1>2, <1>3 DEF ValueOf, Shadow

-----------------------------------------------------------------------------
(* The steps of the log                                                      *)

LEMMA NextOfAge ==
  ASSUME NEW top \in SeqNum, NEW s \in SeqNum, Age(top, s) = 1
  PROVE  NextSeq(s) = top
<1>1. SeqMod \in Nat /\ SeqMod > 2 /\ top \in Nat /\ s \in Nat /\ top < SeqMod /\ s < SeqMod
  BY LogSizes DEF SeqNum
<1>2. 1 = IF s <= top THEN top - s ELSE top + SeqMod - s
  BY AgeIs
<1>3. QED
  BY <1>1, <1>2, NextSeqIs

(* Init finds the number after the newest record's.                          *)
LEMMA BootFinds ==
  ASSUME NEW B, NEW l \in LogRegion, NEW top \in SeqNum, NEW d \in Nat, 2 * d < SeqMod,
         Recent(B, l, top, d), Order(B, l, top, {1})
  PROVE  IF IsRecord(NewestOf(B, l))
         THEN NextSeq(NewestOf(B, l).seq) = top /\ NewestOf(B, l).seq \in SeqNum
         ELSE NoRecords(B, l)
<1>1. CASE NoRecords(B, l)
  BY <1>1, FindsNone
<1>2. ASSUME NEW b \in Bank, BankIsNewest(B, l, top, b), Age(top, B[b].seq) \in {1}
      PROVE  /\ IsRecord(NewestOf(B, l)) /\ NextSeq(NewestOf(B, l).seq) = top
             /\ NewestOf(B, l).seq \in SeqNum
  <2>1. NewestOf(B, l) = B[b] /\ IsRecord(B[b]) /\ B[b].seq \in SeqNum
    BY <1>2, FindsBank, SlotKinds DEF BankIsNewest
  <2>2. QED
    BY <1>2, <2>1, NextOfAge
<1>3. ASSUME NEW i \in Places, LogIsNewest(B, l, top, i), Age(top, l[i].seq) \in {1}
      PROVE  /\ IsRecord(NewestOf(B, l)) /\ NextSeq(NewestOf(B, l).seq) = top
             /\ NewestOf(B, l).seq \in SeqNum
  <2>1. NewestOf(B, l) = l[i] /\ IsRecord(l[i]) /\ l[i].seq \in SeqNum
    BY <1>3, FindsLog, SlotKinds DEF LogIsNewest
  <2>2. QED
    BY <1>3, <2>1, NextOfAge
<1>4. QED
  BY <1>1, <1>2, <1>3 DEF Order

LEMMA BootStep ==
  ASSUME WideForAll, UpgradeInv, Boot, UNCHANGED faulty
  PROVE  UpgradeInv' /\ RegisterStep /\ Kept
<1> DEFINE d == RoomOf(mishaps, log, pc)
           n == NewestOf(bank, log)
<1>1. /\ TypeOK /\ Phases /\ FlashHolds /\ CutsOnlyDelay /\ pc = "down" /\ pc' = "idle"
      /\ log \in LogRegion /\ mishaps \in 0 .. MaxMishaps
      /\ bank' = bank /\ log' = log /\ pending' = pending /\ reply' = reply
      /\ mishaps' = mishaps /\ faulty' = faulty
  BY Slots DEF UpgradeInv, Boot, flash, TypeOK
<1>2. PICK top \in SeqNum : Recent(bank, log, top, d) /\ Order(bank, log, top, {1})
  BY <1>1 DEF FlashHolds, FlashAt, AgesOf
<1>3. d \in Nat /\ 2 * d < SeqMod /\ d = RoomOf(mishaps, log, "idle")
  BY <1>1, RoomIs DEF RoomOf
<1>4. nextSeq' = IF IsRecord(n) THEN NextSeq(n.seq) ELSE 1
  BY StoredIs DEF Boot
<1> HIDE DEF d, n
<1>5. IF IsRecord(n) THEN NextSeq(n.seq) = top /\ n.seq \in SeqNum ELSE NoRecords(bank, log)
  BY <1>1, <1>2, <1>3, BootFinds DEF n
<1>6. nextSeq' \in SeqNum /\ (IsRecord(n) => nextSeq' = top)
  BY <1>4, <1>5, LogSizes
<1>7. Order(bank, log, top, AgesOf("idle", faulty))
  <2>1. {1} \subseteq AgesOf("idle", faulty)
    BY DEF AgesOf
  <2>2. QED
    BY <1>2, <2>1, MoreAges
<1>8. FlashAt(bank, log, "idle", faulty, nextSeq', mishaps)
  <2>1. CASE IsRecord(n)
    BY <1>2, <1>3, <1>6, <1>7, <2>1 DEF FlashAt
  <2>2. CASE ~IsRecord(n)
    <3>1. NoRecords(bank, log)
      BY <1>5, <2>2
    <3>2. Recent(bank, log, nextSeq', d) /\ Order(bank, log, nextSeq', AgesOf("idle", faulty))
      BY <3>1 DEF Recent, Order, NoRecords
    <3>3. QED
      BY <1>3, <1>6, <3>2 DEF FlashAt
  <2>3. QED
    BY <2>1, <2>2
<1>9. FlashHolds'
  BY <1>1, <1>8 DEF FlashHolds
<1>10. Stored' = Stored /\ latest' = Stored /\ Stored \in Value \cup {Empty}
  <2>1. Stored' = Stored /\ latest' = Stored /\ Stored = ValueOf(n)
    BY <1>1, StoredIs, StoredPrimed DEF Boot, n
  <2>2. ValueOf(n) \in Value \cup {Empty}
    BY SlotKinds DEF ValueOf
  <2>3. QED
    BY <2>1, <2>2
<1>11. TypeOK'
  BY <1>1, <1>6, <1>10 DEF TypeOK, Boot
<1>12. Phases'
  BY <1>1 DEF Phases, Compacting, Settling, Boot
<1>13. CutsOnlyDelay'
  BY <1>1, <1>10 DEF CutsOnlyDelay, OnlyFaultsRefuse, GetIsStored
<1>14. ~Shadow'
  <2>1. Shadowed' <=> TakenBy(nextSeq', n)
    BY <1>1, StoredPrimed DEF n
  <2>2. ~TakenBy(nextSeq', n)
    <3>1. CASE IsRecord(n)
      BY <1>4, <1>5, <3>1, TakenIs
    <3>2. CASE ~IsRecord(n)
      BY <3>2 DEF TakenBy
    <3>3. QED
      BY <3>1, <3>2
  <2>3. QED
    BY <2>1, <2>2 DEF Shadow
<1>15. RegisterStep
  <2>1. ~Shadow
    BY <1>1 DEF Shadow
  <2>2. QED
    BY <1>1, <1>10, <1>14, <2>1, Stutters
<1>16. QED
  BY <1>1, <1>9, <1>11, <1>12, <1>13, <1>15 DEF UpgradeInv, Kept

LEMMA HoldsAgain ==
  ASSUME WideForAll, TypeOK', pc' # "down", NEW d \in Nat, d <= RoomOf(mishaps', log', pc'),
         NEW ages, ages \subseteq AgesOf(pc', faulty'),
         Recent(bank', log', nextSeq', d), Order(bank', log', nextSeq', ages)
  PROVE  FlashHolds'
<1>1. nextSeq' \in SeqNum /\ mishaps' \in 0 .. MaxMishaps
  BY DEF TypeOK
<1>2. RoomOf(mishaps', log', pc') \in Nat
  BY <1>1, RoomIs
<1>3. Recent(bank', log', nextSeq', RoomOf(mishaps', log', pc'))
  BY <1>1, <1>2, RecentMore
<1>4. Order(bank', log', nextSeq', AgesOf(pc', faulty'))
  BY MoreAges
<1>5. QED
  BY <1>1, <1>3, <1>4 DEF FlashHolds, FlashAt

LEMMA SameFlash ==
  ASSUME WideForAll, UpgradeInv, TypeOK', UNCHANGED <<flash, nextSeq, mishaps, faulty>>,
         pc \notin {"down", "eraseSecond", "commit"}, pc' \notin {"down", "eraseSecond", "commit"},
         AgesOf(pc, faulty) \subseteq AgesOf(pc', faulty)
  PROVE  FlashHolds' /\ Stored' = Stored /\ (Shadow' <=> Shadow)
<1> DEFINE d == RoomOf(mishaps, log, pc)
<1>1. TypeOK /\ FlashHolds
  BY DEF UpgradeInv
<1>2. bank' = bank /\ log' = log /\ nextSeq' = nextSeq /\ mishaps' = mishaps /\ faulty' = faulty
  BY DEF flash
<1>3. /\ d \in Nat /\ Recent(bank, log, nextSeq, d)
      /\ Order(bank, log, nextSeq, AgesOf(pc, faulty)) /\ d \in Int
  BY <1>1, InUse
<1>4. d = RoomOf(mishaps', log', pc')
  BY <1>2 DEF RoomOf
<1> HIDE DEF d
<1>5. FlashHolds'
  BY <1>2, <1>3, <1>4, HoldsAgain
<1>6. QED
  BY <1>5, FlashSame

LEMMA BeginStep ==
  ASSUME WideForAll, UpgradeInv, NEW v \in Value, Begin(v), UNCHANGED faulty
  PROVE  UpgradeInv' /\ RegisterStep /\ Kept
<1>1. /\ TypeOK /\ Phases /\ CutsOnlyDelay /\ pc = "idle" /\ pc' = "find" /\ pending' = {v}
      /\ reply' = "none" /\ ~retried' /\ pending = {} /\ faulty' = faulty
  BY DEF UpgradeInv, Begin, Phases
<1>2. TypeOK'
  BY <1>1 DEF TypeOK, Begin, flash
<1>3. FlashHolds' /\ Stored' = Stored /\ (Shadow' <=> Shadow)
  BY <1>1, <1>2, SameFlash DEF AgesOf, Begin
<1>4. Phases'
  BY <1>1 DEF Phases, Compacting, Settling, Begin, flash
<1>5. CutsOnlyDelay'
  BY <1>1 DEF CutsOnlyDelay, OnlyFaultsRefuse, GetIsStored
<1>6. RegisterStep
  BY <1>1, <1>3, Begins
<1>7. QED
  BY <1>1, <1>2, <1>3, <1>4, <1>5, <1>6 DEF UpgradeInv, Kept

LEMMA FindRoomStep ==
  ASSUME WideForAll, UpgradeInv, FindRoom, UNCHANGED faulty
  PROVE  UpgradeInv' /\ RegisterStep /\ Kept
<1>1. /\ TypeOK /\ Phases /\ CutsOnlyDelay /\ pc = "find" /\ pc' = "body" /\ HasRoom(log)
      /\ pending' = pending /\ reply' = reply /\ log' = log /\ faulty' = faulty
  BY DEF UpgradeInv, FindRoom, flash
<1>2. TypeOK'
  BY <1>1 DEF TypeOK, FlashPC, FindRoom, flash
<1>3. FlashHolds' /\ Stored' = Stored /\ (Shadow' <=> Shadow)
  BY <1>1, <1>2, SameFlash DEF AgesOf, FindRoom
<1>4. Cursor(log') \in Places /\ log'[Cursor(log')] = Erased
  <2>1. DOMAIN log = Places
    BY <1>1 DEF TypeOK, Places
  <2>2. QED
    BY <1>1, <2>1 DEF HasRoom
<1>5. Phases'
  BY <1>1, <1>4 DEF Phases, Compacting, Settling
<1>6. CutsOnlyDelay'
  BY <1>1 DEF CutsOnlyDelay, OnlyFaultsRefuse, GetIsStored
<1>7. RegisterStep
  BY <1>1, <1>3, Stutters
<1>8. QED
  BY <1>1, <1>2, <1>3, <1>5, <1>6, <1>7 DEF UpgradeInv, Kept

LEMMA FindFullStep ==
  ASSUME WideForAll, UpgradeInv, FindFull, UNCHANGED faulty
  PROVE  UpgradeInv' /\ RegisterStep /\ Kept
<1>1. /\ TypeOK /\ Phases /\ CutsOnlyDelay /\ pc = "find" /\ ~HasRoom(log) /\ faulty' = faulty
      /\ log' = log
  BY DEF UpgradeInv, FindFull, flash
<1>2. ~retried
  BY <1>1, BlankIs DEF Phases
<1>3. /\ pc' = "pick" /\ latest' \in pending /\ pending' = pending /\ reply' = reply
      /\ retried' = retried /\ dest' = dest
  BY <1>2 DEF FindFull
<1>4. TypeOK'
  <2>1. latest' \in Value
    BY <1>1, <1>3, Pending
  <2>2. QED
    BY <1>1, <1>3, <2>1 DEF TypeOK, FindFull, flash
<1>5. FlashHolds' /\ Stored' = Stored /\ (Shadow' <=> Shadow)
  BY <1>1, <1>3, <1>4, SameFlash DEF AgesOf, FindFull
<1>6. Phases'
  BY <1>1, <1>3 DEF Phases, Compacting, Settling
<1>7. CutsOnlyDelay'
  BY <1>1, <1>3 DEF CutsOnlyDelay, OnlyFaultsRefuse, GetIsStored
<1>8. RegisterStep
  BY <1>3, <1>5, Stutters
<1>9. QED
  BY <1>3, <1>4, <1>5, <1>6, <1>7, <1>8 DEF UpgradeInv, Kept

LEMMA FindUnreadableStep ==
  ASSUME WideForAll, UpgradeInv, FindUnreadable, UNCHANGED faulty
  PROVE  UpgradeInv' /\ RegisterStep /\ Kept
<1>1. /\ TypeOK /\ Phases /\ CutsOnlyDelay /\ pc = "find" /\ pc' = "idle" /\ faulty
      /\ pending' = {} /\ pending # {} /\ reply' = "error" /\ faulty' = faulty
  BY DEF UpgradeInv, FindUnreadable, Return, Phases
<1>2. TypeOK'
  BY <1>1 DEF TypeOK, FindUnreadable, Return, flash, Bank
<1>3. FlashHolds' /\ Stored' = Stored /\ (Shadow' <=> Shadow)
  BY <1>1, <1>2, SameFlash DEF AgesOf, FindUnreadable
<1>4. Phases'
  BY <1>1 DEF Phases, Compacting, Settling, FindUnreadable, Return
<1>5. CutsOnlyDelay'
  BY <1>1 DEF CutsOnlyDelay, OnlyFaultsRefuse, GetIsStored
<1>6. RegisterStep
  BY <1>1, <1>3, Refuses
<1>7. QED
  BY <1>1, <1>2, <1>3, <1>4, <1>5, <1>6 DEF UpgradeInv, Kept

LEMMA PickStep ==
  ASSUME WideForAll, ~BankReadFaults, UpgradeInv, Pick, UNCHANGED faulty
  PROVE  UpgradeInv' /\ RegisterStep /\ Kept
<1>1. /\ TypeOK /\ Phases /\ CutsOnlyDelay /\ pc = "pick" /\ pc' = "eraseDest" /\ faulty' = faulty
      /\ bank' = bank /\ latest' = latest /\ pending' = pending /\ reply' = reply
  BY DEF UpgradeInv, Pick, flash
<1>2. dest' = Other(Active) /\ dest' \in Bank
  BY DEF Pick, ActiveRead, Other, Bank
<1>3. TypeOK'
  BY <1>1, <1>2 DEF TypeOK, FlashPC, Pick, flash
<1>4. FlashHolds' /\ Stored' = Stored /\ (Shadow' <=> Shadow)
  BY <1>1, <1>3, SameFlash DEF AgesOf, Pick
<1>5. Phases'
  <2>1. Active' = Active
    BY <1>1 DEF Active
  <2>2. QED
    BY <1>1, <1>2, <2>1 DEF Phases, Compacting, Settling
<1>6. CutsOnlyDelay'
  BY <1>1 DEF CutsOnlyDelay, OnlyFaultsRefuse, GetIsStored
<1>7. RegisterStep
  BY <1>1, <1>4, Stutters
<1>8. QED
  BY <1>1, <1>3, <1>4, <1>5, <1>6, <1>7 DEF UpgradeInv, Kept

LEMMA WriteBodyStep ==
  ASSUME WideForAll, UpgradeInv, WriteBody, UNCHANGED faulty
  PROVE  UpgradeInv' /\ RegisterStep /\ Kept
<1> DEFINE d == RoomOf(mishaps, log, pc)
           k == InLog(Hole)
           c == FindLatest(log) + 1
<1>1. /\ TypeOK /\ Phases /\ FlashHolds /\ CutsOnlyDelay /\ pc = "body" /\ pc' = "commit"
      /\ faulty' = faulty /\ bank' = bank /\ log' = k /\ pending' = pending /\ reply' = reply
      /\ nextSeq' = nextSeq /\ mishaps' = mishaps
  BY DEF UpgradeInv, WriteBody, FlashStep
<1>2. /\ log \in LogRegion /\ c \in Places /\ log[c] = Erased
      /\ nextSeq \in SeqNum /\ mishaps \in Nat /\ d \in Nat /\ 2 * d < SeqMod
      /\ Comparable(log, nextSeq)
  BY <1>1, InUse, LogSizes DEF Phases, Cursor
<1>3. /\ k \in LogRegion /\ Recent(bank, k, nextSeq, d)
      /\ Order(bank, k, nextSeq, AgesOf(pc, faulty)) /\ SameNewest(bank, log, bank, k)
  BY <1>1, BodyWritten
<1>4. k[c] = Hole /\ \A i \in Places : i # c => k[i] = log[i]
  BY <1>1, <1>2, Slots
<1>5. d <= RoomOf(mishaps, k, "commit")
  <2>1. Free(k) = Free(log) - 1
    <3>1. Hole # Erased
      BY SlotsAssumption
    <3> HIDE DEF k, c
    <3>2. QED
      BY <1>2, <1>4, <3>1, FreeFalls
  <2>2. Free(log) \in Nat /\ Bound(mishaps) \in Nat
    BY <1>2, FreeIs, BoundIs, LogSizes
  <2> HIDE DEF k
  <2>3. QED
    BY <1>1, <2>1, <2>2 DEF RoomOf
<1> HIDE DEF d, k, c
<1>6. TypeOK'
  BY <1>1, <1>3 DEF TypeOK, FlashPC, WriteBody, FlashStep, LogRegion, Places
<1>7. FlashHolds'
  <2>1. AgesOf(pc, faulty) \subseteq AgesOf(pc', faulty')
    BY <1>1 DEF AgesOf
  <2>2. QED
    BY <1>1, <1>2, <1>3, <1>5, <1>6, <2>1, HoldsAgain
<1>8. Stored' = Stored /\ (Shadow' <=> Shadow)
  BY <1>1, <1>3, SameStored
<1>9. FindLatest(k) = FindLatest(log)
  <2>1. Comparable(k, nextSeq)
    BY <1>2, <1>3, RecentComparable
  <2>2. Stops(log[c]) /\ Stops(k[c])
    BY <1>2, <1>4 DEF Stops
  <2>3. QED
    BY <1>2, <1>3, <1>4, <2>1, <2>2, CursorStays DEF c
<1>10. Phases'
  <2>1. Cursor(log') \in Places /\ log'[Cursor(log')] = Hole
    BY <1>1, <1>2, <1>4, <1>9 DEF Cursor, c
  <2>2. QED
    BY <1>1, <2>1 DEF Phases, Compacting, Settling
<1>11. CutsOnlyDelay'
  BY <1>1 DEF CutsOnlyDelay, OnlyFaultsRefuse, GetIsStored
<1>12. RegisterStep
  BY <1>1, <1>8, Stutters
<1>13. QED
  BY <1>1, <1>6, <1>7, <1>10, <1>11, <1>12 DEF UpgradeInv, Kept

LEMMA CommitStep ==
  ASSUME WideForAll, UpgradeInv, Commit, UNCHANGED faulty
  PROVE  UpgradeInv' /\ RegisterStep /\ Kept
<1>1. /\ TypeOK /\ Phases /\ FlashHolds /\ CutsOnlyDelay /\ pc = "commit" /\ pc' = "idle"
      /\ faulty' = faulty /\ bank' = bank /\ pending' = {} /\ reply' = "ok" /\ ~retried'
      /\ nextSeq' = NextSeq(nextSeq) /\ mishaps' = mishaps /\ dest' = "A"
  BY DEF UpgradeInv, Commit, Return
<1>2. PICK v \in pending : log' = InLog(TheRecord(v)) /\ latest' = v
  BY DEF Commit
<1> DEFINE d == RoomOf(mishaps, log, pc)
           n == TheRecord(v)
           k == InLog(n)
           c == FindLatest(log) + 1
<1>3. /\ log \in LogRegion /\ c \in Places /\ log[c] = Hole
      /\ nextSeq \in SeqNum /\ mishaps \in Nat /\ d \in Nat /\ 2 * d < SeqMod
  BY <1>1, InUse, LogSizes DEF Phases, Cursor
<1>4. v \in Value /\ IsRecord(n) /\ n.seq = nextSeq /\ n.val = v /\ n \in Slot
  BY <1>1, Pending
<1>5. /\ k \in LogRegion /\ Recent(bank, k, nextSeq, d) /\ Order(bank, k, nextSeq, {0})
      /\ NewOrSame(bank, log, bank, k, nextSeq, n)
      /\ ~faulty => NewestOf(bank, k) = n
  BY <1>1, RecordWritten
<1>6. \A i \in Places : k[i] = IF i = c THEN n ELSE log[i]
  BY <1>1, Slots
<1>7. log' = k
  BY <1>2
<1>8. d + 1 <= RoomOf(mishaps, k, "idle") /\ d + 1 \in Nat
  <2>1. Free(k) = Free(log)
    <3>1. Hole # Erased /\ n # Erased
      BY <1>4, SlotsAssumption, SlotKinds
    <3> HIDE DEF k, c, n
    <3>2. \A i \in Places : k[i] = Erased <=> log[i] = Erased
      BY <1>3, <1>6, <3>1
    <3>3. QED
      BY <3>2, FreeSame
  <2>2. Free(log) \in Nat /\ Bound(mishaps) \in Nat
    BY <1>3, FreeIs, BoundIs, LogSizes
  <2> HIDE DEF k
  <2>3. QED
    BY <1>1, <1>3, <2>1, <2>2 DEF RoomOf
<1> HIDE DEF d, k, c, n
<1>9. TypeOK'
  <2>1. NextSeq(nextSeq) \in SeqNum
    BY <1>3, NextSeqIs
  <2>2. QED
    BY <1>1, <1>2, <1>4, <1>5, <1>7, <2>1 DEF TypeOK, LogRegion, Places, Bank, Commit, Return
<1>10. FlashHolds'
  <2>1. Recent(bank, k, nextSeq', d + 1) /\ Order(bank, k, nextSeq', {1})
    BY <1>1, <1>3, <1>5, AllAge
  <2>2. {1} \subseteq AgesOf(pc', faulty')
    BY <1>1 DEF AgesOf
  <2>3. d + 1 <= RoomOf(mishaps', log', pc') /\ pc' # "down"
    BY <1>1, <1>7, <1>8
  <2>4. Recent(bank', log', nextSeq', d + 1) /\ Order(bank', log', nextSeq', {1})
    BY <1>1, <1>7, <2>1
  <2>5. QED
    BY <1>8, <1>9, <2>2, <2>3, <2>4, HoldsAgain
<1>11. Phases'
  BY <1>1 DEF Phases, Compacting, Settling
<1>12. /\ Stored' = ValueOf(NewestOf(bank, k))
       /\ Shadowed' <=> TakenBy(nextSeq', NewestOf(bank, k))
       /\ Stored = ValueOf(NewestOf(bank, log))
       /\ Shadowed <=> TakenBy(nextSeq, NewestOf(bank, log))
  BY <1>1, <1>7, StoredIs, StoredPrimed
<1>13. NewestOf(bank, k) = n => Stored' = v
  BY <1>4, <1>12 DEF ValueOf
<1>14. CutsOnlyDelay'
  <2>1. ~faulty => latest' = Stored'
    BY <1>2, <1>5, <1>13
  <2>2. QED
    BY <1>1, <2>1 DEF CutsOnlyDelay, OnlyFaultsRefuse, GetIsStored
<1>15. /\ ~Shadow'
       /\ Stored' \in pending \/ (Shadow /\ Stored' = Stored)
  <2>1. CASE NewestOf(bank, k) = n
    <3>1. ~TakenBy(nextSeq', n)
      BY <1>1, <1>3, <1>4, TakenIs
    <3>2. QED
      BY <1>12, <1>13, <2>1, <3>1 DEF Shadow
  <2>2. CASE /\ IsRecord(NewestOf(bank, log)) /\ NewestOf(bank, log).seq = nextSeq
             /\ NewestOf(bank, k) = NewestOf(bank, log)
    <3>1. /\ TakenBy(nextSeq, NewestOf(bank, log))
          /\ ~TakenBy(nextSeq', NewestOf(bank, log))
      BY <1>1, <1>3, <2>2, TakenIs
    <3>2. QED
      BY <1>1, <1>12, <2>2, <3>1 DEF Shadow
  <2>3. QED
    BY <1>5, <2>1, <2>2 DEF NewOrSame
<1>16. RegisterStep
  BY <1>1, <1>15, Acknowledges
<1>17. Kept
  BY <1>5, <1>13 DEF Kept
<1>18. QED
  BY <1>9, <1>10, <1>11, <1>14, <1>16, <1>17 DEF UpgradeInv

(* The bank for the snapshot is erased, or has its body written.             *)
LEMMA DestStep ==
  ASSUME WideForAll, UpgradeInv, UNCHANGED faulty, NEW s \in {Erased, Hole}, NEW next,
         \/ pc = "eraseDest" /\ next = "snapBody"
         \/ pc = "snapBody" /\ next = "snapCommit",
         FlashStep(pc, next, InBank(dest, s), log)
  PROVE  UpgradeInv' /\ RegisterStep /\ Kept
<1> DEFINE d == RoomOf(mishaps, log, pc)
           C == InBank(dest, s)
<1>1. /\ TypeOK /\ Phases /\ FlashHolds /\ CutsOnlyDelay /\ pc' = next
      /\ faulty' = faulty /\ bank' = C /\ log' = log /\ pending' = pending /\ reply' = reply
      /\ nextSeq' = nextSeq /\ mishaps' = mishaps /\ dest' = dest /\ latest' = latest
  BY DEF UpgradeInv, FlashStep
<1>2. s \in Slot /\ ~IsRecord(s)
  BY SlotKinds
<1>3. /\ C \in [Bank -> Slot] /\ Recent(C, log, nextSeq, d)
      /\ Order(C, log, nextSeq, AgesOf(pc, faulty)) /\ SameNewest(bank, log, C, log)
  BY <1>1, <1>2, DestCleared
<1>4. d \in Nat /\ C[dest] = s /\ pc # "down"
  BY <1>1, InUse, Slots
<1>5. d <= RoomOf(mishaps', log', pc')
  <2>1. d = RoomOf(mishaps', log', pc')
    BY <1>1 DEF RoomOf
  <2> HIDE DEF d
  <2>2. QED
    BY <1>4, <2>1
<1> HIDE DEF d, C
<1>6. TypeOK'
  BY <1>1, <1>3 DEF TypeOK, FlashPC, FlashStep
<1>7. FlashHolds'
  <2>1. AgesOf(pc, faulty) \subseteq AgesOf(pc', faulty') /\ pc' # "down"
    BY <1>1 DEF AgesOf
  <2>2. QED
    BY <1>1, <1>3, <1>4, <1>5, <1>6, <2>1, HoldsAgain
<1>8. Stored' = Stored /\ (Shadow' <=> Shadow)
  BY <1>1, <1>3, <1>4, SameStored
<1>9. Phases'
  <2>1. ~IsRecord(bank'[dest'])
    BY <1>1, <1>2, <1>4
  <2>2. QED
    BY <1>1, <2>1 DEF Phases, Compacting, Settling
<1>10. CutsOnlyDelay'
  BY <1>1 DEF CutsOnlyDelay, OnlyFaultsRefuse, GetIsStored
<1>11. RegisterStep
  BY <1>1, <1>8, Stutters
<1>12. QED
  BY <1>1, <1>6, <1>7, <1>9, <1>10, <1>11 DEF UpgradeInv, Kept

LEMMA SnapCommitStep ==
  ASSUME WideForAll, UpgradeInv, SnapCommit, UNCHANGED faulty
  PROVE  UpgradeInv' /\ RegisterStep /\ Kept
<1> DEFINE d == RoomOf(mishaps, log, pc)
           n == TheRecord(latest)
           C == InBank(dest, n)
<1>1. /\ TypeOK /\ Phases /\ FlashHolds /\ CutsOnlyDelay /\ pc = "snapCommit" /\ pc' = "eraseOld"
      /\ faulty' = faulty /\ bank' = C /\ log' = log /\ pending' = pending /\ reply' = reply
      /\ nextSeq' = nextSeq /\ mishaps' = mishaps /\ dest' = dest /\ latest' = latest
  BY DEF UpgradeInv, SnapCommit, FlashStep
<1>2. /\ latest \in pending /\ C \in [Bank -> Slot]
      /\ Recent(C, log, nextSeq, d) /\ Order(C, log, nextSeq, {0})
      /\ NewOrSame(bank, log, C, log, nextSeq, n)
  BY <1>1, SnapshotTaken
<1>3. latest \in Value /\ n = [seq |-> nextSeq, val |-> latest] /\ n \in Slot
  BY <1>1, <1>2, Pending DEF TheRecord
<1>4. d \in Nat /\ C[dest] = n /\ nextSeq \in SeqNum
  BY <1>1, <1>3, InUse, Slots
<1>5. d <= RoomOf(mishaps', log', pc')
  <2>1. d = RoomOf(mishaps', log', pc')
    BY <1>1 DEF RoomOf
  <2> HIDE DEF d
  <2>2. QED
    BY <1>4, <2>1
<1>6. TheRecord(latest)' = n
  BY <1>1 DEF TheRecord
<1> HIDE DEF d, n, C
<1>7. TypeOK'
  BY <1>1, <1>2 DEF TypeOK, FlashPC, SnapCommit, FlashStep
<1>8. FlashHolds'
  <2>1. {0} \subseteq AgesOf(pc', faulty')
    BY <1>1 DEF AgesOf
  <2>2. QED
    BY <1>1, <1>2, <1>4, <1>5, <1>7, <2>1, HoldsAgain
<1>9. Phases'
  <2>1. bank'[dest'] = TheRecord(latest)'
    BY <1>1, <1>4, <1>6
  <2>2. QED
    BY <1>1, <2>1 DEF Phases, Compacting, Settling
<1>10. CutsOnlyDelay'
  BY <1>1 DEF CutsOnlyDelay, OnlyFaultsRefuse, GetIsStored
<1>11. RegisterStep
  <2>1. CASE NewestOf(C, log) = n
    <3>1. NewestOf(bank', log') = [seq |-> nextSeq, val |-> latest]
      BY <1>1, <1>3, <2>1
    <3>2. Stored' = latest /\ Shadow'
      BY <1>1, <1>3, <1>4, <3>1, NewStored
    <3>3. QED
      BY <1>1, <1>2, <3>2, Takes
  <2>2. CASE NewestOf(C, log) = NewestOf(bank, log)
    <3>1. SameNewest(bank, log, bank', log')
      BY <1>1, <2>2 DEF SameNewest
    <3>2. Stored' = Stored /\ (Shadow' <=> Shadow)
      BY <1>1, <3>1, SameStored
    <3>3. QED
      BY <1>1, <3>2, Stutters
  <2>3. QED
    BY <1>2, <2>1, <2>2 DEF NewOrSame
<1>12. QED
  BY <1>1, <1>7, <1>8, <1>9, <1>10, <1>11 DEF UpgradeInv, Kept

(* The old bank or the first sector of the log goes.                         *)
LEMMA OldStep ==
  ASSUME WideForAll, UpgradeInv, UNCHANGED faulty, NEW next,
         \/ pc = "eraseOld" /\ next = "eraseFirst"
         \/ pc = "eraseFirst" /\ next = "eraseSecond",
         NEW C \in [Bank -> Slot], NEW k \in LogRegion, FlashStep(pc, next, C, k),
         C[dest] = bank[dest], C[Other(dest)] = Erased,
         \A i \in Places : IsRecord(k[i]) => k[i] = log[i],
         next = "eraseSecond" => \A i \in 1 .. Straddle - 1 : k[i] = Erased,
         next = "eraseFirst" => k = log
  PROVE  UpgradeInv' /\ RegisterStep /\ Kept
<1> DEFINE d == RoomOf(mishaps, log, pc)
           n == TheRecord(latest)
<1>1. /\ TypeOK /\ Phases /\ FlashHolds /\ CutsOnlyDelay /\ pc' = next
      /\ faulty' = faulty /\ bank' = C /\ log' = k /\ pending' = pending /\ reply' = reply
      /\ nextSeq' = nextSeq /\ mishaps' = mishaps /\ dest' = dest /\ latest' = latest
  BY DEF UpgradeInv, FlashStep
<1>2. Settling /\ bank[dest] = n
  BY <1>1 DEF Settling, Phases
<1>3. /\ latest \in pending /\ Recent(C, k, nextSeq, d) /\ Order(C, k, nextSeq, {0})
      /\ NewestOf(C, k) = n
  BY <1>1, <1>2, SlotKinds, OldCleared
<1>4. latest \in Value /\ n = [seq |-> nextSeq, val |-> latest]
  BY <1>1, <1>3, Pending DEF TheRecord
<1>5. /\ d \in Nat /\ nextSeq \in SeqNum /\ pc # "down"
      /\ mishaps \in 0 .. MaxMishaps /\ mishaps \in Nat
  BY <1>1, InUse, LogSizes
<1>6. d <= RoomOf(mishaps', log', pc')
  <2>1. CASE next = "eraseFirst"
    <3>1. d = RoomOf(mishaps', log', pc')
      BY <1>1, <2>1 DEF RoomOf
    <3> HIDE DEF d
    <3>2. QED
      BY <1>5, <3>1
  <2>2. CASE next = "eraseSecond"
    <3>1. Bound(mishaps) \in Nat /\ Free(log) \in Nat
      BY <1>5, BoundIs, FreeIs, LogSizes
    <3>2. d = Bound(mishaps) - Free(log) /\ RoomOf(mishaps', log', pc') = Bound(mishaps)
      BY <1>1, <2>2, <3>1 DEF RoomOf
    <3> HIDE DEF d
    <3>3. QED
      BY <3>1, <3>2
  <2>3. QED
    BY <2>1, <2>2
<1>7. TheRecord(latest)' = n
  BY <1>1 DEF TheRecord
<1> HIDE DEF d, n
<1>8. TypeOK'
  BY <1>1 DEF TypeOK, FlashPC, FlashStep, LogRegion, Places
<1>9. FlashHolds'
  <2>1. {0} \subseteq AgesOf(pc', faulty') /\ pc' # "down"
    BY <1>1 DEF AgesOf
  <2>2. QED
    BY <1>1, <1>3, <1>5, <1>6, <1>8, <2>1, HoldsAgain
<1>10. Phases'
  <2>1. /\ bank'[dest'] = TheRecord(latest)' /\ bank'[Other(dest')] = Erased
        /\ next = "eraseSecond" => \A i \in 1 .. Straddle - 1 : log'[i] = Erased
    BY <1>1, <1>2, <1>7
  <2>2. Other(dest)' = Other(dest')
    BY DEF Other
  <2>3. QED
    BY <1>1, <2>1, <2>2 DEF Phases, Compacting, Settling
<1>11. CutsOnlyDelay'
  BY <1>1 DEF CutsOnlyDelay, OnlyFaultsRefuse, GetIsStored
<1>12. RegisterStep
  <2>1. NewestOf(bank', log') = [seq |-> nextSeq, val |-> latest] /\ pc' # "down"
    BY <1>1, <1>3, <1>4
  <2>2. Stored' = latest /\ Shadow'
    BY <1>1, <1>4, <1>5, <2>1, NewStored
  <2>3. QED
    BY <1>1, <1>3, <2>2, Takes
<1>13. QED
  BY <1>1, <1>8, <1>9, <1>10, <1>11, <1>12 DEF UpgradeInv, Kept

LEMMA EraseOldStep ==
  ASSUME WideForAll, UpgradeInv, EraseOld, UNCHANGED faulty
  PROVE  UpgradeInv' /\ RegisterStep /\ Kept
<1> DEFINE C == InBank(Other(dest), Erased)
<1>1. TypeOK /\ pc = "eraseOld" /\ FlashStep(pc, "eraseFirst", C, log)
  BY DEF UpgradeInv, EraseOld, FlashStep
<1>2. log \in LogRegion /\ dest \in Bank /\ Other(dest) \in Bank /\ Other(dest) # dest
  BY <1>1, Slots DEF Other, Bank
<1>3. C \in [Bank -> Slot] /\ C[dest] = bank[dest] /\ C[Other(dest)] = Erased
  BY <1>1, <1>2, Slots, SlotKinds
<1> HIDE DEF C
<1>4. QED
  BY <1>1, <1>2, <1>3, OldStep

LEMMA EraseFirstStep ==
  ASSUME WideForAll, UpgradeInv, EraseFirst, UNCHANGED faulty
  PROVE  UpgradeInv' /\ RegisterStep /\ Kept
<1> DEFINE k == FirstSectorErased
<1>1. TypeOK /\ Phases /\ pc = "eraseFirst" /\ FlashStep(pc, "eraseSecond", bank, k)
  BY DEF UpgradeInv, EraseFirst, FlashStep
<1>2. log \in LogRegion /\ bank \in [Bank -> Slot] /\ bank[Other(dest)] = Erased
  BY <1>1, Slots DEF Phases, Settling
<1>3. Straddle \in Places /\ LogSlots \in Nat
  BY LogSizes
<1>4. \A i \in Places : k[i] = IF i < Straddle THEN Erased
                               ELSE IF i = Straddle /\ log[i] # Erased THEN Hole ELSE log[i]
  BY DEF FirstSectorErased, Places
<1>5. k \in LogRegion
  <2>1. \A i \in Places : k[i] \in Slot
    BY <1>2, <1>4, SlotKinds DEF LogRegion
  <2>2. k = [i \in Places |-> k[i]]
    BY DEF FirstSectorErased, Places
  <2> HIDE DEF k
  <2>3. QED
    BY <2>1, <2>2 DEF LogRegion
<1> HIDE DEF k
<1>6. \A i \in Places : IsRecord(k[i]) => k[i] = log[i]
  BY <1>4, SlotKinds
<1>7. \A i \in 1 .. Straddle - 1 : k[i] = Erased
  <2>1. \A i \in 1 .. Straddle - 1 : i \in Places /\ i < Straddle
    BY <1>3 DEF Places
  <2>2. QED
    BY <1>4, <2>1
<1>8. QED
  BY <1>1, <1>2, <1>5, <1>6, <1>7, OldStep

LEMMA EraseSecondStep ==
  ASSUME WideForAll, UpgradeInv, EraseSecond, UNCHANGED faulty
  PROVE  UpgradeInv' /\ RegisterStep /\ Kept
<1> DEFINE n == TheRecord(latest)
           next == NextSeq(nextSeq)
<1>1. /\ TypeOK /\ Phases /\ FlashHolds /\ CutsOnlyDelay /\ pc = "eraseSecond" /\ pc' = "find"
      /\ faulty' = faulty /\ bank' = bank /\ pending' = pending /\ reply' = reply
      /\ nextSeq' = next /\ mishaps' = mishaps /\ log' = SecondSectorErased
  BY DEF UpgradeInv, EraseSecond
<1>2. log' = Blank
  <2>1. \A i \in 1 .. LogSlots : i < Straddle => i \in 1 .. Straddle - 1
    BY LogSizes DEF Places
  <2>2. \A i \in 1 .. LogSlots : i < Straddle => log[i] = Erased
    BY <1>1, <2>1 DEF Phases
  <2>3. SecondSectorErased = [i \in 1 .. LogSlots |-> Erased]
    BY <2>2 DEF SecondSectorErased
  <2>4. QED
    BY <1>1, <2>3 DEF Blank
<1>3. Settling /\ bank[dest] = n /\ bank[Other(dest)] = Erased /\ dest \in Bank
  BY <1>1 DEF Settling, Phases, TypeOK
<1>4. latest \in pending /\ NewestOf(bank, Blank) = n
  BY <1>1, <1>3, SlotKinds, BlankIs, OldCleared
<1>5. latest \in Value /\ n.seq = nextSeq /\ n.val = latest /\ IsRecord(n)
  BY <1>1, <1>4, Pending
<1>6. nextSeq \in SeqNum /\ mishaps \in Nat /\ next \in SeqNum
  <2>1. nextSeq \in SeqNum /\ mishaps \in Nat
    BY <1>1, LogSizes DEF TypeOK
  <2>2. QED
    BY <2>1, NextSeqIs
<1> HIDE DEF n, next
<1>7. Recent(bank, Blank, nextSeq, 0)
  <2>1. \A b \in Bank : b = dest \/ b = Other(dest)
    BY <1>3 DEF Bank, Other
  <2>2. ASSUME NEW b \in Bank, IsRecord(bank[b])
        PROVE  Age(nextSeq, bank[b].seq) <= 0
    <3>1. bank[b] = n
      BY <1>3, <2>1, <2>2, SlotKinds
    <3>2. Age(nextSeq, bank[b].seq) = 0
      BY <1>5, <1>6, <3>1, AgeZero
    <3>3. QED
      BY <3>2
  <2>3. QED
    BY <2>2, BlankIs DEF Recent
<1>8. Order(bank, Blank, nextSeq, {0})
  <2>1. 2 * 0 < SeqMod /\ 0 \in Nat
    BY LogSizes
  <2>2. ~IsRecord(bank[Other(dest)]) /\ IsRecord(bank[dest]) /\ bank[dest].seq = nextSeq
    BY <1>3, <1>5, SlotKinds
  <2>3. QED
    BY <1>3, <1>6, <1>7, <2>1, <2>2, BlankIs, OnlySnapshot
<1>9. Recent(bank, Blank, next, 1) /\ Order(bank, Blank, next, {1})
  <2>1. 2 * 0 < SeqMod /\ 0 \in Nat /\ 0 + 1 = 1
    BY LogSizes
  <2>2. QED
    BY <1>6, <1>7, <1>8, <2>1, AllAge DEF next
<1>10. 1 <= RoomOf(mishaps, Blank, "find")
  <2>1. /\ Bound(mishaps) \in Nat /\ Bound(mishaps) >= LogSlots + 1
        /\ Free(Blank) \in 0 .. LogSlots /\ LogSlots \in Nat
    BY <1>6, BoundIs, FreeIs, LogSizes
  <2>2. QED
    BY <2>1 DEF RoomOf
<1>11. TypeOK'
  BY <1>1, <1>2, <1>6, BlankIs DEF TypeOK, EraseSecond, LogRegion, Places
<1>12. FlashHolds'
  <2>1. {1} \subseteq AgesOf(pc', faulty') /\ pc' # "down" /\ 1 \in Nat
    BY <1>1 DEF AgesOf
  <2>2. /\ 1 <= RoomOf(mishaps', log', pc')
        /\ Recent(bank', log', nextSeq', 1) /\ Order(bank', log', nextSeq', {1})
    BY <1>1, <1>2, <1>9, <1>10
  <2>3. QED
    BY <1>11, <2>1, <2>2, HoldsAgain
<1>13. Phases'
  <2>1. Blank' = Blank
    BY DEF Blank
  <2>2. QED
    BY <1>1, <1>2, <2>1 DEF Phases, Compacting, Settling
<1>14. CutsOnlyDelay'
  BY <1>1 DEF CutsOnlyDelay, OnlyFaultsRefuse, GetIsStored
<1>15. RegisterStep
  <2>1. Stored' = latest
    BY <1>1, <1>2, <1>4, <1>5, StoredPrimed DEF ValueOf
  <2>2. Stored = latest
    <3>1. log \in LogRegion
      BY <1>1, Slots
    <3>2. NewestOf(bank, log) = n
      BY <1>1, <1>3, <3>1, SlotKinds, OldCleared DEF n
    <3>3. QED
      BY <1>5, <3>2, StoredIs DEF ValueOf
  <2>3. ~Shadow'
    <3>1. ~TakenBy(next, n)
      BY <1>5, <1>6, TakenIs DEF next
    <3>2. QED
      BY <1>1, <1>2, <1>4, <3>1, StoredPrimed DEF Shadow
  <2>4. QED
    BY <1>1, <1>4, <2>1, <2>2, <2>3, Settles
<1>16. QED
  BY <1>1, <1>11, <1>12, <1>13, <1>14, <1>15 DEF UpgradeInv, Kept

(* What a mishap leaves in the Flash.                                        *)
LEMMA MishapLeaves ==
  ASSUME WideForAll, TypeOK, Phases, FlashHolds, pc # "down", mishaps < MaxMishaps,
         \E f \in Interrupted : bank' = f[1] /\ log' = f[2]
  PROVE  LET d == RoomOf(mishaps, log, pc) IN
         /\ bank' \in [Bank -> Slot] /\ log' \in LogRegion
         /\ nextSeq \in SeqNum /\ d \in Nat /\ 2 * d < SeqMod
         /\ mishaps \in Nat /\ mishaps + 1 \in 0 .. MaxMishaps
         /\ Recent(bank', log', nextSeq, d) /\ Order(bank', log', nextSeq, {0, 1})
         /\ \/ SameNewest(bank, log, bank', log')
            \/ \E v \in pending : v \in Value /\ NewestOf(bank', log') = [seq |-> nextSeq, val |-> v]
<1>1. PICK f \in Interrupted : bank' = f[1] /\ log' = f[2]
  OBVIOUS
<1>2. Harmless(f[1], f[2])
  BY AfterMishap
<1>3. mishaps \in Nat /\ mishaps + 1 \in 0 .. MaxMishaps
  BY LogSizes DEF TypeOK
<1>4. Damaged(bank, log, bank', log', nextSeq, RoomOf(mishaps, log, pc), pending)
  BY <1>1, <1>2 DEF Harmless
<1>5. QED
  BY <1>3, <1>4, InUse DEF Damaged

LEMMA FailStep ==
  ASSUME WideForAll, UpgradeInv, Fail, UNCHANGED faulty
  PROVE  UpgradeInv' /\ RegisterStep /\ Kept
<1> DEFINE d == RoomOf(mishaps, log, pc)
<1>1. /\ TypeOK /\ Phases /\ FlashHolds /\ CutsOnlyDelay /\ pc \in FlashPC /\ pc' = "idle"
      /\ pc # "down" /\ faulty /\ faulty' = faulty /\ pending' = {} /\ reply' = "error" /\ nextSeq' = nextSeq
      /\ mishaps < MaxMishaps /\ mishaps' = mishaps + 1 /\ retried' = FALSE /\ pending # {}
      /\ latest' = latest /\ dest' = "A"
      /\ \E f \in Interrupted : bank' = f[1] /\ log' = f[2]
  BY DEF UpgradeInv, Fail, Return, FlashPC, Phases
<1>2. /\ bank' \in [Bank -> Slot] /\ log' \in LogRegion
      /\ nextSeq \in SeqNum /\ d \in Nat
      /\ mishaps \in Nat /\ mishaps + 1 \in 0 .. MaxMishaps
      /\ Recent(bank', log', nextSeq, d) /\ Order(bank', log', nextSeq, {0, 1})
      /\ \/ SameNewest(bank, log, bank', log')
         \/ \E v \in pending : v \in Value /\ NewestOf(bank', log') = [seq |-> nextSeq, val |-> v]
  BY <1>1, MishapLeaves
<1>3. TypeOK'
  BY <1>1, <1>2 DEF TypeOK, Bank, LogRegion, Places
<1>4. d <= RoomOf(mishaps', log', pc')
  <2>1. d + 1 <= RoomOf(mishaps + 1, log', "idle")
    BY <1>1, <1>2, RoomGrows
  <2>2. RoomOf(mishaps + 1, log', "idle") \in Nat
    BY <1>2, RoomIs
  <2> HIDE DEF d
  <2>3. QED
    BY <1>1, <1>2, <2>1, <2>2
<1> HIDE DEF d
<1>5. FlashHolds'
  <2>1. {0, 1} \subseteq AgesOf(pc', faulty') /\ pc' # "down"
    BY <1>1 DEF AgesOf
  <2>2. QED
    BY <1>1, <1>2, <1>3, <1>4, <2>1, HoldsAgain
<1>6. Phases'
  BY <1>1 DEF Phases, Compacting, Settling
<1>7. CutsOnlyDelay'
  BY <1>1 DEF CutsOnlyDelay, OnlyFaultsRefuse, GetIsStored
<1>8. RegisterStep
  <2>1. CASE SameNewest(bank, log, bank', log')
    <3>1. Stored' = Stored /\ (Shadow' <=> Shadow)
      BY <1>1, <2>1, SameStored
    <3>2. QED
      BY <1>1, <3>1, Refuses
  <2>2. ASSUME NEW v \in pending, v \in Value, NewestOf(bank', log') = [seq |-> nextSeq, val |-> v]
        PROVE  RegisterStep
    <3>1. Stored' = v /\ Shadow'
      BY <1>1, <1>2, <2>2, NewStored
    <3>2. QED
      BY <1>1, <3>1, Refuses
  <2>3. QED
    BY <1>2, <2>1, <2>2
<1>9. QED
  BY <1>1, <1>3, <1>5, <1>6, <1>7, <1>8 DEF UpgradeInv, Kept

LEMMA CrashStep ==
  ASSUME WideForAll, UpgradeInv, Crash, UNCHANGED faulty
  PROVE  UpgradeInv' /\ RegisterStep /\ Kept
<1> DEFINE d == RoomOf(mishaps, log, pc)
           e == RoomOf(mishaps', log', pc')
<1>1. /\ TypeOK /\ Phases /\ FlashHolds /\ CutsOnlyDelay /\ pc # "down" /\ pc' = "down"
      /\ faulty' = faulty /\ pending' = {} /\ reply' = "none" /\ nextSeq' = 1
      /\ mishaps < MaxMishaps /\ mishaps' = mishaps + 1 /\ retried' = FALSE
      /\ latest' = Empty /\ dest' = "A"
      /\ \E f \in Interrupted : bank' = f[1] /\ log' = f[2]
  BY DEF UpgradeInv, Crash
<1>2. /\ bank' \in [Bank -> Slot] /\ log' \in LogRegion
      /\ nextSeq \in SeqNum /\ d \in Nat /\ 2 * d < SeqMod
      /\ mishaps \in Nat /\ mishaps + 1 \in 0 .. MaxMishaps
      /\ Recent(bank', log', nextSeq, d) /\ Order(bank', log', nextSeq, {0, 1})
      /\ \/ SameNewest(bank, log, bank', log')
         \/ \E v \in pending : v \in Value /\ NewestOf(bank', log') = [seq |-> nextSeq, val |-> v]
  BY <1>1, MishapLeaves
<1>3. TypeOK'
  BY <1>1, <1>2, LogSizes DEF TypeOK, Bank, LogRegion, Places
<1>4. d + 1 <= e /\ e \in Nat
  <2>1. d + 1 <= RoomOf(mishaps + 1, log', "down")
    BY <1>1, <1>2, RoomGrows
  <2>2. RoomOf(mishaps + 1, log', "down") \in Nat
    BY <1>2, RoomIs
  <2> HIDE DEF d
  <2>3. QED
    BY <1>1, <2>1, <2>2
<1> HIDE DEF d, e
<1>5. \E top \in SeqNum : Recent(bank', log', top, e) /\ Order(bank', log', top, {1})
  <2>1. CASE Order(bank', log', nextSeq, {0})
    <3>1. /\ NextSeq(nextSeq) \in SeqNum /\ Recent(bank', log', NextSeq(nextSeq), d + 1)
          /\ Order(bank', log', NextSeq(nextSeq), {1})
      BY <1>2, <2>1, AllAge
    <3>2. d + 1 \in Nat
      BY <1>2
    <3>3. Recent(bank', log', NextSeq(nextSeq), e)
      BY <1>4, <3>1, <3>2, RecentMore
    <3>4. QED
      BY <3>1, <3>3
  <2>2. CASE Order(bank', log', nextSeq, {1})
    <3>1. d <= e
      BY <1>2, <1>4
    <3>2. Recent(bank', log', nextSeq, e)
      BY <1>2, <1>4, <3>1, RecentMore
    <3>3. QED
      BY <1>2, <2>2, <3>2
  <2>3. QED
    BY <1>2, <2>1, <2>2, AgesSplit
<1>6. FlashHolds'
  BY <1>1, <1>5 DEF FlashHolds, FlashAt, AgesOf, e
<1>7. Phases'
  BY <1>1 DEF Phases, Compacting, Settling
<1>8. CutsOnlyDelay'
  BY <1>1 DEF CutsOnlyDelay, OnlyFaultsRefuse, GetIsStored
<1>9. Stored' \in {Stored} \cup pending
  <2>1. CASE SameNewest(bank, log, bank', log')
    BY <2>1, StoredIs, StoredPrimed DEF SameNewest, ValueOf
  <2>2. ASSUME NEW v \in pending, v \in Value, NewestOf(bank', log') = [seq |-> nextSeq, val |-> v]
        PROVE  Stored' = v
    <3>1. IsRecord(NewestOf(bank', log')) /\ NewestOf(bank', log').val = v
      BY <1>2, <2>2 DEF IsRecord, Record
    <3>2. QED
      BY <3>1, StoredPrimed DEF ValueOf
  <2>3. QED
    BY <1>2, <2>1, <2>2
<1>10. RegisterStep
  BY <1>1, <1>9, Restarts DEF Shadow
<1>11. QED
  BY <1>1, <1>3, <1>6, <1>7, <1>8, <1>10 DEF UpgradeInv, Kept

LEMMA StutterStep ==
  ASSUME UpgradeInv, UNCHANGED vars
  PROVE  UpgradeInv' /\ RegisterStep /\ Kept
<1>1. /\ TypeOK /\ Phases /\ FlashHolds /\ CutsOnlyDelay
      /\ bank' = bank /\ log' = log /\ pc' = pc /\ nextSeq' = nextSeq /\ mishaps' = mishaps
      /\ faulty' = faulty /\ pending' = pending /\ reply' = reply /\ latest' = latest
      /\ dest' = dest /\ retried' = retried
  BY DEF UpgradeInv, vars
<1>2. TypeOK'
  BY <1>1 DEF TypeOK
<1>3. FlashHolds'
  BY <1>1 DEF FlashHolds
<1>4. Phases'
  <2>1. Active' = Active /\ Cursor(log') = Cursor(log) /\ Blank' = Blank
    BY <1>1 DEF Active, Blank
  <2>2. \A v : TheRecord(v)' = TheRecord(v)
    BY <1>1 DEF TheRecord
  <2>3. TheRecord(latest)' = TheRecord(latest)
    BY <1>1 DEF TheRecord
  <2>4. QED
    BY <1>1, <2>1, <2>3 DEF Phases, Compacting, Settling
<1>5. Stored' = Stored /\ (Shadowed' <=> Shadowed)
  BY <1>1, StoredIs, StoredPrimed
<1>6. CutsOnlyDelay'
  BY <1>1, <1>5 DEF CutsOnlyDelay, OnlyFaultsRefuse, GetIsStored
<1>7. RegisterStep
  BY <1>1, <1>5, Stutters DEF Shadow
<1>8. QED
  BY <1>1, <1>2, <1>3, <1>4, <1>6, <1>7 DEF UpgradeInv, Kept

LEMMA UpgradeStep ==
  ASSUME WideForAll, ~BankReadFaults, UpgradeInv, [Next]_vars
  PROVE  UpgradeInv' /\ RegisterStep /\ Kept
<1> USE DEF Step
<1>1. CASE UNCHANGED vars
  BY <1>1, StutterStep
<1>2. CASE Next
  <2>1. faulty' = faulty /\ Step
    BY <1>2 DEF Next
  <2>2. CASE Boot
    BY <2>1, <2>2, BootStep
  <2>3. ASSUME NEW v \in Value, Begin(v)
        PROVE  UpgradeInv' /\ RegisterStep /\ Kept
    BY <2>1, <2>3, BeginStep
  <2>4. CASE FindRoom
    BY <2>1, <2>4, FindRoomStep
  <2>5. CASE FindFull
    BY <2>1, <2>5, FindFullStep
  <2>6. CASE FindUnreadable
    BY <2>1, <2>6, FindUnreadableStep
  <2>7. CASE WriteBody
    BY <2>1, <2>7, WriteBodyStep
  <2>8. CASE Commit
    BY <2>1, <2>8, CommitStep
  <2>9. CASE Pick
    BY <2>1, <2>9, PickStep
  <2>10. CASE EraseDest
    <3>1. pc = "eraseDest" /\ FlashStep(pc, "snapBody", InBank(dest, Erased), log)
      BY <2>10 DEF EraseDest, FlashStep
    <3>2. QED
      BY <2>1, <3>1, DestStep
  <2>11. CASE SnapBody
    <3>1. pc = "snapBody" /\ FlashStep(pc, "snapCommit", InBank(dest, Hole), log)
      BY <2>11 DEF SnapBody, FlashStep
    <3>2. QED
      BY <2>1, <3>1, DestStep
  <2>12. CASE SnapCommit
    BY <2>1, <2>12, SnapCommitStep
  <2>13. CASE EraseOld
    BY <2>1, <2>13, EraseOldStep
  <2>14. CASE EraseFirst
    BY <2>1, <2>14, EraseFirstStep
  <2>15. CASE EraseSecond
    BY <2>1, <2>15, EraseSecondStep
  <2>16. CASE Fail
    BY <2>1, <2>16, FailStep
  <2>17. CASE Crash
    BY <2>1, <2>17, CrashStep
  <2>18. QED
    BY <2>1, <2>2, <2>3, <2>4, <2>5, <2>6, <2>7, <2>8, <2>9, <2>10, <2>11, <2>12, <2>13,
       <2>14, <2>15, <2>16, <2>17
<1>3. QED
  BY <1>1, <1>2

LEMMA UpgradeInit ==
  ASSUME WideForAll, Init
  PROVE  UpgradeInv
<1>1. /\ log = Blank /\ pc = "down" /\ latest = Empty /\ nextSeq = 1 /\ pending = {}
      /\ dest = "A" /\ retried = FALSE /\ reply = "none" /\ mishaps = 0 /\ faulty \in BOOLEAN
  BY DEF Init
<1>2. \/ \A b \in Bank : bank[b] = Erased
      \/ \E s \in SeqNum, v \in Value :
            /\ bank["A"] = [seq |-> s, val |-> v]
            /\ \A b \in Bank : b # "A" => bank[b] = Erased
  BY LogAssumption DEF Init, Bank
<1>3. bank \in [Bank -> Slot]
  <2>1. ASSUME NEW s \in StartSeq, NEW v \in Value
        PROVE  [seq |-> s, val |-> v] \in Slot
    BY LogAssumption DEF Slot, Record
  <2>2. QED
    BY <2>1, SlotKinds DEF Init
<1>4. TypeOK
  <2>1. 0 \in 0 .. MaxMishaps /\ 1 \in SeqNum
    BY LogSizes
  <2>2. log \in [1 .. LogSlots -> Slot]
    BY <1>1, BlankIs DEF LogRegion, Places
  <2>3. QED
    BY <1>1, <1>3, <2>1, <2>2 DEF TypeOK, Bank
<1> DEFINE d == RoomOf(0, Blank, "down")
<1>5. d \in Nat /\ 1 <= d
  <2>1. /\ Bound(0) \in Nat /\ Bound(0) >= LogSlots + 1
        /\ Free(Blank) \in 0 .. LogSlots /\ LogSlots \in Nat
    BY BoundIs, FreeIs, LogSizes
  <2>2. QED
    BY <2>1 DEF RoomOf
<1> HIDE DEF d
<1>6. \E top \in SeqNum : Recent(bank, Blank, top, d) /\ Order(bank, Blank, top, {1})
  <2>1. CASE \A b \in Bank : bank[b] = Erased
    <3>1. NoRecords(bank, Blank)
      BY <2>1, BlankIs, SlotKinds DEF NoRecords
    <3>2. 0 \in SeqNum
      BY LogSizes
    <3>3. QED
      BY <3>1, <3>2 DEF Recent, Order, NoRecords
  <2>2. ASSUME NEW s \in SeqNum, NEW v \in Value, bank["A"] = [seq |-> s, val |-> v],
               \A b \in Bank : b # "A" => bank[b] = Erased
        PROVE  \E top \in SeqNum : Recent(bank, Blank, top, d) /\ Order(bank, Blank, top, {1})
    <3>1. bank["A"].seq = s /\ IsRecord(bank["A"]) /\ "A" \in Bank
      BY <2>2 DEF IsRecord, Record, Bank
    <3>2. \A b \in Bank : IsRecord(bank[b]) => b = "A"
      BY <2>2, SlotKinds
    <3>3. NextSeq(s) \in SeqNum /\ Age(NextSeq(s), s) = 1
      BY NextSeqIs, AgeNext
    <3>4. BankIsNewest(bank, Blank, NextSeq(s), "A")
      BY <3>1, <3>2, <3>3, BlankIs DEF BankIsNewest
    <3>5. Recent(bank, Blank, NextSeq(s), d)
      BY <1>5, <3>1, <3>2, <3>3, BlankIs DEF Recent
    <3>6. QED
      BY <3>1, <3>3, <3>4, <3>5 DEF Order
  <2>3. QED
    BY <1>2, <2>1, <2>2
<1>7. FlashHolds
  BY <1>1, <1>6 DEF FlashHolds, FlashAt, AgesOf, d
<1>8. Phases
  BY <1>1 DEF Phases, Compacting, Settling
<1>9. CutsOnlyDelay
  BY <1>1 DEF CutsOnlyDelay, OnlyFaultsRefuse, GetIsStored
<1>10. QED
  BY <1>4, <1>7, <1>8, <1>9 DEF UpgradeInv

LEMMA UpgradeAlways ==
  ASSUME WideForAll, ~BankReadFaults
  PROVE  Spec => []UpgradeInv
<1>1. Init => UpgradeInv
  BY UpgradeInit
<1>2. UpgradeInv /\ [Next]_vars => UpgradeInv'
  BY UpgradeStep
<1>3. QED
  BY <1>1, <1>2, PTL DEF Spec

LEMMA InvComparable ==
  ASSUME WideForAll, UpgradeInv
  PROVE  SequencesComparable
<1>1. TypeOK /\ log \in LogRegion /\ mishaps \in 0 .. MaxMishaps
  BY Slots DEF UpgradeInv, TypeOK
<1> DEFINE d == RoomOf(mishaps, log, pc)
           n == NewestOf(bank, log)
<1>2. PICK top \in SeqNum : Recent(bank, log, top, d) /\ Order(bank, log, top, AgesOf(pc, faulty))
  BY DEF UpgradeInv, FlashHolds, FlashAt
<1>3. d \in Nat /\ 2 * d < SeqMod
  BY <1>1, RoomIs
<1> HIDE DEF d, n
<1> DEFINE Older(r) == IsRecord(r) => IsRecord(n) /\ Age(top, n.seq) <= Age(top, r.seq)
<1>4. ASSUME NEW r \in {bank[b] : b \in Bank} \cup {log[i] : i \in Places}, IsRecord(r)
      PROVE  Age(top, r.seq) \in Nat /\ 2 * Age(top, r.seq) < SeqMod
  <2>1. Age(top, r.seq) <= d
    BY <1>2, <1>4 DEF Recent
  <2>2. Age(top, r.seq) \in Nat
    BY <1>4, SlotKinds, AgeNat
  <2>3. QED
    BY <1>3, <2>1, <2>2, LogSizes
<1>5. ASSUME NEW r \in {bank[b] : b \in Bank} \cup {log[i] : i \in Places}
      PROVE  Older(r)
  <2>1. CASE NoRecords(bank, log)
    BY <2>1 DEF NoRecords
  <2>2. ASSUME NEW b \in Bank, BankIsNewest(bank, log, top, b)
        PROVE  Older(r)
    <3>1. n = bank[b] /\ IsRecord(bank[b])
      BY <1>1, <1>2, <1>3, <2>2, FindsBank DEF n, BankIsNewest
    <3>2. ASSUME NEW c \in Bank, IsRecord(bank[c])
          PROVE  Age(top, bank[b].seq) <= Age(top, bank[c].seq)
      <4>1. Age(top, bank[b].seq) < Age(top, bank[c].seq) \/ Age(top, bank[b].seq) = Age(top, bank[c].seq)
        BY <2>2, <3>2 DEF BankIsNewest
      <4>2. Age(top, bank[b].seq) \in Nat /\ Age(top, bank[c].seq) \in Nat
        BY <1>4, <3>1, <3>2
      <4>3. QED
        BY <4>1, <4>2
    <3>3. \A i \in Places : IsRecord(log[i]) => Age(top, bank[b].seq) <= Age(top, log[i].seq)
      BY <2>2 DEF BankIsNewest
    <3>4. QED
      BY <3>1, <3>2, <3>3
  <2>3. ASSUME NEW i \in Places, LogIsNewest(bank, log, top, i)
        PROVE  Older(r)
    <3>1. n = log[i] /\ IsRecord(log[i])
      BY <1>1, <1>2, <1>3, <2>3, FindsLog DEF n, LogIsNewest
    <3>2. ASSUME NEW s \in {bank[b] : b \in Bank} \cup {log[j] : j \in Places}, IsRecord(s)
          PROVE  Age(top, log[i].seq) <= Age(top, s.seq)
      <4>1. Age(top, log[i].seq) < Age(top, s.seq) \/ Age(top, log[i].seq) = Age(top, s.seq)
        BY <2>3, <3>2 DEF LogIsNewest
      <4>2. Age(top, log[i].seq) \in Nat /\ Age(top, s.seq) \in Nat
        BY <1>4, <3>1, <3>2
      <4>3. QED
        BY <4>1, <4>2
    <3>3. QED
      BY <3>1, <3>2
  <2>4. QED
    BY <1>2, <2>1, <2>2, <2>3 DEF Order
<1>6. ASSUME NEW r \in {bank[b] : b \in Bank} \cup {log[i] : i \in Places}, IsRecord(r), IsRecord(n)
      PROVE  ~SeqIsNewer(r.seq, n.seq)
  <2>1. Age(top, n.seq) <= Age(top, r.seq)
    BY <1>5, <1>6
  <2>2. n.seq \in SeqNum /\ r.seq \in SeqNum
    BY <1>6, SlotKinds
  <2>3. Age(top, n.seq) \in Nat /\ Age(top, r.seq) \in Nat /\ 2 * Age(top, r.seq) < SeqMod
    BY <1>4, <1>6, <2>2, AgeNat
  <2>4. 2 * Age(top, n.seq) < SeqMod /\ ~(Age(top, r.seq) < Age(top, n.seq))
    BY <2>1, <2>3, LogSizes
  <2>5. QED
    BY <2>2, <2>3, <2>4, NewerIs
<1>7. Newest = n
  BY StoredIs DEF n
<1>8. QED
  BY <1>1, <1>6, <1>7 DEF SequencesComparable, Places

-----------------------------------------------------------------------------
(* However often the power is cut and writes and erases fail, the numbers of *)
(* the records in the log and in both banks of UpgradeLog stay close enough  *)
(* for Storage_SeqIsNewer: no record is newer than the one that LoadLatest   *)
(* finds (SequencesComparable).                                              *)
THEOREM NumbersStayComparable == WideForAll /\ ~BankReadFaults /\ Spec => []SequencesComparable
<1> SUFFICES ASSUME WideForAll, ~BankReadFaults
             PROVE  Spec => []SequencesComparable
  OBVIOUS
<1>1. Spec => []UpgradeInv
  BY UpgradeAlways
<1>2. UpgradeInv => SequencesComparable
  BY InvComparable
<1>3. QED
  BY <1>1, <1>2, PTL

(* Only a failing Flash makes an append of UpgradeLog fail, whatever a power *)
(* cut left behind, and while no call fails StorageUpgrade_Get answers       *)
(* between appends what the next Init would load (CutsOnlyDelay).            *)
THEOREM OnlyFaultsFail == WideForAll /\ ~BankReadFaults /\ Spec => []CutsOnlyDelay
<1> SUFFICES ASSUME WideForAll, ~BankReadFaults
             PROVE  Spec => []CutsOnlyDelay
  OBVIOUS
<1>1. Spec => []UpgradeInv
  BY UpgradeAlways
<1>2. UpgradeInv => CutsOnlyDelay
  BY DEF UpgradeInv
<1>3. QED
  BY <1>1, <1>2, PTL

(* As long as only the power fails, the payload of an append that returned   *)
(* OK is what the next StorageUpgrade_Init of UpgradeLog loads               *)
(* (CutsLoseNothing).                                                        *)
THEOREM PowerCutsAreHarmless == WideForAll /\ ~BankReadFaults /\ Spec => CutsLoseNothing
<1> SUFFICES ASSUME WideForAll, ~BankReadFaults
             PROVE  Spec => CutsLoseNothing
  OBVIOUS
<1>1. Spec => []UpgradeInv
  BY UpgradeAlways
<1>2. UpgradeInv /\ [Next]_vars => [~faulty /\ reply' = "ok" /\ reply # "ok" => Stored' \in pending]_vars
  BY UpgradeStep DEF Kept
<1>3. QED
  BY <1>1, <1>2, PTL DEF Spec, CutsLoseNothing

(* With power cuts, failing writes and failing erases at any point of an     *)
(* append or a compaction, the log of UpgradeLog implements the register of  *)
(* UpgradeRegister (ImplementsRegister).                                     *)
THEOREM LogImplementsRegister == WideForAll /\ ~BankReadFaults /\ Spec => ImplementsRegister
<1> SUFFICES ASSUME WideForAll, ~BankReadFaults
             PROVE  Spec => ImplementsRegister
  OBVIOUS
<1>1. Spec => []UpgradeInv
  BY UpgradeAlways
<1>2. Init => Register!Init
  <2>1. SUFFICES ASSUME Init
                 PROVE  Register!Init
    OBVIOUS
  <2>2. Stored \in Value \cup {Empty}
    BY StoredIs, SlotKinds DEF ValueOf
  <2>3. (pc # "down" /\ Shadowed) = FALSE
    <3>1. pc = "down"
      BY <2>1 DEF Init
    <3>2. QED
      BY <3>1, Zenon
  <2>4. pending = {}
    BY <2>1 DEF Init
  <2>5. QED
    BY <2>2, <2>3, <2>4, Zenon DEF Register!Init
<1>3. UpgradeInv /\ [Next]_vars => [Register!Next]_Register!vars
  <2>1. SUFFICES ASSUME UpgradeInv, [Next]_vars
                 PROVE  [Register!Next]_Register!vars
    OBVIOUS
  <2>2. RegisterStep
    BY <2>1, UpgradeStep
  <2>3. QED
    BY <2>2, Zenon DEF RegisterStep, Register!vars, Shadow
<1>4. QED
  BY <1>1, <1>2, <1>3, PTL DEF Spec, ImplementsRegister, Register!Spec

=============================================================================
