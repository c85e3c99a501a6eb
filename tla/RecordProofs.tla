---------------------------- MODULE RecordProofs ----------------------------
(* Proofs about regions of committed records: what FindLatest finds, and how *)
(* sequence numbers that wrap around compare, for every region and every     *)
(* range of sequence numbers.                                                *)
EXTENDS RecordRegion, Integers, FiniteSetTheorems, TLAPS

(* What holds at 0 and goes on holding holds up to n.                        *)
LEMMA Upward ==
    ASSUME NEW n \in Nat, NEW S, 0 \in S, \A i \in 1 .. n : i - 1 \in S => i \in S
    PROVE  0 .. n \subseteq S
<1> DEFINE Rest == (0 .. n) \ S
           Before == {0 .. i - 1 : i \in Rest}
<1> SUFFICES ASSUME Rest # {}
             PROVE  FALSE
  OBVIOUS
<1>1. Before \subseteq FiniteSubsetsOf(Nat) /\ Before # {}
  <2>1. ASSUME NEW i \in Rest
        PROVE  0 .. i - 1 \in FiniteSubsetsOf(Nat)
    <3>1. IsFiniteSet(0 .. i - 1)
      BY FS_Interval
    <3>2. 0 .. i - 1 \subseteq Nat
      OBVIOUS
    <3> QED
      BY <3>1, <3>2 DEF FiniteSubsetsOf
  <2> HIDE DEF Rest
  <2> QED
    BY <2>1
<1> HIDE DEF Before
<1>2. PICK u \in Before : \A v \in Before : ~(<<v, u>> \in StrictSubsetOrdering(Nat))
  BY <1>1, FS_StrictSubsetOrderingWellFounded, WFMin
<1>3. PICK i \in Rest : u = 0 .. i - 1
  BY DEF Before
<1>4. i - 1 \in Rest
  BY <1>3
<1>5. 0 .. i - 1 - 1 \in Before
  BY <1>4 DEF Before
<1>6. 0 .. i - 1 - 1 \subseteq 0 .. i - 1 /\ i - 1 \in 0 .. i - 1 /\ i - 1 \notin 0 .. i - 1 - 1
  BY <1>3, <1>4
<1>7. <<0 .. i - 1 - 1, u>> \in StrictSubsetOrdering(Nat)
  BY <1>3, <1>6 DEF StrictSubsetOrdering
<1> QED
  BY <1>2, <1>5, <1>7

-----------------------------------------------------------------------------
(* The scan *)

Stops(s) == s \in {Erased, Hole}

(* The best record behind slot p[1] when p[2] is the best before it.         *)
BestOf(r, p) ==
  IF /\ IsRecord(r[p[1]])
     /\ p[2] = 0 \/ SeqIsNewer(r[p[1]].seq, r[p[2]].seq)
  THEN p[1] ELSE p[2]

Turn(r, f, p) ==
  IF p[1] > Len(r) \/ Stops(r[p[1]]) THEN p[2] ELSE f[<<p[1] + 1, BestOf(r, p)>>]

Points(r, k) == (k .. Len(r) + 1) \X (0 .. Len(r))

(* f holds what the scan returns from slot k on.                             *)
Scan(r, k, f) == f = [p \in Points(r, k) |-> Turn(r, f, p)]

LEMMA BestIs ==
  ASSUME NEW r, NEW p, p[1] \in 1 .. Len(r), p[2] \in 0 .. Len(r), Len(r) \in Nat
  PROVE  BestOf(r, p) \in 0 .. Len(r)
BY DEF BestOf

LEMMA ScanExists ==
  ASSUME NEW r, Len(r) \in Nat
  PROVE  \E f : Scan(r, 1, f)
<1> DEFINE n == Len(r)
           S == {m \in 0 .. n : \E f : Scan(r, n + 1 - m, f)}
<1>1. 0 \in S
  <2> DEFINE f == [p \in Points(r, n + 1) |-> p[2]]
             e(p) == Turn(r, f, p)
  <2>1. ASSUME NEW p \in Points(r, n + 1)
        PROVE  f[p] = e(p)
    <3>1. p[1] = n + 1 /\ f[p] = p[2]
      BY DEF Points
    <3>2. QED
      BY <3>1 DEF Turn
  <2>2. f = [p \in Points(r, n + 1) |-> f[p]]
    OBVIOUS
  <2>3. f = [p \in Points(r, n + 1) |-> e(p)]
    <3> HIDE DEF f, e
    <3>1. QED
      BY <2>1, <2>2
  <2>4. Scan(r, n + 1, f)
    BY <2>3 DEF Scan
  <2>5. n + 1 - 0 = n + 1 /\ 0 \in 0 .. n
    OBVIOUS
  <2>6. QED
    BY <2>4, <2>5
<1>2. ASSUME NEW m \in 1 .. n, m - 1 \in S
      PROVE  m \in S
  <2> DEFINE k == n + 1 - m
  <2>1. k \in 1 .. n /\ n + 1 - (m - 1) = k + 1
    OBVIOUS
  <2>2. PICK f : Scan(r, k + 1, f)
    BY <1>2, <2>1
  <2> HIDE DEF k
  <2> DEFINE g == [p \in Points(r, k) |-> IF p[1] = k THEN Turn(r, f, p) ELSE f[p]]
             e(p) == Turn(r, g, p)
             d(p) == Turn(r, f, p)
  <2>3. f = [p \in Points(r, k + 1) |-> d(p)]
    BY <2>2 DEF Scan
  <2>4. ASSUME NEW p \in Points(r, k + 1)
        PROVE  p \in Points(r, k) /\ p[1] # k /\ g[p] = f[p] /\ f[p] = d(p)
    <3>1. p \in Points(r, k) /\ p[1] # k
      BY <2>1 DEF Points
    <3>2. g[p] = f[p]
      BY <3>1
    <3>3. f[p] = d(p)
      <4> HIDE DEF d
      <4>1. QED
        BY <2>3
    <3>4. QED
      BY <3>1, <3>2, <3>3
  <2>5. ASSUME NEW p \in Points(r, k), p[1] <= n
        PROVE  /\ <<p[1] + 1, BestOf(r, p)>> \in Points(r, k + 1)
               /\ d(p) = e(p)
    <3>1. p[1] \in 1 .. n /\ p[2] \in 0 .. n /\ p[1] + 1 \in k + 1 .. n + 1
      BY <2>1, <2>5 DEF Points
    <3>2. BestOf(r, p) \in 0 .. n
      BY <3>1, BestIs
    <3>3. <<p[1] + 1, BestOf(r, p)>> \in Points(r, k + 1)
      BY <3>1, <3>2 DEF Points
    <3>4. g[<<p[1] + 1, BestOf(r, p)>>] = f[<<p[1] + 1, BestOf(r, p)>>]
      BY <2>4, <3>3
    <3> HIDE DEF g
    <3>5. d(p) = e(p)
      BY <3>4 DEF Turn
    <3>6. QED
      BY <3>3, <3>5
  <2>6. ASSUME NEW p \in Points(r, k)
        PROVE  g[p] = e(p)
    <3>1. p[1] \in k .. n + 1 /\ p[2] \in 0 .. n /\ p = <<p[1], p[2]>>
      BY DEF Points
    <3>2. CASE p[1] = k
      <4>1. g[p] = d(p)
        BY <3>2
      <4>2. p[1] <= n
        BY <2>1, <3>2
      <4> HIDE DEF g, d, e
      <4>3. QED
        BY <2>5, <4>1, <4>2
    <3>3. CASE p[1] # k
      <4>1. p \in Points(r, k + 1)
        BY <2>1, <3>1, <3>3 DEF Points
      <4>2. g[p] = d(p)
        <5> HIDE DEF g, d
        <5>1. QED
          BY <2>4, <4>1
      <4>3. CASE p[1] <= n
        <5> HIDE DEF g, d, e
        <5>1. QED
          BY <2>5, <4>2, <4>3
      <4>4. CASE p[1] > n
        <5>1. d(p) = p[2] /\ e(p) = p[2]
          BY <4>4 DEF Turn
        <5> HIDE DEF g, d, e
        <5>2. QED
          BY <4>2, <5>1
      <4>5. QED
        BY <3>1, <4>3, <4>4
    <3>4. QED
      BY <3>2, <3>3
  <2>7. g = [p \in Points(r, k) |-> g[p]]
    OBVIOUS
  <2>8. g = [p \in Points(r, k) |-> e(p)]
    <3> HIDE DEF g, e
    <3>1. QED
      BY <2>6, <2>7
  <2>9. Scan(r, k, g)
    BY <2>8 DEF Scan
  <2>10. QED
    BY <2>9 DEF k
<1>3. n \in S
  <2>1. 0 .. n \subseteq S
    <3> HIDE DEF S
    <3>1. QED
      BY <1>1, <1>2, Upward
  <2>2. QED
    BY <2>1
<1>4. n + 1 - n = 1
  OBVIOUS
<1>5. QED
  BY <1>3, <1>4

LEMMA ScanIs ==
  ASSUME NEW r, Len(r) \in Nat
  PROVE  \E f : Scan(r, 1, f) /\ FindLatest(r) = f[<<1, 0>>]
<1> DEFINE f == CHOOSE f : Scan(r, 1, f)
<1>1. Scan(r, 1, f)
  <2>1. \E g : Scan(r, 1, g)
    BY ScanExists
  <2>2. QED
    BY <2>1, Zenon
<1>2. FindLatest(r) = f[<<1, 0>>]
  BY DEF FindLatest, Scan, Turn, BestOf, Points, Stops
<1>3. QED
  BY <1>1, <1>2

-----------------------------------------------------------------------------
(* Sequence numbers *)

(* How many records were numbered since the one with sequence number s, when *)
(* the next one gets the number top.                                         *)
Age(top, s) == (top + SeqMod - s) % SeqMod

LEMMA ModIs ==
  ASSUME NEW x \in 0 .. 2 * SeqMod - 1
  PROVE  x % SeqMod = IF x < SeqMod THEN x ELSE x - SeqMod
<1>1. SeqMod \in Nat /\ SeqMod > 2
  BY SeqModAssumption
<1>2. CASE x < SeqMod
  <2>1. x \in Nat /\ x < SeqMod
    BY <1>1, <1>2
  <2>2. x % SeqMod = x
    BY <1>1, <2>1, Z3
  <2>3. QED
    BY <1>2, <2>2
<1>3. CASE ~(x < SeqMod)
  <2> DEFINE q == x \div SeqMod
             m == x % SeqMod
  <2>1. x = SeqMod * q + m /\ m \in 0 .. SeqMod - 1 /\ q \in Int
    BY <1>1, Z3
  <2> HIDE DEF q, m
  <2>2. q = 1
    <3>1. CASE q <= 0
      <4>1. SeqMod * q <= 0
        BY <1>1, <2>1, <3>1
      <4>2. QED
        BY <1>1, <1>3, <2>1, <4>1
    <3>2. CASE q >= 2
      <4>1. SeqMod * q >= SeqMod * 2
        BY <1>1, <2>1, <3>2
      <4>2. QED
        BY <1>1, <2>1, <4>1
    <3>3. QED
      BY <2>1, <3>1, <3>2
  <2>3. m = x - SeqMod
    BY <1>1, <2>1, <2>2
  <2>4. QED
    BY <1>3, <2>3 DEF m
<1>4. QED
  BY <1>2, <1>3

LEMMA AgeIs ==
  ASSUME NEW top \in SeqNum, NEW s \in SeqNum
  PROVE  /\ Age(top, s) \in 0 .. SeqMod - 1
         /\ Age(top, s) = IF s <= top THEN top - s ELSE top + SeqMod - s
<1>1. SeqMod \in Nat /\ SeqMod > 2 /\ top \in Nat /\ s \in Nat /\ top < SeqMod /\ s < SeqMod
  BY SeqModAssumption DEF SeqNum
<1>2. top + SeqMod - s \in 0 .. 2 * SeqMod - 1
  BY <1>1
<1>3. Age(top, s) = IF top + SeqMod - s < SeqMod THEN top + SeqMod - s
                    ELSE (top + SeqMod - s) - SeqMod
  BY <1>2, ModIs DEF Age
<1>4. QED
  BY <1>1, <1>3

(* Of two numbers that are recent enough the one of less age is newer.       *)
LEMMA NewerIs ==
  ASSUME NEW top \in SeqNum, NEW a \in SeqNum, NEW b \in SeqNum,
         2 * Age(top, a) < SeqMod, 2 * Age(top, b) < SeqMod
  PROVE  SeqIsNewer(a, b) <=> Age(top, a) < Age(top, b)
<1> DEFINE d == (a + SeqMod - b) % SeqMod
           x == Age(top, a)
           y == Age(top, b)
<1>1. SeqMod \in Nat /\ SeqMod > 2 /\ top \in Nat /\ a \in Nat /\ b \in Nat
      /\ top < SeqMod /\ a < SeqMod /\ b < SeqMod
  BY SeqModAssumption DEF SeqNum
<1>2. d = IF b <= a THEN a - b ELSE a + SeqMod - b
  BY AgeIs DEF Age
<1>3. /\ x = IF a <= top THEN top - a ELSE top + SeqMod - a
      /\ y = IF b <= top THEN top - b ELSE top + SeqMod - b
      /\ 2 * x < SeqMod /\ 2 * y < SeqMod
  BY AgeIs
<1>4. SeqIsNewer(a, b) <=> d # 0 /\ 2 * d < SeqMod
  BY DEF SeqIsNewer
<1> HIDE DEF d, x, y
<1>5. (d # 0 /\ 2 * d < SeqMod) <=> x < y
  BY <1>1, <1>2, <1>3
<1>6. QED
  BY <1>4, <1>5 DEF x, y

LEMMA NextSeqIs ==
  ASSUME NEW s \in SeqNum
  PROVE  NextSeq(s) \in SeqNum /\ NextSeq(s) = IF s + 1 < SeqMod THEN s + 1 ELSE 0
<1>1. SeqMod \in Nat /\ SeqMod > 2 /\ s \in Nat /\ s < SeqMod
  BY SeqModAssumption DEF SeqNum
<1>2. s + 1 \in 0 .. 2 * SeqMod - 1
  BY <1>1
<1>3. NextSeq(s) = IF s + 1 < SeqMod THEN s + 1 ELSE (s + 1) - SeqMod
  BY <1>2, ModIs DEF NextSeq
<1>4. QED
  BY <1>1, <1>3 DEF SeqNum

(* When a record gets the number top, the others are one older.              *)
LEMMA AgeNext ==
  ASSUME NEW top \in SeqNum
  PROVE  /\ Age(NextSeq(top), top) = 1
         /\ \A s \in SeqNum : Age(top, s) < SeqMod - 1 => Age(NextSeq(top), s) = Age(top, s) + 1
<1>1. SeqMod \in Nat /\ SeqMod > 2 /\ top \in Nat /\ top < SeqMod
  BY SeqModAssumption DEF SeqNum
<1>2. NextSeq(top) \in SeqNum /\ NextSeq(top) = IF top + 1 < SeqMod THEN top + 1 ELSE 0
  BY NextSeqIs
<1>3. Age(NextSeq(top), top) = 1
  BY <1>1, <1>2, AgeIs
<1>4. ASSUME NEW s \in SeqNum, Age(top, s) < SeqMod - 1
      PROVE  Age(NextSeq(top), s) = Age(top, s) + 1
  <2>1. s \in Nat /\ s < SeqMod
    BY <1>1 DEF SeqNum
  <2>2. Age(top, s) = IF s <= top THEN top - s ELSE top + SeqMod - s
    BY AgeIs
  <2>3. Age(NextSeq(top), s) = IF s <= NextSeq(top) THEN NextSeq(top) - s
                               ELSE NextSeq(top) + SeqMod - s
    BY <1>2, AgeIs
  <2>4. QED
    BY <1>1, <1>2, <1>4, <2>1, <2>2, <2>3
<1>5. QED
  BY <1>3, <1>4

-----------------------------------------------------------------------------
(* What FindLatest finds *)

Reach(r) == {i \in 1 .. Len(r) : \A j \in 1 .. i : ~Stops(r[j])}

(* All records of r are recent enough to be compared.                        *)
Comparable(r, top) ==
  /\ top \in SeqNum
  /\ \A i \in 1 .. Len(r) : IsRecord(r[i]) => 2 * Age(top, r[i].seq) < SeqMod

(* Of what the scan reaches up to slot n, m is the newest record, the first  *)
(* of equals.                                                                *)
IsLatest(r, n, m) ==
  /\ m \in 0 .. n
  /\ m # 0 => m \in Reach(r) /\ IsRecord(r[m])
  /\ \A i \in 1 .. n : i \in Reach(r) /\ IsRecord(r[i]) => m # 0
  /\ \A top : Comparable(r, top) =>
        \A i \in 1 .. n : i \in Reach(r) /\ IsRecord(r[i]) =>
            \/ Age(top, r[m].seq) < Age(top, r[i].seq)
            \/ Age(top, r[m].seq) = Age(top, r[i].seq) /\ m <= i

LEMMA BestLatest ==
  ASSUME NEW r, Len(r) \in Nat, NEW n \in 1 .. Len(r), n \in Reach(r),
         NEW m, IsLatest(r, n - 1, m)
  PROVE  IsLatest(r, n, BestOf(r, <<n, m>>))
<1> DEFINE b == BestOf(r, <<n, m>>)
           p == <<n, m>>
<1>1. p[1] = n /\ p[2] = m
  OBVIOUS
<1>2. b = IF IsRecord(r[n]) /\ (m = 0 \/ SeqIsNewer(r[n].seq, r[m].seq)) THEN n ELSE m
  BY <1>1 DEF BestOf
<1> HIDE DEF b, p
<1>3. m \in 0 .. n - 1 /\ (m # 0 => m \in Reach(r) /\ IsRecord(r[m]))
  BY DEF IsLatest
<1>4. b \in 0 .. n /\ (b # 0 => b \in Reach(r) /\ IsRecord(r[b]))
  BY <1>2, <1>3
<1>5. ASSUME NEW i \in 1 .. n, i \in Reach(r), IsRecord(r[i])
      PROVE  b # 0
  <2>1. CASE i = n
    BY <1>2, <1>3, <1>5, <2>1
  <2>2. CASE i # n
    <3>1. i \in 1 .. n - 1
      BY <2>2
    <3>2. m # 0
      BY <1>5, <3>1 DEF IsLatest
    <3>3. QED
      BY <1>2, <3>2
  <2>3. QED
    BY <2>1, <2>2
<1>6. ASSUME NEW top, Comparable(r, top), NEW i \in 1 .. n, i \in Reach(r), IsRecord(r[i])
      PROVE  \/ Age(top, r[b].seq) < Age(top, r[i].seq)
             \/ Age(top, r[b].seq) = Age(top, r[i].seq) /\ b <= i
  <2>1. top \in SeqNum
    BY <1>6 DEF Comparable
  <2>2. ASSUME NEW j \in 1 .. n, IsRecord(r[j])
        PROVE  r[j].seq \in SeqNum /\ Age(top, r[j].seq) \in Nat /\ 2 * Age(top, r[j].seq) < SeqMod
    <3>1. r[j].seq \in SeqNum
      BY <2>2 DEF IsRecord, Record
    <3>2. Age(top, r[j].seq) \in Nat
      BY <2>1, <3>1, AgeIs
    <3>3. QED
      BY <1>6, <2>2, <3>1, <3>2 DEF Comparable
  <2>3. b \in 1 .. n /\ IsRecord(r[b])
    BY <1>4, <1>5, <1>6
  <2>4. CASE i = n
    <3>1. CASE b = n
      BY <2>2, <2>3, <2>4, <3>1
    <3>2. CASE b # n
      <4>1. b = m /\ m # 0 /\ ~SeqIsNewer(r[n].seq, r[m].seq) /\ m \in 1 .. n /\ IsRecord(r[m])
        BY <1>2, <1>3, <1>6, <2>3, <2>4, <3>2
      <4>2. ~(Age(top, r[n].seq) < Age(top, r[m].seq))
        BY <1>6, <2>1, <2>2, <2>4, <4>1, NewerIs
      <4>3. Age(top, r[n].seq) \in Nat /\ Age(top, r[m].seq) \in Nat
        BY <1>6, <2>2, <2>4, <4>1
      <4>4. QED
        BY <2>4, <4>1, <4>2, <4>3
    <3>3. QED
      BY <3>1, <3>2
  <2>5. CASE i # n
    <3>1. i \in 1 .. n - 1
      BY <2>5
    <3>2. m # 0 /\ m \in 1 .. n /\ IsRecord(r[m])
      BY <1>3, <1>6, <3>1 DEF IsLatest
    <3>3. \/ Age(top, r[m].seq) < Age(top, r[i].seq)
          \/ Age(top, r[m].seq) = Age(top, r[i].seq) /\ m <= i
      BY <1>6, <3>1 DEF IsLatest
    <3>4. CASE b = m
      BY <3>3, <3>4
    <3>5. CASE b # m
      <4>1. b = n /\ SeqIsNewer(r[n].seq, r[m].seq)
        BY <1>2, <3>2, <3>5
      <4>2. Age(top, r[n].seq) < Age(top, r[m].seq)
        BY <2>1, <2>2, <2>3, <3>2, <4>1, NewerIs
      <4>3. /\ Age(top, r[n].seq) \in Nat /\ Age(top, r[m].seq) \in Nat
            /\ Age(top, r[i].seq) \in Nat
        BY <1>6, <2>2, <2>3, <3>2, <4>1
      <4>4. QED
        BY <3>3, <4>1, <4>2, <4>3
    <3>6. QED
      BY <3>4, <3>5
  <2>6. QED
    BY <2>4, <2>5
<1>7. QED
  BY <1>4, <1>5, <1>6 DEF IsLatest, b

(* What ends a scan hides the rest.                                          *)
LEMMA HiddenRest ==
  ASSUME NEW r, Len(r) \in Nat, NEW n \in 1 .. Len(r) + 1, NEW m, IsLatest(r, n - 1, m),
         n > Len(r) \/ Stops(r[n])
  PROVE  IsLatest(r, Len(r), m)
<1>1. ASSUME NEW i \in 1 .. Len(r), i \in Reach(r)
      PROVE  i \in 1 .. n - 1
  BY <1>1 DEF Reach
<1>2. m \in 0 .. Len(r)
  BY DEF IsLatest
<1>3. QED
  BY <1>1, <1>2 DEF IsLatest

LEMMA FindLatestIs ==
  ASSUME NEW r, Len(r) \in Nat
  PROVE  IsLatest(r, Len(r), FindLatest(r))
<1>1. PICK f : Scan(r, 1, f) /\ FindLatest(r) = f[<<1, 0>>]
  BY ScanIs
<1> DEFINE n == Len(r)
           Found == IsLatest(r, n, FindLatest(r))
           At(i) == \E m : IsLatest(r, i, m) /\ i \in Reach(r) \cup {0} /\ FindLatest(r) = f[<<i + 1, m>>]
           S == {i \in 0 .. n : Found \/ At(i)}
<1>2. ASSUME NEW i \in 0 .. n, NEW m \in 0 .. n
      PROVE  f[<<i + 1, m>>] = Turn(r, f, <<i + 1, m>>)
  <2>1. <<i + 1, m>> \in Points(r, 1)
    BY DEF Points
  <2>2. QED
    BY <1>1, <2>1 DEF Scan
<1>3. ASSUME NEW i \in 0 .. n, NEW m, IsLatest(r, i, m)
      PROVE  f[<<i + 1, m>>] = IF i + 1 > n \/ Stops(r[i + 1]) THEN m
                               ELSE f[<<i + 2, BestOf(r, <<i + 1, m>>)>>]
  <2>1. m \in 0 .. n
    BY <1>3 DEF IsLatest
  <2>2. <<i + 1, m>>[1] = i + 1 /\ <<i + 1, m>>[2] = m /\ (i + 1) + 1 = i + 2
    OBVIOUS
  <2>3. QED
    BY <1>2, <2>1, <2>2 DEF Turn
<1>4. 0 \in S
  <2>1. IsLatest(r, 0, 0)
    BY DEF IsLatest
  <2>2. At(0)
    BY <1>1, <2>1
  <2>3. QED
    BY <2>2
<1>5. ASSUME NEW i \in 1 .. n, i - 1 \in S
      PROVE  i \in S
  <2>1. CASE Found
    BY <2>1
  <2>2. CASE ~Found
    <3>1. PICK m : /\ IsLatest(r, i - 1, m) /\ i - 1 \in Reach(r) \cup {0}
                   /\ FindLatest(r) = f[<<(i - 1) + 1, m>>]
      BY <1>5, <2>2
    <3>2. (i - 1) + 1 = i /\ (i - 1) + 2 = i + 1 /\ i - 1 \in 0 .. n
      OBVIOUS
    <3>3. f[<<i, m>>] = IF i > n \/ Stops(r[i]) THEN m ELSE f[<<i + 1, BestOf(r, <<i, m>>)>>]
      BY <1>3, <3>1, <3>2
    <3>4. ~Stops(r[i])
      <4> SUFFICES ASSUME Stops(r[i])
                   PROVE  FALSE
        OBVIOUS
      <4>1. FindLatest(r) = m
        BY <3>1, <3>2, <3>3
      <4>2. IsLatest(r, n, m)
        BY <3>1, HiddenRest
      <4>3. QED
        BY <2>2, <4>1, <4>2
    <3>5. i \in Reach(r)
      <4>1. ASSUME NEW j \in 1 .. i
            PROVE  ~Stops(r[j])
        BY <3>1, <3>4 DEF Reach
      <4>2. QED
        BY <4>1 DEF Reach
    <3>6. IsLatest(r, i, BestOf(r, <<i, m>>))
      BY <3>1, <3>5, BestLatest
    <3>7. FindLatest(r) = f[<<i + 1, BestOf(r, <<i, m>>)>>]
      BY <3>1, <3>2, <3>3, <3>4
    <3>8. QED
      BY <3>5, <3>6, <3>7
  <2>3. QED
    BY <2>1, <2>2
<1>6. n \in S
  <2>1. 0 .. n \subseteq S
    <3> HIDE DEF S
    <3>1. QED
      BY <1>4, <1>5, Upward
  <2>2. n \in 0 .. n
    OBVIOUS
  <2> HIDE DEF S
  <2>3. QED
    BY <2>1, <2>2
<1>7. CASE Found
  BY <1>7
<1>8. CASE At(n)
  <2>1. PICK m : IsLatest(r, n, m) /\ FindLatest(r) = f[<<n + 1, m>>]
    BY <1>8
  <2>2. n \in 0 .. n /\ n + 1 > n
    OBVIOUS
  <2>3. f[<<n + 1, m>>] = m
    BY <1>3, <2>1, <2>2
  <2>4. QED
    BY <2>1, <2>3
<1>9. QED
  BY <1>6, <1>7, <1>8

=============================================================================
