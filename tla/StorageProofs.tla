---------------------------- MODULE StorageProofs ----------------------------
(* Proofs about the stores in NOR Flash.  The event log: in a region of two  *)
(* sectors or more, for all sizes and any number of power cuts and failing   *)
(* calls, what a reader that acknowledges by receipt relies on.  The driver  *)
(* of the Flash does what its callers were told, for every chip, page size,  *)
(* partition table and number of faults.  A firmware slot implements the     *)
(* register of SlotRegister, for every set of images, block and slot size.   *)
EXTENDS StorageLog, StoragePartition, FirmwareSlot, SequenceTheorems, FiniteSetTheorems,
        TLAPS


(* What a slot, a sector and the RAM may hold.                               *)
EntrySlot == [kind : {"record"}, seq : 1 .. MaxSequence, ack : {"no", "half", "yes"}]
LogSlot == {BlankSlot, HoleSlot, Garbage} \cup EntrySlot
LogSector == [header : Nat, slots : [SlotIndex -> LogSlot]]
LogRam == [up : BOOLEAN, active : SectorIndex, slot : 1 .. LogSlots + 1,
           next : 1 .. MaxSequence + 1]
Cursor == [started : BOOLEAN, sector : SectorIndex, slot : 1 .. LogSlots + 1,
           remaining : 0 .. LogSectors]
Receipt == [sector : SectorIndex, slot : SlotIndex, generation : Nat \ {0},
            seq : 1 .. MaxSequence, gone : BOOLEAN]

Types ==
    /\ region \in [SectorIndex -> LogSector]
    /\ log \in LogRam
    /\ cursor \in Cursor
    /\ cursor.started => cursor.remaining # 0
    /\ receipt = NoReceipt \/ receipt \in Receipt
    /\ owed \in SUBSET Place
    /\ clearFailed \in {"no", "now", "once"}

(* After a failed Clear nothing is owed until the next Init: the RAM may     *)
(* point into a sector that has no header any more.                          *)
Trusted == clearFailed # "now"
NothingOwed == ~Trusted => owed = {}

(* The newest sector has what Init needs to go on counting: its records,     *)
(* those included that no scan reaches, follow those that are owed elsewhere.*)
LatestOwed ==
    Trusted =>
        \A k \in SectorIndex : IsNewest(k) =>
            \A p \in owed : p[1] # k =>
                \A i \in SlotIndex :
                    IsEntry(region[k].slots[i]) => SeqAt(p) < region[k].slots[i].seq

(* The RAM of a log that is open: its sector is the one Init would choose,   *)
(* a scan reaches the place it writes to, and its numbers are new.           *)
ActiveNewest ==
    log.up /\ Trusted =>
        /\ IsNewest(log.active)
        /\ \A i \in 1 .. log.slot - 1 : ~StopsScan(region[log.active].slots[i])
        /\ \A p \in owed : SeqAt(p) < log.next

(* As long as no Clear failed, no two sectors have one generation,           *)
Distinct ==
    clearFailed = "no" =>
        \A j, k \in SectorIndex :
            j # k /\ region[j].header = region[k].header => region[j].header = NoHeader

(* and a receipt is of the newest one, or of one older than it.  That of a   *)
(* record that is gone is of an older one, and does not match.               *)
Holds(r) ==
    LET generation == region[log.active].header
        entry == region[r.sector].slots[r.slot]
    IN  /\ r.generation <= generation
        /\ r.gone \/ r.sector # log.active => r.generation < generation
        /\ ~r.gone => IsEntry(entry)
        /\ r.gone => ~(Matches(r) /\ Pending(entry))

ReceiptKept ==
    /\ ~log.up => receipt = NoReceipt
    /\ clearFailed = "no" /\ receipt # NoReceipt => Holds(receipt)

IInv ==
    /\ Types /\ OwedFound /\ NothingOwed /\ LatestOwed
    /\ ActiveNewest /\ Distinct /\ ReceiptKept

-----------------------------------------------------------------------------
(* Of a finite set in a strict order some element has none before it.        *)
LEMMA FirstExists ==
  ASSUME NEW S, S # {}, IsFiniteSet(S), NEW R,
         \A x \in S : <<x, x>> \notin R,
         \A x, y, z \in S : <<x, y>> \in R /\ <<y, z>> \in R => <<x, z>> \in R
  PROVE  \E x \in S : \A y \in S : <<y, x>> \notin R
<1> DEFINE Before(x) == {y \in S : <<y, x>> \in R}
           Sets == {Before(x) : x \in S}
<1>1. Sets \subseteq FiniteSubsetsOf(S) /\ Sets # {}
  <2>1. ASSUME NEW x \in S PROVE Before(x) \in FiniteSubsetsOf(S)
    <3>1. IsFiniteSet(Before(x))  BY FS_Subset
    <3>2. QED  BY <3>1 DEF FiniteSubsetsOf
  <2> HIDE DEF Before
  <2>2. Sets \subseteq FiniteSubsetsOf(S)  BY <2>1
  <2>3. QED  BY <2>2
<1> HIDE DEF Sets
<1>2. PICK u \in Sets : \A v \in Sets : ~ (<<v, u>> \in StrictSubsetOrdering(S))
  BY <1>1, FS_StrictSubsetOrderingWellFounded, WFMin
<1>3. PICK x \in S : u = Before(x)  BY DEF Sets
<1>4. ASSUME NEW y \in S, <<y, x>> \in R PROVE FALSE
  <2>1. Before(y) \in Sets  BY DEF Sets
  <2>2. Before(y) \subseteq Before(x)  BY <1>4
  <2>3. y \in Before(x) /\ y \notin Before(y)  BY <1>4
  <2>4. Before(x) \subseteq S /\ Before(y) \subseteq S  OBVIOUS
  <2> HIDE DEF Before
  <2>5. <<Before(y), u>> \in StrictSubsetOrdering(S)
    BY <1>3, <2>2, <2>3, <2>4 DEF StrictSubsetOrdering
  <2>6. QED  BY <1>2, <2>1, <2>5
<1>5. QED  BY <1>4

LEMMA Sizes ==
  /\ LogSectors \in Nat /\ LogSectors >= 1
  /\ LogSlots \in Nat /\ LogSlots >= 1
  /\ MaxSequence \in Nat /\ MaxSequence >= 1
  /\ 0 \in SectorIndex /\ 1 \in SlotIndex
  /\ IsFiniteSet(SectorIndex) /\ IsFiniteSet(SlotIndex)
  /\ SectorIndex \subseteq Nat /\ SlotIndex \subseteq Nat
<1>1. /\ LogSectors \in Nat /\ LogSectors >= 1
      /\ LogSlots \in Nat /\ LogSlots >= 1
      /\ MaxSequence \in Nat /\ MaxSequence >= 1
  BY LogAssumption
<1>2. IsFiniteSet(0 .. LogSectors - 1) /\ IsFiniteSet(1 .. LogSlots)
  <2>1. LogSectors - 1 \in Int /\ LogSlots \in Int /\ 0 \in Int /\ 1 \in Int  BY <1>1
  <2>2. QED  BY <2>1, FS_Interval
<1>3. QED  BY <1>1, <1>2 DEF SectorIndex, SlotIndex

LEMMA FollowingIs ==
  ASSUME NEW k \in SectorIndex
  PROVE  /\ Following(k) \in SectorIndex
         /\ LogSectors > 1 => Following(k) # k
<1>1. k \in Nat /\ k < LogSectors /\ LogSectors \in Nat \ {0}
  BY LogAssumption DEF SectorIndex
<1>2. CASE k + 1 < LogSectors
  <2>1. (k + 1) % LogSectors = k + 1  BY <1>1, <1>2
  <2>2. QED  BY <1>1, <1>2, <2>1 DEF Following, SectorIndex
<1>3. CASE k + 1 = LogSectors
  <2>1. (k + 1) % LogSectors = 0  BY <1>1, <1>3
  <2>2. QED  BY <1>1, <1>3, <2>1 DEF Following, SectorIndex
<1>4. QED  BY <1>1, <1>2, <1>3

(* What the contents of a slot mean to a scan.                               *)
LEMMA SlotIs ==
  ASSUME NEW s \in LogSlot
  PROVE  /\ IsEntry(s) <=> s \in EntrySlot
         /\ StopsScan(s) => ~IsEntry(s)
         /\ Pending(s) => IsEntry(s)
         /\ IsEntry(s) => s.seq \in 1 .. MaxSequence /\ s.ack \in {"no", "half", "yes"}
BY DEF LogSlot, EntrySlot, IsEntry, StopsScan, Pending, BlankSlot, HoleSlot, Garbage

LEMMA OtherSlots ==
  /\ BlankSlot \in LogSlot /\ HoleSlot \in LogSlot /\ Garbage \in LogSlot
  /\ ~IsEntry(BlankSlot) /\ ~IsEntry(HoleSlot) /\ ~IsEntry(Garbage)
  /\ StopsScan(BlankSlot) /\ StopsScan(HoleSlot)
BY DEF LogSlot, IsEntry, StopsScan, BlankSlot, HoleSlot, Garbage

LEMMA EntryIs ==
  ASSUME NEW n \in 1 .. MaxSequence, NEW a \in {"no", "half", "yes"}
  PROVE  /\ Entry(n, a) \in LogSlot
         /\ IsEntry(Entry(n, a)) /\ ~StopsScan(Entry(n, a))
         /\ Entry(n, a).seq = n
         /\ Pending(Entry(n, a)) <=> a # "yes"
BY DEF LogSlot, EntrySlot, Entry, IsEntry, StopsScan, Pending, BlankSlot, HoleSlot

LEMMA SectorIs ==
  ASSUME NEW s \in LogSector
  PROVE  /\ s.header \in Nat
         /\ DOMAIN s.slots = SlotIndex
         /\ \A i \in SlotIndex : s.slots[i] \in LogSlot
BY DEF LogSector

LEMMA BlankSectorIs ==
  /\ BlankSector \in LogSector
  /\ BlankSector.header = NoHeader
  /\ \A i \in SlotIndex : BlankSector.slots[i] = BlankSlot
  /\ \A g \in Nat : /\ NewSector(g) \in LogSector
                    /\ NewSector(g).header = g
                    /\ NewSector(g).slots = BlankSector.slots
BY OtherSlots DEF BlankSector, NewSector, LogSector, NoHeader

LEMMA TypesAre ==
  ASSUME Types
  PROVE  /\ \A k \in SectorIndex :
              /\ region[k] \in LogSector
              /\ region[k].header \in Nat
              /\ \A i \in SlotIndex : region[k].slots[i] \in LogSlot
         /\ log.active \in SectorIndex
         /\ log.slot \in 1 .. LogSlots + 1
         /\ log.next \in 1 .. MaxSequence + 1
         /\ owed \in SUBSET Place
BY SectorIs DEF Types, LogRam

LEMMA PlaceIs ==
  /\ \A p \in Place : /\ p = <<p[1], p[2]>>
                      /\ p[1] \in SectorIndex /\ p[2] \in SlotIndex
  /\ \A k \in SectorIndex, i \in SlotIndex :
       /\ <<k, i>> \in Place
       /\ <<k, i>>[1] = k /\ <<k, i>>[2] = i
BY DEF Place

(* What a scan finds first, and what it finds at all.                        *)
LEMMA ReachedIs ==
  ASSUME NEW s \in LogSector
  PROVE  /\ Reached(s) \subseteq SlotIndex
         /\ Occupied(s) \subseteq Reached(s)
         /\ \A i \in Reached(s) : \A j \in 1 .. i : j \in SlotIndex /\ ~StopsScan(s.slots[j])
         /\ \A i \in SlotIndex : (\A j \in 1 .. i : ~StopsScan(s.slots[j])) => i \in Reached(s)
         /\ \A i \in Occupied(s) : s.slots[i].seq \in 1 .. MaxSequence
<1>1. \A i \in SlotIndex : \A j \in 1 .. i : j \in SlotIndex
  BY Sizes DEF SlotIndex
<1>2. \A i \in Occupied(s) : s.slots[i].seq \in 1 .. MaxSequence
  BY SectorIs, SlotIs DEF Occupied, Reached
<1>3. QED  BY <1>1, <1>2 DEF Reached, Occupied

-----------------------------------------------------------------------------
(* What Init looks for *)

LEMMA NewestUnique ==
  ASSUME Types, NEW j, NEW k, IsNewest(j), IsNewest(k)
  PROVE  j = k
<1>1. j \in SectorIndex /\ k \in SectorIndex  BY DEF IsNewest, ValidSectors
<1>2. j \in Nat /\ k \in Nat /\ region[j].header \in Nat /\ region[k].header \in Nat
  BY <1>1, TypesAre, Sizes
<1>3. QED  BY <1>2 DEF IsNewest

OneNewest == \A x, y : IsNewest(x) /\ IsNewest(y) => x = y

LEMMA NewestSingle == Types => OneNewest
BY NewestUnique DEF OneNewest

LEMMA NewestIs ==
  ASSUME Types, ValidSectors # {}
  PROVE  IsNewest(Newest)
<1> DEFINE Newer(x, y) == \/ region[y].header < region[x].header
                          \/ region[x].header = region[y].header /\ x < y
           R == {w \in ValidSectors \X ValidSectors : Newer(w[1], w[2])}
<1>1. ValidSectors \subseteq SectorIndex /\ IsFiniteSet(ValidSectors)
  <2>1. ValidSectors \subseteq SectorIndex  BY DEF ValidSectors
  <2>2. QED  BY <2>1, Sizes, FS_Subset
<1>2. \A x \in ValidSectors : x \in Nat /\ region[x].header \in Nat
  BY <1>1, TypesAre, Sizes
<1>3. \A x, y \in ValidSectors : <<x, y>> \in R <=> Newer(x, y)
  OBVIOUS
<1>4. \A x \in ValidSectors : ~Newer(x, x)  BY <1>2
<1>5. \A x, y, z \in ValidSectors : Newer(x, y) /\ Newer(y, z) => Newer(x, z)
  BY <1>2
<1>6. \A x, y \in ValidSectors : ~Newer(y, x) =>
         \/ region[y].header < region[x].header
         \/ region[y].header = region[x].header /\ x <= y
  BY <1>2
<1> HIDE DEF Newer, R
<1>7. PICK x \in ValidSectors : \A y \in ValidSectors : <<y, x>> \notin R
  BY <1>1, <1>3, <1>4, <1>5, FirstExists
<1>8. IsNewest(x)  BY <1>3, <1>6, <1>7 DEF IsNewest
<1>9. QED  BY <1>8 DEF Newest

LEMMA LatestIs ==
  ASSUME NEW s \in LogSector
  PROVE  /\ LatestEntry(s) \in 0 .. LogSlots
         /\ LatestEntry(s) = 0 <=> Occupied(s) = {}
         /\ LatestEntry(s) # 0 =>
              /\ LatestEntry(s) \in Occupied(s)
              /\ \A j \in Occupied(s) : s.slots[j].seq <= s.slots[LatestEntry(s)].seq
<1>1. Occupied(s) \subseteq SlotIndex /\ IsFiniteSet(Occupied(s))
  <2>1. Occupied(s) \subseteq SlotIndex  BY ReachedIs
  <2>2. QED  BY <2>1, Sizes, FS_Subset
<1>2. \A i \in Occupied(s) : /\ i \in Nat /\ i # 0 /\ i \in 0 .. LogSlots
                             /\ s.slots[i].seq \in Nat
  BY <1>1, ReachedIs, Sizes DEF SlotIndex
<1>3. CASE Occupied(s) = {}
  BY <1>3, Sizes DEF LatestEntry
<1>4. CASE Occupied(s) # {}
  <2> DEFINE Later(i, j) == \/ s.slots[j].seq < s.slots[i].seq
                            \/ s.slots[j].seq = s.slots[i].seq /\ i < j
             Chosen(i) == \A j \in Occupied(s) :
                             \/ s.slots[j].seq < s.slots[i].seq
                             \/ s.slots[j].seq = s.slots[i].seq /\ i <= j
             R == {w \in Occupied(s) \X Occupied(s) : Later(w[1], w[2])}
  <2>1. \A i, j \in Occupied(s) : <<i, j>> \in R <=> Later(i, j)
    OBVIOUS
  <2>2. \A i \in Occupied(s) : ~Later(i, i)  BY <1>2
  <2>3. \A i, j, k \in Occupied(s) : Later(i, j) /\ Later(j, k) => Later(i, k)
    BY <1>2
  <2>4. \A i \in Occupied(s) : (\A j \in Occupied(s) : ~Later(j, i)) => Chosen(i)
    BY <1>2
  <2>5. LatestEntry(s) = CHOOSE i \in Occupied(s) : Chosen(i)
    BY <1>4 DEF LatestEntry
  <2>6. \A i \in Occupied(s) : Chosen(i) =>
           \A j \in Occupied(s) : s.slots[j].seq <= s.slots[i].seq
    BY <1>2
  <2> HIDE DEF Later, Chosen, R
  <2>7. PICK i \in Occupied(s) : \A j \in Occupied(s) : <<j, i>> \notin R
    BY <1>1, <1>4, <2>1, <2>2, <2>3, FirstExists
  <2>8. Chosen(i)  BY <2>1, <2>4, <2>7
  <2>9. LatestEntry(s) \in Occupied(s) /\ Chosen(LatestEntry(s))
    BY <2>5, <2>8
  <2>10. QED  BY <1>2, <1>4, <2>6, <2>9
<1>5. QED  BY <1>3, <1>4

LEMMA HighestIs ==
  ASSUME NEW n \in Nat, NEW S \in SUBSET (1 .. n), S # {}
  PROVE  Highest(S) \in S /\ \A m \in S : m <= Highest(S)
<1> DEFINE R == {w \in S \X S : w[2] < w[1]}
<1>1. IsFiniteSet(S)
  <2>1. n \in Int /\ 1 \in Int  OBVIOUS
  <2>2. IsFiniteSet(1 .. n)  BY <2>1, FS_Interval
  <2>3. QED  BY <2>2, FS_Subset
<1>2. \A x \in S : x \in Nat  OBVIOUS
<1>3. \A x, y \in S : <<x, y>> \in R <=> y < x  OBVIOUS
<1>4. \A x \in S : <<x, x>> \notin R  BY <1>2, <1>3
<1>5. \A x, y, z \in S : <<x, y>> \in R /\ <<y, z>> \in R => <<x, z>> \in R
  BY <1>2, <1>3
<1> HIDE DEF R
<1>6. PICK x \in S : \A y \in S : <<y, x>> \notin R
  BY <1>1, <1>4, <1>5, FirstExists
<1>7. \A m \in S : ~(x < m)  BY <1>3, <1>6
<1>8. \A m \in S : m <= x  BY <1>2, <1>7
<1>9. QED  BY <1>8 DEF Highest

(* The number Init goes on with is above those of the newest sector, or, if  *)
(* that has no record, above all.                                            *)
LEMMA NextSequenceIs ==
  ASSUME Types, NEW k \in SectorIndex
  PROVE  /\ NextSequence(k) \in 1 .. MaxSequence + 1
         /\ \A i \in Occupied(region[k]) : region[k].slots[i].seq < NextSequence(k)
         /\ Occupied(region[k]) = {} =>
              \A j \in ValidSectors : \A i \in Occupied(region[j]) :
                 region[j].slots[i].seq < NextSequence(k)
<1> DEFINE SeqIn(j) == region[j].slots[LatestEntry(region[j])].seq
           V == {m \in ValidSectors : LatestEntry(region[m]) # 0}
           S == {1} \cup {SeqIn(j) + 1 : j \in V}
<1>1. ValidSectors \subseteq SectorIndex  BY DEF ValidSectors
<1>2. \A j \in SectorIndex : region[j] \in LogSector  BY TypesAre
<1>3. ASSUME NEW j \in SectorIndex, LatestEntry(region[j]) # 0
      PROVE  /\ SeqIn(j) \in 1 .. MaxSequence
             /\ \A i \in Occupied(region[j]) : /\ region[j].slots[i].seq \in Nat
                                               /\ region[j].slots[i].seq <= SeqIn(j)
  <2>1. region[j] \in LogSector  BY <1>2
  <2>2. QED  BY <1>3, <2>1, LatestIs, ReachedIs, Sizes
<1>4. \A j \in SectorIndex : LatestEntry(region[j]) = 0 <=> Occupied(region[j]) = {}
  BY <1>2, LatestIs
<1>5. NextSequence(k) = IF LatestEntry(region[k]) # 0 THEN SeqIn(k) + 1 ELSE Highest(S)
  BY DEF NextSequence
<1>6. CASE LatestEntry(region[k]) # 0
  <2>1. SeqIn(k) \in 1 .. MaxSequence
        /\ \A i \in Occupied(region[k]) : /\ region[k].slots[i].seq \in Nat
                                          /\ region[k].slots[i].seq <= SeqIn(k)
    BY <1>3, <1>6
  <2>2. Occupied(region[k]) # {}  BY <1>4, <1>6
  <2>3. NextSequence(k) = SeqIn(k) + 1  BY <1>5, <1>6
  <2> HIDE DEF SeqIn
  <2>4. QED  BY <2>1, <2>2, <2>3, Sizes
<1>7. CASE LatestEntry(region[k]) = 0
  <2>1. \A j \in V : SeqIn(j) + 1 \in 1 .. MaxSequence + 1
    <3>1. \A j \in V : SeqIn(j) \in 1 .. MaxSequence  BY <1>1, <1>3
    <3> HIDE DEF SeqIn, V
    <3>2. QED  BY <3>1, Sizes
  <2>2. 1 \in 1 .. MaxSequence + 1 /\ MaxSequence + 1 \in Nat  BY Sizes
  <2>3. S \in SUBSET (1 .. MaxSequence + 1) /\ S # {}
    <3> HIDE DEF SeqIn, V
    <3>1. QED  BY <2>1, <2>2
  <2>4. \A j \in V : SeqIn(j) + 1 \in S  OBVIOUS
  <2>5. NextSequence(k) = Highest(S)  BY <1>5, <1>7
  <2>6. \A j \in ValidSectors : \A i \in Occupied(region[j]) :
           /\ j \in V
           /\ SeqIn(j) \in Nat
           /\ region[j].slots[i].seq \in Nat /\ region[j].slots[i].seq <= SeqIn(j)
    <3>1. \A j \in ValidSectors : \A i \in Occupied(region[j]) :
             j \in SectorIndex /\ LatestEntry(region[j]) # 0
      BY <1>1, <1>4
    <3>2. QED  BY <1>3, <3>1
  <2>7. Occupied(region[k]) = {}  BY <1>4, <1>7
  <2> HIDE DEF SeqIn, V, S
  <2>8. Highest(S) \in 1 .. MaxSequence + 1 /\ \A m \in S : m <= Highest(S)
    BY <2>2, <2>3, HighestIs
  <2>9. QED  BY <2>2, <2>4, <2>5, <2>6, <2>7, <2>8
<1>8. QED  BY <1>6, <1>7

-----------------------------------------------------------------------------
(* What the invariant says of a place that is owed, of the RAM Init makes,   *)
(* and of the RAM that is lost                                               *)

LEMMA OwedIs ==
  ASSUME IInv, NEW p \in owed
  PROVE  /\ p = <<p[1], p[2]>> /\ p[1] \in SectorIndex /\ p[2] \in SlotIndex
         /\ p[1] \in ValidSectors
         /\ p[2] \in Reached(region[p[1]]) /\ p[2] \in Occupied(region[p[1]])
         /\ Pending(region[p[1]].slots[p[2]])
         /\ SeqAt(p) \in 1 .. MaxSequence
         /\ SeqAt(p) = region[p[1]].slots[p[2]].seq
<1>1. p \in Place  BY TypesAre DEF IInv
<1>2. p = <<p[1], p[2]>> /\ p[1] \in SectorIndex /\ p[2] \in SlotIndex
  BY <1>1, PlaceIs
<1>3. /\ region[p[1]].header # NoHeader
      /\ p[2] \in Reached(region[p[1]])
      /\ Pending(region[p[1]].slots[p[2]])
  BY DEF IInv, OwedFound
<1>4. IsEntry(region[p[1]].slots[p[2]])  BY <1>3 DEF Pending
<1>5. p[2] \in Occupied(region[p[1]])  BY <1>3, <1>4 DEF Occupied
<1>6. region[p[1]] \in LogSector  BY <1>2, TypesAre DEF IInv
<1>7. region[p[1]].slots[p[2]].seq \in 1 .. MaxSequence
  BY <1>5, <1>6, ReachedIs
<1>8. p[1] \in ValidSectors  BY <1>2, <1>3 DEF ValidSectors
<1>9. QED  BY <1>2, <1>3, <1>5, <1>7, <1>8 DEF SeqAt

LEMMA OpenedIs ==
  ASSUME IInv, ValidSectors # {}
  PROVE  /\ Opened \in LogRam /\ Opened.up
         /\ IsNewest(Opened.active)
         /\ \A i \in 1 .. Opened.slot - 1 : ~StopsScan(region[Opened.active].slots[i])
         /\ \A p \in owed : SeqAt(p) < Opened.next
<1> DEFINE k == Newest
           s == region[k]
<1>1. IsNewest(k)  BY NewestIs DEF IInv
<1>2. k \in SectorIndex  BY <1>1 DEF IsNewest, ValidSectors
<1>3. s \in LogSector  BY <1>2, TypesAre DEF IInv
<1>4. Opened = [up |-> TRUE, active |-> k, slot |-> LatestEntry(s) + 1, next |-> NextSequence(k)]
  BY DEF Opened
<1> HIDE DEF k
<1>5. /\ NextSequence(k) \in 1 .. MaxSequence + 1
      /\ \A i \in Occupied(region[k]) : region[k].slots[i].seq < NextSequence(k)
      /\ Occupied(region[k]) = {} =>
           \A j \in ValidSectors : \A i \in Occupied(region[j]) :
              region[j].slots[i].seq < NextSequence(k)
  BY <1>2, NextSequenceIs DEF IInv
<1>6. LatestEntry(s) + 1 \in 1 .. LogSlots + 1
  <2>1. LatestEntry(s) \in 0 .. LogSlots  BY <1>3, LatestIs
  <2> HIDE DEF s
  <2>2. QED  BY <2>1, Sizes
<1>7. Opened \in LogRam  BY <1>2, <1>4, <1>5, <1>6 DEF LogRam
<1>8. Opened.up /\ Opened.active = k /\ Opened.slot = LatestEntry(s) + 1
      /\ Opened.next = NextSequence(k)
  BY <1>4
<1>9. \A i \in 1 .. LatestEntry(s) : ~StopsScan(s.slots[i])
  <2>1. CASE LatestEntry(s) = 0  BY <2>1
  <2>2. CASE LatestEntry(s) # 0
    <3>1. LatestEntry(s) \in Reached(s)  BY <1>3, <2>2, LatestIs, ReachedIs
    <3>2. QED  BY <1>3, <3>1, ReachedIs
  <2>3. QED  BY <2>1, <2>2
<1>10. \A i \in 1 .. Opened.slot - 1 : ~StopsScan(region[Opened.active].slots[i])
  <2>1. Opened.slot - 1 = LatestEntry(s)
    <3>1. LatestEntry(s) \in 0 .. LogSlots  BY <1>3, LatestIs
    <3> HIDE DEF s
    <3>2. QED  BY <1>8, <3>1, Sizes
  <2>2. QED  BY <1>8, <1>9, <2>1
<1>11. ASSUME NEW p \in owed PROVE SeqAt(p) < NextSequence(k)
  <2>1. /\ p[1] \in ValidSectors /\ p[2] \in Occupied(region[p[1]])
        /\ SeqAt(p) = region[p[1]].slots[p[2]].seq /\ SeqAt(p) \in 1 .. MaxSequence
    BY OwedIs
  <2>2. CASE p[1] = k \/ Occupied(region[k]) = {}  BY <1>5, <2>1, <2>2
  <2>3. CASE p[1] # k /\ Occupied(region[k]) # {}
    <3>1. PICK i \in Occupied(region[k]) : TRUE  BY <2>3
    <3>2. Trusted  BY DEF IInv, NothingOwed
    <3>3. i \in SlotIndex /\ IsEntry(region[k].slots[i])
      BY <1>3, <3>1, ReachedIs DEF Occupied
    <3>4. SeqAt(p) < region[k].slots[i].seq
      BY <1>1, <1>2, <2>3, <3>2, <3>3 DEF IInv, LatestOwed
    <3>5. region[k].slots[i].seq \in 1 .. MaxSequence
      BY <1>3, <3>1, ReachedIs
    <3>6. QED  BY <1>5, <2>1, <3>1, <3>4, <3>5
  <2>4. QED  BY <2>2, <2>3
<1>12. QED  BY <1>1, <1>7, <1>8, <1>10, <1>11

LEMMA RamLostIs ==
  ASSUME RamLost
  PROVE  /\ log' \in LogRam /\ cursor' \in Cursor
         /\ (cursor.started => cursor.remaining # 0)'
         /\ receipt' = NoReceipt /\ ~log'.up
         /\ ActiveNewest' /\ ReceiptKept'
<1>1. log' = LogOff /\ cursor' = CursorAtRest /\ receipt' = NoReceipt
  BY DEF RamLost
<1>2. 1 \in 1 .. LogSlots + 1 /\ 1 \in 1 .. MaxSequence + 1 /\ 0 \in 0 .. LogSectors
  BY Sizes
<1>3. log' \in LogRam /\ ~log'.up  BY <1>1, <1>2, Sizes DEF LogOff, LogRam
<1>4. cursor' \in Cursor /\ (cursor.started => cursor.remaining # 0)'
  BY <1>1, <1>2, Sizes DEF CursorAtRest, Cursor
<1>5. ActiveNewest'  BY <1>3 DEF ActiveNewest
<1>6. ReceiptKept'  BY <1>1 DEF ReceiptKept
<1>7. QED  BY <1>1, <1>3, <1>4, <1>5, <1>6

-----------------------------------------------------------------------------
(* Steps that leave the Flash as it is *)

LEMMA SameFlash ==
  ASSUME region' = region
  PROVE  /\ ValidSectors' = ValidSectors
         /\ \A k : IsNewest(k)' <=> IsNewest(k)
         /\ \A p : SeqAt(p)' = SeqAt(p)
         /\ \A r : Matches(r)' <=> Matches(r)
BY DEF ValidSectors, IsNewest, SeqAt, Matches, SameGeneration

LEMMA SameOwed ==
  ASSUME IInv, region' = region, owed' = owed, clearFailed' \in {clearFailed, "once"},
         clearFailed' = "once" => clearFailed # "no"
  PROVE  OwedFound' /\ NothingOwed' /\ Distinct' /\ (Trusted => LatestOwed')
<1>1. OwedFound'  BY DEF IInv, OwedFound
<1>2. NothingOwed'  BY DEF IInv, NothingOwed, Trusted
<1>3. Distinct'  BY DEF IInv, Distinct
<1>4. Trusted => LatestOwed'
  BY SameFlash DEF IInv, LatestOwed, Trusted
<1>5. QED  BY <1>1, <1>2, <1>3, <1>4

LEMMA LogOpenStep == ASSUME IInv, LogOpen PROVE IInv'
<1>1. /\ ValidSectors # {} /\ log' = Opened /\ clearFailed' = ClearSeen
      /\ region' = region /\ cursor' = cursor /\ receipt' = receipt /\ owed' = owed
  BY DEF LogOpen
<1>2. clearFailed' = IF clearFailed = "now" THEN "once" ELSE clearFailed
  BY <1>1 DEF ClearSeen
<1>3. /\ log' \in LogRam /\ log'.up
      /\ IsNewest(log'.active)
      /\ \A i \in 1 .. log'.slot - 1 : ~StopsScan(region[log'.active].slots[i])
      /\ \A p \in owed : SeqAt(p) < log'.next
  BY <1>1, OpenedIs
<1>4. Types'  BY <1>1, <1>2, <1>3 DEF IInv, Types
<1>5. OwedFound' /\ NothingOwed' /\ Distinct' /\ (Trusted => LatestOwed')
  BY <1>1, <1>2, SameOwed DEF IInv, Types
<1>6. LatestOwed'
  <2>1. ~Trusted => owed' = {}  BY <1>1 DEF IInv, NothingOwed
  <2>2. CASE ~Trusted  BY <2>1, <2>2 DEF LatestOwed
  <2>3. QED  BY <1>5, <2>2
<1>7. ActiveNewest'
  BY <1>1, <1>3, SameFlash DEF ActiveNewest
<1>8. ReceiptKept'
  <2>1. ASSUME clearFailed' = "no", receipt' # NoReceipt PROVE Holds(receipt)'
    <3>1. clearFailed = "no"  BY <1>2, <2>1
    <3>2. receipt # NoReceipt /\ log.up /\ Holds(receipt)
      BY <1>1, <2>1, <3>1 DEF IInv, ReceiptKept
    <3>3. IsNewest(log.active)  BY <3>1, <3>2 DEF IInv, ActiveNewest, Trusted
    <3>4. log'.active = log.active  BY <1>3, <3>3, NewestUnique DEF IInv
    <3>5. QED  BY <1>1, <3>2, <3>4, SameFlash DEF Holds
  <2>2. QED  BY <1>3, <2>1 DEF ReceiptKept
<1>9. QED  BY <1>4, <1>5, <1>6, <1>7, <1>8 DEF IInv

LEMMA LogCutStep == ASSUME IInv, LogCut PROVE IInv'
<1>1. RamLost /\ region' = region /\ owed' = owed /\ clearFailed' = clearFailed
  BY DEF LogCut
<1>2. OwedFound' /\ NothingOwed' /\ Distinct' /\ (Trusted => LatestOwed')
  BY <1>1, SameOwed DEF IInv, Types
<1>3. LatestOwed'  BY <1>1, <1>2 DEF LatestOwed, Trusted
<1>4. Types'  BY <1>1, RamLostIs DEF IInv, Types
<1>5. QED  BY <1>1, <1>2, <1>3, <1>4, RamLostIs DEF IInv

(* The cursor of a pass.                                                     *)
LEMMA StartedIs ==
  ASSUME Types
  PROVE  /\ Started \in Cursor /\ Started.remaining # 0
         /\ NextSector(Started) \in Cursor
         /\ NextSector(Started).started => NextSector(Started).remaining # 0
         /\ \A i \in SlotIndex : /\ [Started EXCEPT !.slot = i + 1] \in Cursor
                                 /\ [Started EXCEPT !.slot = i + 1].remaining # 0
<1>1. Started \in Cursor /\ Started.remaining # 0
  <2>1. CASE cursor.started  BY <2>1 DEF Types, Started
  <2>2. CASE ~cursor.started
    <3>1. Following(log.active) \in SectorIndex  BY TypesAre, FollowingIs
    <3>2. 1 \in 1 .. LogSlots + 1 /\ LogSectors \in 0 .. LogSectors /\ LogSectors # 0
      BY Sizes
    <3>3. Started = [started |-> TRUE, sector |-> Following(log.active), slot |-> 1,
                     remaining |-> LogSectors]
      BY <2>2 DEF Started
    <3>4. QED  BY <3>1, <3>2, <3>3 DEF Cursor
  <2>3. QED  BY <2>1, <2>2
<1> DEFINE c == Started
<1>2. c.sector \in SectorIndex /\ c.slot \in 1 .. LogSlots + 1
      /\ c.remaining \in 0 .. LogSectors
  BY <1>1 DEF Cursor
<1>3. Following(c.sector) \in SectorIndex  BY <1>2, FollowingIs
<1>4. c.remaining - 1 \in 0 .. LogSectors /\ (c.remaining - 1 = 0 <=> c.remaining = 1)
  BY <1>1, <1>2, Sizes
<1>5. 1 \in 1 .. LogSlots + 1 /\ \A i \in SlotIndex : i + 1 \in 1 .. LogSlots + 1
  BY Sizes DEF SlotIndex
<1> HIDE DEF c
<1>6. /\ NextSector(c) \in Cursor
      /\ NextSector(c).started => NextSector(c).remaining # 0
  <2>1. NextSector(c) = [c EXCEPT !.sector = Following(c.sector), !.slot = 1,
                            !.remaining = c.remaining - 1, !.started = ~(c.remaining = 1)]
    BY DEF NextSector, PassEnds
  <2>2. c \in Cursor  BY <1>1 DEF c
  <2>3. NextSector(c) \in Cursor
    BY <1>3, <1>4, <1>5, <2>1, <2>2 DEF Cursor
  <2>4. /\ NextSector(c).started <=> c.remaining # 1
        /\ NextSector(c).remaining = c.remaining - 1
    BY <2>1, <2>2 DEF Cursor
  <2>5. QED  BY <1>4, <2>3, <2>4
<1>7. \A i \in SlotIndex : /\ [c EXCEPT !.slot = i + 1] \in Cursor
                           /\ [c EXCEPT !.slot = i + 1].remaining # 0
  BY <1>1, <1>5 DEF Cursor, c
<1>8. QED  BY <1>1, <1>6, <1>7 DEF c

LEMMA NextPendingStep == ASSUME IInv, NextPending PROVE IInv'
<1> DEFINE c == Started
<1>1. /\ log.up /\ log' = log /\ region' = region /\ owed' = owed
      /\ clearFailed' = clearFailed
  BY DEF NextPending
<1>2. \/ cursor' = NextSector(c) /\ receipt' = receipt
      \/ \E i \in PendingFrom(c) :
           /\ cursor' = [c EXCEPT !.slot = i + 1]
           /\ receipt' = [sector |-> c.sector, slot |-> i,
                          generation |-> region[c.sector].header,
                          seq |-> region[c.sector].slots[i].seq, gone |-> FALSE]
  BY DEF NextPending
<1>3. Types  BY DEF IInv
<1>4. c.sector \in SectorIndex /\ c.slot \in 1 .. LogSlots + 1
  BY <1>3, StartedIs DEF Cursor
<1>5. ASSUME NEW i \in PendingFrom(c)
      PROVE  /\ i \in SlotIndex /\ region[c.sector].header # NoHeader
             /\ IsEntry(region[c.sector].slots[i])
             /\ region[c.sector].slots[i].seq \in 1 .. MaxSequence
  <2>1. region[c.sector].header # NoHeader /\ i \in c.slot .. LogSlots
        /\ Pending(region[c.sector].slots[i])
    BY <1>5 DEF PendingFrom
  <2> HIDE DEF c
  <2>2. i \in SlotIndex  BY <1>4, <2>1, Sizes DEF SlotIndex
  <2>3. region[c.sector].slots[i] \in LogSlot  BY <1>3, <1>4, <2>2, TypesAre
  <2>4. QED  BY <2>1, <2>2, <2>3, SlotIs
<1> HIDE DEF c
<1>6. /\ cursor' \in Cursor /\ (cursor'.started => cursor'.remaining # 0)
      /\ receipt' = NoReceipt \/ receipt' \in Receipt
  <2>1. CASE cursor' = NextSector(c) /\ receipt' = receipt
    BY <1>3, <2>1, StartedIs DEF Types, c
  <2>2. ASSUME NEW i \in PendingFrom(c), cursor' = [c EXCEPT !.slot = i + 1],
               receipt' = [sector |-> c.sector, slot |-> i,
                           generation |-> region[c.sector].header,
                           seq |-> region[c.sector].slots[i].seq, gone |-> FALSE]
        PROVE  /\ cursor' \in Cursor /\ cursor'.remaining # 0
               /\ receipt' \in Receipt
    <3>1. cursor' \in Cursor /\ cursor'.remaining # 0
      BY <1>3, <1>5, <2>2, StartedIs DEF c
    <3>2. region[c.sector].header \in Nat \ {0}
      BY <1>3, <1>4, <1>5, TypesAre DEF NoHeader
    <3>3. receipt' \in Receipt  BY <1>4, <1>5, <2>2, <3>2 DEF Receipt
    <3>4. QED  BY <3>1, <3>3
  <2>3. QED  BY <1>2, <2>1, <2>2
<1>7. Types'  BY <1>1, <1>3, <1>6 DEF Types
<1>8. OwedFound' /\ NothingOwed' /\ Distinct' /\ (Trusted => LatestOwed')
  BY <1>1, SameOwed DEF IInv, Types
<1>9. LatestOwed'  BY <1>1, <1>8 DEF LatestOwed, Trusted
<1>10. ActiveNewest'
  BY <1>1, SameFlash DEF IInv, ActiveNewest, Trusted
<1>11. ASSUME clearFailed = "no", receipt' # NoReceipt PROVE Holds(receipt)'
  <2>1. CASE receipt' = receipt
    <3>1. Holds(receipt)  BY <1>11, <2>1 DEF IInv, ReceiptKept
    <3>2. QED  BY <1>1, <2>1, <3>1, SameFlash DEF Holds
  <2>2. ASSUME NEW i \in PendingFrom(c),
               receipt' = [sector |-> c.sector, slot |-> i,
                           generation |-> region[c.sector].header,
                           seq |-> region[c.sector].slots[i].seq, gone |-> FALSE]
        PROVE  Holds(receipt)'
    <3>1. IsNewest(log.active)  BY <1>1, <1>11 DEF IInv, ActiveNewest, Trusted
    <3>2. c.sector \in ValidSectors  BY <1>4, <1>5 DEF ValidSectors
    <3>3. log.active \in SectorIndex  BY <1>3, TypesAre
    <3>4. region[c.sector].header \in Nat /\ region[log.active].header \in Nat
      BY <1>3, <1>4, <3>3, TypesAre
    <3>5. region[c.sector].header <= region[log.active].header
      BY <3>1, <3>2, <3>4 DEF IsNewest
    <3>6. c.sector # log.active => region[c.sector].header < region[log.active].header
      BY <1>4, <1>5, <1>11, <3>3, <3>4, <3>5 DEF IInv, Distinct
    <3>7. /\ receipt'.sector = c.sector /\ receipt'.slot = i /\ ~receipt'.gone
          /\ receipt'.generation = region[c.sector].header
      BY <2>2
    <3>8. QED  BY <1>1, <1>5, <3>5, <3>6, <3>7 DEF Holds
  <2>3. QED  BY <1>2, <2>1, <2>2
<1>12. ReceiptKept'  BY <1>1, <1>11 DEF ReceiptKept
<1>13. QED  BY <1>7, <1>8, <1>9, <1>10, <1>12 DEF IInv

-----------------------------------------------------------------------------
(* Steps that write a slot, in the active sector or in the one after it      *)

LEMMA PutIs ==
  ASSUME Types, NEW s \in LogSlot
  PROVE  /\ Put(Rotated, s) \in [SectorIndex -> LogSector]
         /\ Target \in SectorIndex /\ TargetSlot \in SlotIndex
         /\ \A k \in SectorIndex : k # Target => Put(Rotated, s)[k] = region[k]
         /\ Put(Rotated, s)[Target].slots[TargetSlot] = s
         /\ ~Rotates =>
              /\ Target = log.active /\ TargetSlot = log.slot
              /\ region[Target].slots[TargetSlot] = BlankSlot
              /\ Put(Rotated, s)[Target].header = region[Target].header
              /\ \A i \in SlotIndex : i # TargetSlot =>
                    Put(Rotated, s)[Target].slots[i] = region[Target].slots[i]
         /\ Rotates =>
              /\ Target = Following(log.active) /\ TargetSlot = 1
              /\ Put(Rotated, s)[Target].header = region[log.active].header + 1
              /\ \A i \in SlotIndex : i # TargetSlot =>
                    Put(Rotated, s)[Target].slots[i] = BlankSlot
<1> DEFINE t == Target
           n == TargetSlot
           r == Put(Rotated, s)
<1>1. log.active \in SectorIndex /\ region \in [SectorIndex -> LogSector]
  BY TypesAre DEF Types
<1>2. t \in SectorIndex  BY <1>1, FollowingIs DEF Target
<1>3. n \in SlotIndex
  BY Sizes DEF TargetSlot, Rotates
<1>4. r = [Rotated EXCEPT ![t] = [Rotated[t] EXCEPT !.slots = [Rotated[t].slots EXCEPT ![n] = s]]]
  BY DEF Put
<1>5. ~Rotates => /\ t = log.active /\ n = log.slot
                  /\ region[t].slots[n] = BlankSlot
                  /\ Rotated = region
  BY DEF Target, TargetSlot, Rotated, Rotates
<1>6. Rotates => /\ t = Following(log.active) /\ n = 1
                 /\ Rotated = [region EXCEPT ![t] = NewSector(region[log.active].header + 1)]
  BY DEF Target, TargetSlot, Rotated, NextGeneration
<1> HIDE DEF t, n, r
<1>7. region[log.active].header + 1 \in Nat  BY <1>1, TypesAre
<1>8. Rotated \in [SectorIndex -> LogSector]
  BY <1>1, <1>2, <1>5, <1>6, <1>7, BlankSectorIs
<1>9. Rotated[t] \in LogSector  BY <1>2, <1>8
<1> DEFINE sector == [Rotated[t] EXCEPT !.slots = [Rotated[t].slots EXCEPT ![n] = s]]
<1>10. /\ sector \in LogSector
       /\ sector.header = Rotated[t].header
       /\ sector.slots[n] = s
       /\ \A i \in SlotIndex : i # n => sector.slots[i] = Rotated[t].slots[i]
  BY <1>3, <1>9 DEF LogSector
<1>11. r = [Rotated EXCEPT ![t] = sector]  BY <1>4
<1> HIDE DEF sector
<1>12. r \in [SectorIndex -> LogSector] /\ r[t] = sector
       /\ \A k \in SectorIndex : k # t => r[k] = Rotated[k]
  BY <1>2, <1>8, <1>10, <1>11
<1>13. \A k \in SectorIndex : k # t => r[k] = region[k]
  BY <1>1, <1>5, <1>6, <1>12
<1>14. Rotates => /\ Rotated[t].header = region[log.active].header + 1
                  /\ \A i \in SlotIndex : Rotated[t].slots[i] = BlankSlot
  BY <1>1, <1>2, <1>6, <1>7, BlankSectorIs
<1>15. ~Rotates =>
          /\ t = log.active /\ n = log.slot
          /\ region[t].slots[n] = BlankSlot
          /\ r[t].header = region[t].header
          /\ \A i \in SlotIndex : i # n => r[t].slots[i] = region[t].slots[i]
  BY <1>5, <1>10, <1>12
<1>16. Rotates =>
          /\ t = Following(log.active) /\ n = 1
          /\ r[t].header = region[log.active].header + 1
          /\ \A i \in SlotIndex : i # n => r[t].slots[i] = BlankSlot
  BY <1>6, <1>10, <1>12, <1>14
<1>17. r[t].slots[n] = s  BY <1>10, <1>12
<1>18. QED  BY <1>2, <1>3, <1>12, <1>13, <1>15, <1>16, <1>17 DEF t, n, r

Wrote(s) ==
    /\ log.up
    /\ region' = Put(Rotated, s)
    /\ clearFailed' = clearFailed

LEMMA WroteFlash ==
  ASSUME IInv, NEW s \in LogSlot, Wrote(s)
  PROVE  /\ region' \in [SectorIndex -> LogSector]
         /\ Target \in SectorIndex /\ TargetSlot \in SlotIndex
         /\ log.active \in SectorIndex
         /\ \A k \in SectorIndex : /\ region[k] \in LogSector
                                   /\ region[k].header \in Nat
         /\ \A k \in SectorIndex : k # Target => region'[k] = region[k]
         /\ region'[Target].slots[TargetSlot] = s
         /\ ~Rotates =>
              /\ Target = log.active /\ TargetSlot = log.slot
              /\ region[Target].slots[TargetSlot] = BlankSlot
              /\ region'[Target].header = region[Target].header
              /\ \A i \in SlotIndex : i # TargetSlot =>
                    region'[Target].slots[i] = region[Target].slots[i]
         /\ Rotates =>
              /\ TargetSlot = 1
              /\ region'[Target].header = region[log.active].header + 1
              /\ \A i \in SlotIndex : i # TargetSlot => region'[Target].slots[i] = BlankSlot
<1>1. Types  BY DEF IInv
<1>2. region' = Put(Rotated, s)  BY DEF Wrote
<1>3. /\ Put(Rotated, s) \in [SectorIndex -> LogSector]
      /\ Target \in SectorIndex /\ TargetSlot \in SlotIndex
      /\ \A k \in SectorIndex : k # Target => Put(Rotated, s)[k] = region[k]
      /\ Put(Rotated, s)[Target].slots[TargetSlot] = s
  BY <1>1, PutIs
<1>4. ~Rotates =>
         /\ Target = log.active /\ TargetSlot = log.slot
         /\ region[Target].slots[TargetSlot] = BlankSlot
         /\ Put(Rotated, s)[Target].header = region[Target].header
         /\ \A i \in SlotIndex : i # TargetSlot =>
               Put(Rotated, s)[Target].slots[i] = region[Target].slots[i]
  BY <1>1, PutIs
<1>5. Rotates =>
         /\ TargetSlot = 1
         /\ Put(Rotated, s)[Target].header = region[log.active].header + 1
         /\ \A i \in SlotIndex : i # TargetSlot => Put(Rotated, s)[Target].slots[i] = BlankSlot
  BY <1>1, PutIs
<1>6. QED  BY <1>1, <1>2, <1>3, <1>4, <1>5, TypesAre

LEMMA WroteNewest ==
  ASSUME IInv, NEW s \in LogSlot, Wrote(s), Trusted
  PROVE  \E k \in SectorIndex : k = Target /\ IsNewest(k)'
<1> DEFINE t == Target
           a == log.active
<1>1. /\ t \in SectorIndex /\ a \in SectorIndex
      /\ \A k \in SectorIndex : region[k].header \in Nat
      /\ \A k \in SectorIndex : k # t => region'[k] = region[k]
      /\ ~Rotates => t = a /\ region'[t].header = region[t].header
      /\ Rotates => region'[t].header = region[a].header + 1
  BY WroteFlash
<1>2. IsNewest(a)  BY DEF IInv, ActiveNewest, Wrote
<1> HIDE DEF t, a
<1>3. a \in ValidSectors /\ region[a].header # 0
  BY <1>2 DEF IsNewest, ValidSectors, NoHeader
<1>4. region'[t].header \in Nat /\ region'[t].header # 0
  BY <1>1, <1>3
<1>5. t \in ValidSectors'  BY <1>1, <1>4 DEF ValidSectors, NoHeader
<1>6. ASSUME NEW j \in ValidSectors'
      PROVE  \/ region'[j].header < region'[t].header
             \/ region'[j].header = region'[t].header /\ t <= j
  <2>1. j \in SectorIndex /\ region'[j].header # NoHeader  BY DEF ValidSectors
  <2>2. CASE j = t
    <3>1. t \in Nat  BY <1>1, Sizes
    <3>2. QED  BY <2>2, <3>1
  <2>3. CASE j # t
    <3>1. j \in ValidSectors /\ region'[j].header = region[j].header
      BY <1>1, <2>1, <2>3 DEF ValidSectors
    <3>2. \/ region[j].header < region[a].header
          \/ region[j].header = region[a].header /\ a <= j
      BY <1>2, <3>1 DEF IsNewest
    <3>3. QED  BY <1>1, <2>1, <3>1, <3>2
  <2>4. QED  BY <2>2, <2>3
<1>7. PICK k \in SectorIndex : k = t  BY <1>1
<1>8. IsNewest(k)'  BY <1>5, <1>6, <1>7 DEF IsNewest
<1>9. QED  BY <1>7, <1>8 DEF t

(* A record that is owed and is not in the sector that was erased stays as   *)
(* it was, before the place that was written.                                *)
LEMMA WroteKeeps ==
  ASSUME IInv, NEW s \in LogSlot, Wrote(s), Trusted, NEW p \in owed \ Forgotten
  PROVE  /\ region'[p[1]].header # NoHeader
         /\ p[2] \in Reached(region'[p[1]])
         /\ Pending(region'[p[1]].slots[p[2]])
         /\ SeqAt(p)' = SeqAt(p)
         /\ p # <<Target, TargetSlot>>
<1> DEFINE t == Target
           n == TargetSlot
           k == p[1]
           i == p[2]
<1>1. /\ p = <<k, i>> /\ k \in SectorIndex /\ i \in SlotIndex
      /\ k \in ValidSectors /\ i \in Reached(region[k])
      /\ Pending(region[k].slots[i])
      /\ SeqAt(p) = region[k].slots[i].seq
  BY OwedIs
<1>2. region[k].header # NoHeader  BY <1>1 DEF ValidSectors
<1>3. /\ region' \in [SectorIndex -> LogSector]
      /\ t \in SectorIndex /\ n \in SlotIndex /\ region[k] \in LogSector
      /\ \A x \in SectorIndex : x # t => region'[x] = region[x]
      /\ ~Rotates =>
           /\ region[t].slots[n] = BlankSlot
           /\ region'[t].header = region[t].header
           /\ \A x \in SlotIndex : x # n => region'[t].slots[x] = region[t].slots[x]
  BY <1>1, WroteFlash
<1>4. Rotates => k # t
  BY <1>1, PlaceIs DEF Forgotten, In
<1> HIDE DEF t, n, k, i
<1>5. CASE k # t
  <2>1. region'[k] = region[k]  BY <1>1, <1>3, <1>5
  <2>2. SeqAt(p)' = region'[k].slots[i].seq  BY DEF SeqAt, k, i
  <2>3. p # <<t, n>>  BY <1>1, <1>5
  <2>4. QED  BY <1>1, <1>2, <2>1, <2>2, <2>3 DEF k, i, t, n
<1>6. CASE k = t
  <2>1. ~Rotates  BY <1>4, <1>6
  <2>2. \A x \in 1 .. i : x \in SlotIndex /\ ~StopsScan(region[k].slots[x])
    BY <1>1, <1>3, ReachedIs
  <2>3. n \notin 1 .. i
    BY <1>3, <1>6, <2>1, <2>2, OtherSlots
  <2>4. \A x \in 1 .. i : x # n /\ region'[k].slots[x] = region[k].slots[x]
    BY <1>3, <1>6, <2>1, <2>2, <2>3
  <2>5. i \in 1 .. i  BY <1>1, Sizes DEF SlotIndex
  <2>6. region'[k].slots[i] = region[k].slots[i] /\ i # n  BY <2>4, <2>5
  <2>7. i \in Reached(region'[k])
    <3>1. region'[k] \in LogSector  BY <1>1, <1>3
    <3>2. \A x \in 1 .. i : ~StopsScan(region'[k].slots[x])  BY <2>2, <2>4
    <3>3. QED  BY <1>1, <3>1, <3>2, ReachedIs
  <2>8. region'[k].header # NoHeader  BY <1>2, <1>3, <1>6, <2>1
  <2>9. SeqAt(p)' = region'[k].slots[i].seq  BY DEF SeqAt, k, i
  <2>10. p # <<t, n>>  BY <1>1, <2>6
  <2>11. QED  BY <1>1, <2>6, <2>7, <2>8, <2>9, <2>10 DEF k, i, t, n
<1>7. QED  BY <1>5, <1>6

(* The records of the sector that was written follow those owed elsewhere.   *)
LEMMA WroteLatest ==
  ASSUME IInv, NEW s \in LogSlot, Wrote(s), Trusted, IsEntry(s) => s.seq = log.next,
         NEW p \in owed \ Forgotten, p[1] # Target,
         NEW i \in SlotIndex, IsEntry(region'[Target].slots[i])
  PROVE  SeqAt(p) < region'[Target].slots[i].seq
<1>1. /\ Target \in SectorIndex
      /\ region'[Target].slots[TargetSlot] = s
      /\ ~Rotates =>
           /\ Target = log.active
           /\ \A x \in SlotIndex : x # TargetSlot =>
                 region'[Target].slots[x] = region[Target].slots[x]
      /\ Rotates =>
           \A x \in SlotIndex : x # TargetSlot => region'[Target].slots[x] = BlankSlot
  BY WroteFlash
<1>2. IsNewest(log.active) /\ SeqAt(p) < log.next
  BY DEF IInv, ActiveNewest, Wrote
<1>3. CASE i = TargetSlot  BY <1>1, <1>2, <1>3
<1>4. CASE i # TargetSlot
  <2>1. ~Rotates  BY <1>1, <1>4, OtherSlots
  <2>2. region'[Target].slots[i] = region[Target].slots[i]  BY <1>1, <1>4, <2>1
  <2>3. SeqAt(p) < region[Target].slots[i].seq
    BY <1>1, <1>2, <2>1, <2>2 DEF IInv, LatestOwed
  <2>4. QED  BY <2>2, <2>3
<1>5. QED  BY <1>3, <1>4

LEMMA WroteDistinct ==
  ASSUME IInv, NEW s \in LogSlot, Wrote(s)
  PROVE  Distinct'
<1> DEFINE t == Target
           a == log.active
<1>1. /\ t \in SectorIndex /\ a \in SectorIndex
      /\ \A k \in SectorIndex : region[k].header \in Nat
      /\ \A k \in SectorIndex : k # t => region'[k] = region[k]
      /\ ~Rotates => region'[t].header = region[t].header
      /\ Rotates => region'[t].header = region[a].header + 1
  BY WroteFlash
<1>2. SUFFICES ASSUME clearFailed = "no", NEW j \in SectorIndex, NEW k \in SectorIndex,
                      j # k, region'[j].header = region'[k].header
               PROVE  region'[j].header = NoHeader
  BY DEF Distinct, Wrote
<1>3. IsNewest(a)  BY <1>2 DEF IInv, ActiveNewest, Wrote, Trusted
<1>4. region[j].header = region[k].header => region[j].header = NoHeader
  BY <1>2 DEF IInv, Distinct
<1> HIDE DEF t, a
<1>5. CASE ~Rotates \/ (j # t /\ k # t)
  <2>1. region'[j].header = region[j].header /\ region'[k].header = region[k].header
    BY <1>1, <1>5
  <2>2. QED  BY <1>2, <1>4, <2>1
<1>6. CASE Rotates /\ (j = t \/ k = t)
  <2>1. PICK x \in SectorIndex : x # t /\ region'[x].header = region[a].header + 1
    BY <1>1, <1>2, <1>6
  <2>2. region[x].header = region[a].header + 1  BY <1>1, <2>1
  <2>3. region[x].header \in Nat /\ region[a].header \in Nat  BY <1>1
  <2>4. x \in ValidSectors  BY <2>2, <2>3 DEF ValidSectors, NoHeader
  <2>5. region[x].header <= region[a].header  BY <1>3, <2>3, <2>4 DEF IsNewest
  <2>6. QED  BY <2>2, <2>3, <2>5
<1>7. QED  BY <1>5, <1>6

LEMMA StaleIs ==
  ASSUME Types, NEW places, receipt # NoReceipt
  PROVE  /\ receipt \in Receipt /\ Stale(places) \in Receipt
         /\ Stale(places).sector = receipt.sector /\ Stale(places).slot = receipt.slot
         /\ Stale(places).generation = receipt.generation
         /\ Stale(places).seq = receipt.seq
         /\ Stale(places).gone <=>
              receipt.gone \/ <<receipt.sector, receipt.slot>> \in places
<1>1. receipt \in Receipt  BY DEF Types
<1>2. CASE <<receipt.sector, receipt.slot>> \in places
  <2>1. Stale(places) = [receipt EXCEPT !.gone = TRUE]  BY <1>2 DEF Stale
  <2>2. QED  BY <1>1, <1>2, <2>1 DEF Receipt
<1>3. CASE <<receipt.sector, receipt.slot>> \notin places
  BY <1>1, <1>3 DEF Stale
<1>4. QED  BY <1>2, <1>3

LEMMA StaleTyped ==
  ASSUME Types, NEW places
  PROVE  /\ Stale(places) = NoReceipt \/ Stale(places) \in Receipt
         /\ receipt = NoReceipt => Stale(places) = NoReceipt
BY StaleIs DEF Stale

LEMMA WroteReceipt ==
  ASSUME IInv, NEW s \in LogSlot, Wrote(s),
         log'.up, log'.active = Target, receipt' = Stale(Forgotten)
  PROVE  ReceiptKept'
<1> DEFINE t == Target
           g == region[log.active].header
           h == region'[t].header
           k == receipt.sector
           i == receipt.slot
<1>1. SUFFICES ASSUME clearFailed = "no", receipt' # NoReceipt
               PROVE  Holds(receipt)'
  BY DEF ReceiptKept, Wrote
<1>2. Types  BY DEF IInv
<1>3. receipt # NoReceipt  BY <1>1, <1>2, StaleTyped
<1>4. Holds(receipt)  BY <1>1, <1>3 DEF IInv, ReceiptKept
<1>5. /\ receipt'.sector = k /\ receipt'.slot = i
      /\ receipt'.generation = receipt.generation /\ receipt'.seq = receipt.seq
      /\ receipt'.gone <=> receipt.gone \/ <<k, i>> \in Forgotten
  BY <1>2, <1>3, StaleIs
<1>6. k \in SectorIndex /\ i \in SlotIndex /\ receipt.generation \in Nat
  BY <1>2, <1>3, StaleIs DEF Receipt
<1>7. /\ t \in SectorIndex /\ g \in Nat
      /\ \A x \in SectorIndex : x # t => region'[x] = region[x]
      /\ ~Rotates =>
           /\ t = log.active /\ h = g
           /\ region[t].slots[TargetSlot] = BlankSlot
           /\ \A x \in SlotIndex : x # TargetSlot => region'[t].slots[x] = region[t].slots[x]
      /\ Rotates => h = g + 1
  BY WroteFlash
<1>8. <<k, i>> \in Forgotten <=> Rotates /\ k = t
  BY <1>6, PlaceIs DEF Forgotten, In
<1>9. /\ receipt.generation <= g
      /\ receipt.gone \/ k # log.active => receipt.generation < g
      /\ ~receipt.gone => IsEntry(region[k].slots[i])
      /\ receipt.gone => ~(Matches(receipt) /\ Pending(region[k].slots[i]))
  BY <1>4 DEF Holds
<1> HIDE DEF t, g, h, k, i
<1>10. receipt.generation <= h
  BY <1>6, <1>7, <1>9
<1>11. receipt'.gone \/ k # t => receipt.generation < h
  BY <1>5, <1>6, <1>7, <1>8, <1>9
<1>12. ~receipt'.gone => IsEntry(region'[k].slots[i])
  <2>1. SUFFICES ASSUME ~receipt'.gone PROVE IsEntry(region'[k].slots[i])
    OBVIOUS
  <2>2. IsEntry(region[k].slots[i]) /\ ~(Rotates /\ k = t)
    BY <1>5, <1>8, <1>9, <2>1
  <2>3. CASE k # t  BY <1>6, <1>7, <2>2, <2>3
  <2>4. CASE k = t
    <3>1. i # TargetSlot  BY <1>7, <2>2, <2>4, OtherSlots
    <3>2. QED  BY <1>6, <1>7, <2>2, <2>4, <3>1
  <2>5. QED  BY <2>3, <2>4
<1>13. receipt'.gone => ~(Matches(receipt)' /\ Pending(region'[k].slots[i]))
  <2>1. SUFFICES ASSUME receipt'.gone, Matches(receipt)', Pending(region'[k].slots[i])
                 PROVE  FALSE
    OBVIOUS
  <2>2. region'[k].header = receipt.generation /\ receipt.generation < h
    BY <1>5, <1>11, <2>1 DEF Matches, SameGeneration
  <2>3. k # t  BY <1>6, <2>2 DEF h
  <2>4. region'[k] = region[k] /\ receipt.gone  BY <1>5, <1>6, <1>7, <1>8, <2>1, <2>3
  <2>5. Matches(receipt)
    BY <1>5, <2>1, <2>4 DEF Matches, SameGeneration, k, i
  <2>6. QED  BY <1>9, <2>1, <2>4, <2>5
<1>14. QED
  BY <1>5, <1>10, <1>11, <1>12, <1>13 DEF Holds, t, h

(* Up to the place that was written a scan goes on.                          *)
LEMMA WrotePrefix ==
  ASSUME IInv, NEW s \in LogSlot, Wrote(s), Trusted
  PROVE  \A i \in 1 .. TargetSlot - 1 : ~StopsScan(region'[Target].slots[i])
<1>1. /\ TargetSlot \in SlotIndex
      /\ ~Rotates =>
           /\ Target = log.active /\ TargetSlot = log.slot
           /\ \A i \in SlotIndex : i # TargetSlot =>
                 region'[Target].slots[i] = region[Target].slots[i]
      /\ Rotates => TargetSlot = 1
  BY WroteFlash
<1>2. \A i \in 1 .. log.slot - 1 : ~StopsScan(region[log.active].slots[i])
  BY DEF IInv, ActiveNewest, Wrote
<1>3. \A i \in 1 .. TargetSlot - 1 : i \in SlotIndex /\ i # TargetSlot
  BY <1>1, Sizes DEF SlotIndex
<1>4. CASE Rotates
  <2>1. 1 .. TargetSlot - 1 = {}  BY <1>1, <1>4
  <2>2. QED  BY <2>1
<1>5. CASE ~Rotates  BY <1>1, <1>2, <1>3, <1>5
<1>6. QED  BY <1>4, <1>5

LEMMA WroteOwed ==
  ASSUME IInv, NEW s \in LogSlot, Wrote(s), IsEntry(s) => s.seq = log.next, Types',
         \/ owed' = owed \ Forgotten
         \/ /\ Trusted /\ s = Entry(log.next, "no") /\ log.next <= MaxSequence
            /\ owed' = (owed \ Forgotten) \cup {<<Target, TargetSlot>>}
  PROVE  OwedFound' /\ NothingOwed' /\ LatestOwed'
<1>1. CASE ~Trusted
  <2>1. owed' = {} /\ clearFailed' = "now"
    BY <1>1 DEF IInv, NothingOwed, Wrote, Trusted
  <2>2. QED  BY <2>1 DEF OwedFound, NothingOwed, LatestOwed, Trusted
<1>2. CASE Trusted
  <2>1. /\ Target \in SectorIndex /\ TargetSlot \in SlotIndex
        /\ region' \in [SectorIndex -> LogSector]
        /\ region'[Target].slots[TargetSlot] = s
    BY WroteFlash
  <2>2. PICK k \in SectorIndex : k = Target /\ IsNewest(k)'
    BY <1>2, WroteNewest
  <2>3. ASSUME NEW p \in owed'
        PROVE  \/ p \in owed \ Forgotten
               \/ /\ p = <<Target, TargetSlot>> /\ s = Entry(log.next, "no")
                  /\ log.next <= MaxSequence
    OBVIOUS
  <2>4. OwedFound'
    <3>1. SUFFICES ASSUME NEW p \in owed'
                   PROVE  /\ region'[p[1]].header # NoHeader
                          /\ p[2] \in Reached(region'[p[1]])
                          /\ Pending(region'[p[1]].slots[p[2]])
      BY DEF OwedFound
    <3>2. CASE p \in owed \ Forgotten  BY <1>2, <3>2, WroteKeeps
    <3>3. CASE /\ p = <<Target, TargetSlot>> /\ s = Entry(log.next, "no")
               /\ log.next <= MaxSequence
      <4>1. p[1] = Target /\ p[2] = TargetSlot  BY <2>1, <3>3, PlaceIs
      <4>2. region'[Target].header # NoHeader
        BY <2>2 DEF IsNewest, ValidSectors
      <4>3. log.next \in 1 .. MaxSequence  BY <3>3, TypesAre, Sizes DEF IInv
      <4>4. Pending(s) /\ ~StopsScan(s)  BY <3>3, <4>3, EntryIs
      <4>5. TargetSlot \in Reached(region'[Target])
        <5>1. \A i \in 1 .. TargetSlot - 1 : ~StopsScan(region'[Target].slots[i])
          BY <1>2, WrotePrefix
        <5>2. \A i \in 1 .. TargetSlot : i \in 1 .. TargetSlot - 1 \/ i = TargetSlot
          BY <2>1, Sizes
        <5>3. \A i \in 1 .. TargetSlot : ~StopsScan(region'[Target].slots[i])
          BY <2>1, <4>4, <5>1, <5>2
        <5>4. region'[Target] \in LogSector  BY <2>1
        <5>5. QED  BY <2>1, <5>3, <5>4, ReachedIs
      <4>6. QED  BY <2>1, <4>1, <4>2, <4>4, <4>5
    <3>4. QED  BY <2>3, <3>2, <3>3
  <2>5. NothingOwed'  BY <1>2 DEF NothingOwed, Trusted, Wrote
  <2>6. LatestOwed'
    <3>1. SUFFICES ASSUME NEW j \in SectorIndex, IsNewest(j)', NEW p \in owed', p[1] # j,
                          NEW i \in SlotIndex, IsEntry(region'[j].slots[i])
                   PROVE  SeqAt(p)' < region'[j].slots[i].seq
      BY DEF LatestOwed
    <3>2. j = Target
      <4>1. (Types => OneNewest)'  BY NewestSingle, PTL
      <4>2. QED  BY <2>2, <3>1, <4>1 DEF OneNewest
    <3>3. p \in owed \ Forgotten  BY <2>1, <2>3, <3>1, <3>2, PlaceIs
    <3>4. SeqAt(p)' = SeqAt(p)  BY <1>2, <3>3, WroteKeeps
    <3>5. SeqAt(p) < region'[Target].slots[i].seq
      BY <1>2, <3>1, <3>2, <3>3, WroteLatest
    <3>6. QED  BY <3>2, <3>4, <3>5
  <2>7. QED  BY <2>4, <2>5, <2>6
<1>3. QED  BY <1>1, <1>2

LEMMA WroteActive ==
  ASSUME IInv, NEW s \in LogSlot, Wrote(s),
         log'.active = Target, log'.slot \in {TargetSlot, TargetSlot + 1},
         log'.slot = TargetSlot + 1 => ~StopsScan(s),
         Trusted => \A p \in owed' : SeqAt(p)' < log'.next
  PROVE  ActiveNewest'
<1>1. SUFFICES ASSUME Trusted
               PROVE  /\ IsNewest(log.active)'
                      /\ \A i \in 1 .. log'.slot - 1 :
                            ~StopsScan(region'[log'.active].slots[i])
  BY DEF ActiveNewest, Trusted, Wrote
<1>2. PICK k \in SectorIndex : k = Target /\ IsNewest(k)'
  BY <1>1, WroteNewest
<1>3. IsNewest(log.active)'
  <2>1. log'.active = k  BY <1>2
  <2>2. QED  BY <1>2, <2>1 DEF IsNewest
<1>4. TargetSlot \in SlotIndex /\ region'[Target].slots[TargetSlot] = s
  BY WroteFlash
<1>5. \A i \in 1 .. TargetSlot - 1 : ~StopsScan(region'[Target].slots[i])
  BY <1>1, WrotePrefix
<1>6. \A i \in 1 .. log'.slot - 1 :
         \/ i \in 1 .. TargetSlot - 1
         \/ i = TargetSlot /\ log'.slot = TargetSlot + 1
  BY <1>4, Sizes
<1>7. QED  BY <1>3, <1>4, <1>5, <1>6

LEMMA Append1Step == ASSUME IInv, Append1 PROVE IInv'
<1> DEFINE s == Entry(log.next, "no")
<1>1. /\ log.up /\ log.next <= MaxSequence
      /\ region' = Put(Rotated, s)
      /\ log' = [log EXCEPT !.active = Target, !.slot = TargetSlot + 1, !.next = log.next + 1]
      /\ owed' = (owed \ Forgotten) \cup
                   IF clearFailed = "now" THEN {} ELSE {<<Target, TargetSlot>>}
      /\ receipt' = Stale(Forgotten)
      /\ cursor' = cursor /\ clearFailed' = clearFailed
  BY DEF Append1
<1>2. Types  BY DEF IInv
<1>3. log.next \in 1 .. MaxSequence  BY <1>1, <1>2, TypesAre, Sizes
<1>4. s \in LogSlot /\ s.seq = log.next /\ ~StopsScan(s)  BY <1>3, EntryIs
<1> HIDE DEF s
<1>5. Wrote(s)  BY <1>1 DEF Wrote
<1>6. /\ region' \in [SectorIndex -> LogSector]
      /\ Target \in SectorIndex /\ TargetSlot \in SlotIndex
  BY <1>4, <1>5, WroteFlash
<1>7. /\ log' \in LogRam /\ log'.up /\ log'.active = Target
      /\ log'.slot = TargetSlot + 1 /\ log'.next = log.next + 1
  <2>1. log.next + 1 \in 1 .. MaxSequence + 1  BY <1>3, Sizes
  <2>2. TargetSlot + 1 \in 1 .. LogSlots + 1  BY <1>6, Sizes DEF SlotIndex
  <2>3. log \in LogRam  BY <1>2 DEF Types
  <2>4. log' \in LogRam  BY <1>1, <1>6, <2>1, <2>2, <2>3 DEF LogRam
  <2>5. QED  BY <1>1, <2>3, <2>4 DEF LogRam
<1>8. Types'
  <2>1. owed' \in SUBSET Place
    <3>1. <<Target, TargetSlot>> \in Place  BY <1>6, PlaceIs
    <3>2. QED  BY <1>1, <1>2, <3>1, TypesAre
  <2>2. receipt' = NoReceipt \/ receipt' \in Receipt  BY <1>1, <1>2, StaleTyped
  <2>3. QED  BY <1>1, <1>2, <1>6, <1>7, <2>1, <2>2 DEF Types
<1>9. OwedFound' /\ NothingOwed' /\ LatestOwed'
  <2>1. CASE Trusted
    <3>1. owed' = (owed \ Forgotten) \cup {<<Target, TargetSlot>>}
      BY <1>1, <2>1 DEF Trusted
    <3>2. QED  BY <1>1, <1>4, <1>5, <1>8, <2>1, <3>1, WroteOwed DEF s
  <2>2. CASE ~Trusted
    <3>1. owed' = owed \ Forgotten  BY <1>1, <2>2 DEF Trusted
    <3>2. QED  BY <1>4, <1>5, <1>8, <3>1, WroteOwed
  <2>3. QED  BY <2>1, <2>2
<1>10. Distinct'  BY <1>4, <1>5, WroteDistinct
<1>11. ReceiptKept'  BY <1>1, <1>4, <1>5, <1>7, WroteReceipt
<1>12. ASSUME Trusted, NEW p \in owed' PROVE SeqAt(p)' < log'.next
  <2>1. CASE p \in owed \ Forgotten
    <3>1. SeqAt(p)' = SeqAt(p)  BY <1>4, <1>5, <1>12, <2>1, WroteKeeps
    <3>2. SeqAt(p) < log.next
      BY <1>1, <1>12, <2>1 DEF IInv, ActiveNewest
    <3>3. SeqAt(p) \in 1 .. MaxSequence  BY <2>1, OwedIs
    <3>4. QED  BY <1>3, <1>7, <3>1, <3>2, <3>3
  <2>2. CASE p = <<Target, TargetSlot>>
    <3>1. p[1] = Target /\ p[2] = TargetSlot  BY <1>6, <2>2, PlaceIs
    <3>2. region'[Target].slots[TargetSlot] = s  BY <1>4, <1>5, WroteFlash
    <3>3. SeqAt(p)' = log.next  BY <1>4, <3>1, <3>2 DEF SeqAt
    <3>4. QED  BY <1>3, <1>7, <3>3
  <2>3. QED  BY <1>1, <2>1, <2>2
<1>13. ActiveNewest'
  BY <1>4, <1>5, <1>7, <1>12, WroteActive
<1>14. QED  BY <1>8, <1>9, <1>10, <1>11, <1>13 DEF IInv

LEMMA AppendBreaksStep == ASSUME IInv, AppendBreaks PROVE IInv'
<1>1. /\ log.up /\ log.next <= MaxSequence
      /\ owed' = owed \ Forgotten /\ clearFailed' = clearFailed
  BY DEF AppendBreaks
<1>2. PICK s \in {BlankSlot, HoleSlot, Garbage, Entry(log.next, "no")} :
         /\ region' = Put(Rotated, s)
         /\ \/ /\ log' = [log EXCEPT !.active = Target, !.slot = TargetSlot]
               /\ receipt' = Stale(Forgotten)
               /\ cursor' = cursor
            \/ RamLost
  BY DEF AppendBreaks
<1>3. Types  BY DEF IInv
<1>4. log.next \in 1 .. MaxSequence  BY <1>1, <1>3, TypesAre, Sizes
<1>5. s \in LogSlot /\ (IsEntry(s) => s.seq = log.next)
  BY <1>4, EntryIs, OtherSlots
<1>6. Wrote(s)  BY <1>1, <1>2 DEF Wrote
<1>7. /\ region' \in [SectorIndex -> LogSector]
      /\ Target \in SectorIndex /\ TargetSlot \in SlotIndex
  BY <1>5, <1>6, WroteFlash
<1>8. owed' \in SUBSET Place  BY <1>1, <1>3, TypesAre
<1>9. Distinct'  BY <1>5, <1>6, WroteDistinct
<1>10. CASE RamLost
  <2>1. Types'  BY <1>1, <1>3, <1>7, <1>8, <1>10, RamLostIs DEF Types
  <2>2. OwedFound' /\ NothingOwed' /\ LatestOwed'
    BY <1>1, <1>5, <1>6, <2>1, WroteOwed
  <2>3. QED  BY <1>9, <1>10, <2>1, <2>2, RamLostIs DEF IInv
<1>11. CASE /\ log' = [log EXCEPT !.active = Target, !.slot = TargetSlot]
            /\ receipt' = Stale(Forgotten)
            /\ cursor' = cursor
  <2>1. /\ log' \in LogRam /\ log'.up /\ log'.active = Target
        /\ log'.slot = TargetSlot /\ log'.next = log.next
    <3>1. TargetSlot \in 1 .. LogSlots + 1  BY <1>7, Sizes DEF SlotIndex
    <3>2. log \in LogRam  BY <1>3 DEF Types
    <3>3. log' \in LogRam  BY <1>7, <1>11, <3>1, <3>2 DEF LogRam
    <3>4. QED  BY <1>1, <1>11, <3>2, <3>3 DEF LogRam
  <2>2. Types'
    <3>1. receipt' = NoReceipt \/ receipt' \in Receipt  BY <1>3, <1>11, StaleTyped
    <3>2. QED  BY <1>1, <1>3, <1>7, <1>8, <1>11, <2>1, <3>1 DEF Types
  <2>3. OwedFound' /\ NothingOwed' /\ LatestOwed'
    BY <1>1, <1>5, <1>6, <2>2, WroteOwed
  <2>4. ReceiptKept'  BY <1>5, <1>6, <1>11, <2>1, WroteReceipt
  <2>5. ASSUME Trusted, NEW p \in owed' PROVE SeqAt(p)' < log'.next
    <3>1. SeqAt(p)' = SeqAt(p)  BY <1>1, <1>5, <1>6, <2>5, WroteKeeps
    <3>2. SeqAt(p) < log.next  BY <1>1, <2>5 DEF IInv, ActiveNewest
    <3>3. QED  BY <2>1, <3>1, <3>2
  <2>6. ActiveNewest'
    <3>1. log'.slot # TargetSlot + 1  BY <1>7, <2>1, Sizes
    <3>2. QED  BY <1>5, <1>6, <2>1, <2>5, <3>1, WroteActive
  <2>7. QED  BY <1>9, <2>2, <2>3, <2>4, <2>6 DEF IInv
<1>12. QED  BY <1>2, <1>10, <1>11

-----------------------------------------------------------------------------
(* Steps that erase sectors *)

LEMMA HalfErasedIs ==
  ASSUME NEW s \in LogSector, NEW r \in HalfErased(s) \cup {BlankSector}
  PROVE  /\ r \in LogSector
         /\ r.header \in {s.header, NoHeader}
         /\ \A i \in SlotIndex : r.slots[i] = s.slots[i] \/ ~IsEntry(r.slots[i])
<1>1. CASE r = BlankSector  BY <1>1, BlankSectorIs, OtherSlots
<1>2. CASE r \in HalfErased(s)
  <2>1. PICK h \in {s.header, NoHeader},
             q \in [SlotIndex -> {BlankSlot, HoleSlot, Garbage} \cup {s.slots[i] : i \in SlotIndex}] :
           /\ r = [header |-> h, slots |-> q]
           /\ \A i \in SlotIndex : \/ q[i] \in {s.slots[i], BlankSlot}
                                   \/ s.slots[i] # BlankSlot /\ ~IsEntry(q[i])
    BY <1>2 DEF HalfErased
  <2>2. \A i \in SlotIndex : s.slots[i] \in LogSlot  BY SectorIs
  <2>3. {s.slots[i] : i \in SlotIndex} \subseteq LogSlot  BY <2>2
  <2>4. q \in [SlotIndex -> LogSlot]  BY <2>1, <2>3, OtherSlots
  <2>5. h \in Nat  BY SectorIs DEF NoHeader
  <2>6. r \in LogSector /\ r.header = h /\ r.slots = q
    BY <2>1, <2>4, <2>5 DEF LogSector
  <2>7. QED  BY <2>1, <2>6, OtherSlots
<1>3. QED  BY <1>1, <1>2

(* Erasing makes no two sectors alike.                                       *)
LEMMA ErasedDistinct ==
  ASSUME IInv, clearFailed' \in {clearFailed, "now"},
         \A k \in SectorIndex : region'[k].header \in {region[k].header, NoHeader}
  PROVE  Distinct'
BY DEF IInv, Distinct

(* A rotation that breaks off spoils the oldest sector, never the active     *)
(* one: that takes two sectors.                                              *)
LEMMA RotateBreaksStep ==
  ASSUME IInv, LogSectors > 1, RotateBreaks
  PROVE  IInv'
<1> DEFINE t == Target
           a == log.active
<1>1. /\ log.up /\ Rotates
      /\ owed' = owed \ In(t) /\ clearFailed' = clearFailed
  BY DEF RotateBreaks
<1>2. PICK s \in HalfErased(region[t]) \cup {BlankSector} :
         /\ region' = [region EXCEPT ![t] = s]
         /\ \/ /\ log' = log
               /\ receipt' = Stale(Unreadable(region'))
               /\ cursor' = cursor
            \/ RamLost
  BY DEF RotateBreaks, RotationFailed
<1>3. Types  BY DEF IInv
<1>4. a \in SectorIndex /\ region \in [SectorIndex -> LogSector]
  BY <1>3, TypesAre DEF Types
<1>5. t \in SectorIndex /\ t # a
  BY <1>1, <1>4, FollowingIs DEF Target
<1> HIDE DEF t
<1>6. /\ s \in LogSector /\ s.header \in {region[t].header, NoHeader}
      /\ \A i \in SlotIndex : s.slots[i] = region[t].slots[i] \/ ~IsEntry(s.slots[i])
  BY <1>4, <1>5, HalfErasedIs
<1>7. /\ region' \in [SectorIndex -> LogSector] /\ region'[t] = s
      /\ \A k \in SectorIndex : k # t => region'[k] = region[k]
  BY <1>2, <1>4, <1>5, <1>6
<1>8. \A k \in SectorIndex : region'[k].header \in {region[k].header, NoHeader}
  BY <1>6, <1>7
<1>9. owed' \in SUBSET Place  BY <1>1, <1>3, TypesAre
<1>10. Types'
  <2>1. CASE RamLost  BY <1>1, <1>3, <1>7, <1>9, <2>1, RamLostIs DEF Types
  <2>2. CASE log' = log /\ receipt' = Stale(Unreadable(region')) /\ cursor' = cursor
    <3>1. receipt' = NoReceipt \/ receipt' \in Receipt  BY <1>3, <2>2, StaleTyped
    <3>2. QED  BY <1>1, <1>3, <1>7, <1>9, <2>2, <3>1 DEF Types
  <2>3. QED  BY <1>2, <2>1, <2>2
<1>11. ASSUME NEW p \in owed'
       PROVE  /\ p \in owed /\ p[1] \in SectorIndex /\ p[1] # t
              /\ region'[p[1]] = region[p[1]] /\ SeqAt(p)' = SeqAt(p)
  <2>1. p \in owed /\ p \notin In(t)  BY <1>1
  <2>2. p = <<p[1], p[2]>> /\ p[1] \in SectorIndex /\ p[2] \in SlotIndex
    BY <2>1, OwedIs
  <2>3. p[1] # t  BY <2>1, <2>2 DEF In
  <2>4. QED  BY <1>7, <2>1, <2>2, <2>3 DEF SeqAt
<1>12. OwedFound'
  <2>1. \A p \in owed' : /\ region'[p[1]] = region[p[1]]
                         /\ region[p[1]].header # NoHeader
                         /\ p[2] \in Reached(region[p[1]])
                         /\ Pending(region[p[1]].slots[p[2]])
    BY <1>11 DEF IInv, OwedFound
  <2>2. QED  BY <2>1 DEF OwedFound
<1>13. NothingOwed'  BY <1>1 DEF IInv, NothingOwed, Trusted
<1>14. Trusted => IsNewest(a) /\ \A k : k = a => IsNewest(k)'
  <2>1. SUFFICES ASSUME Trusted PROVE IsNewest(a) /\ \A k : k = a => IsNewest(k)'
    OBVIOUS
  <2>2. IsNewest(a)  BY <1>1, <2>1 DEF IInv, ActiveNewest
  <2>3. region'[a] = region[a]  BY <1>4, <1>5, <1>7
  <2>4. a \in ValidSectors'  BY <2>2, <2>3 DEF IsNewest, ValidSectors
  <2>5. ASSUME NEW j \in ValidSectors'
        PROVE  j \in ValidSectors /\ region'[j].header = region[j].header
    BY <1>8 DEF ValidSectors
  <2> HIDE DEF a
  <2>6. \A j \in ValidSectors' : \/ region'[j].header < region'[a].header
                                 \/ region'[j].header = region'[a].header /\ a <= j
    BY <2>2, <2>3, <2>5 DEF IsNewest
  <2>7. QED  BY <2>2, <2>4, <2>6 DEF IsNewest
<1>15. LatestOwed'
  <2>1. SUFFICES ASSUME Trusted', NEW j \in SectorIndex, IsNewest(j)', NEW p \in owed', p[1] # j,
                        NEW i \in SlotIndex, IsEntry(region'[j].slots[i])
                 PROVE  SeqAt(p)' < region'[j].slots[i].seq
    BY DEF LatestOwed
  <2>2. Trusted  BY <1>1, <2>1 DEF Trusted
  <2>3. j = a
    <3>1. (Types => OneNewest)'  BY NewestSingle, PTL
    <3>2. PICK k \in SectorIndex : k = a  BY <1>4
    <3>3. IsNewest(k)'  BY <1>14, <2>2, <3>2
    <3>4. QED  BY <1>10, <2>1, <3>1, <3>2, <3>3 DEF OneNewest
  <2>4. region'[a] = region[a]  BY <1>4, <1>5, <1>7
  <2>5. SeqAt(p) < region[a].slots[i].seq
    BY <1>4, <1>11, <1>14, <2>1, <2>2, <2>3, <2>4 DEF IInv, LatestOwed
  <2>6. QED  BY <1>11, <2>3, <2>4, <2>5
<1>16. Distinct'  BY <1>1, <1>8, ErasedDistinct
<1>17. CASE RamLost
  BY <1>10, <1>12, <1>13, <1>15, <1>16, <1>17, RamLostIs DEF IInv
<1>18. CASE log' = log /\ receipt' = Stale(Unreadable(region')) /\ cursor' = cursor
  <2>1. ActiveNewest'
    <3>1. SUFFICES ASSUME Trusted
                   PROVE  /\ IsNewest(log.active)'
                          /\ \A i \in 1 .. log.slot - 1 : ~StopsScan(region'[a].slots[i])
                          /\ \A p \in owed' : SeqAt(p)' < log.next
      BY <1>1, <1>18 DEF ActiveNewest, Trusted
    <3>2. PICK k \in SectorIndex : k = a  BY <1>4
    <3>3. IsNewest(k)' /\ log'.active = k  BY <1>14, <1>18, <3>1, <3>2
    <3>4. IsNewest(log.active)'  BY <3>3 DEF IsNewest
    <3>5. region'[a] = region[a]  BY <1>4, <1>5, <1>7
    <3>6. QED  BY <1>1, <1>11, <3>1, <3>4, <3>5 DEF IInv, ActiveNewest
  <2>2. ReceiptKept'
    <3>1. SUFFICES ASSUME clearFailed = "no", receipt' # NoReceipt
                   PROVE  Holds(receipt)'
      BY <1>1, <1>18 DEF ReceiptKept
    <3> DEFINE k == receipt.sector
               i == receipt.slot
               old == region[k].slots[i]
               new == region'[k].slots[i]
               g == region[a].header
    <3>2. receipt # NoReceipt  BY <1>3, <1>18, <3>1, StaleTyped
    <3>3. Holds(receipt)  BY <3>1, <3>2 DEF IInv, ReceiptKept
    <3>4. /\ receipt'.sector = k /\ receipt'.slot = i
          /\ receipt'.generation = receipt.generation /\ receipt'.seq = receipt.seq
          /\ receipt'.gone <=> receipt.gone \/ <<k, i>> \in Unreadable(region')
      BY <1>3, <1>18, <3>2, StaleIs
    <3>5. k \in SectorIndex /\ i \in SlotIndex /\ receipt.generation \in Nat \ {0}
      BY <1>3, <3>2, StaleIs DEF Receipt
    <3>6. <<k, i>> \in Unreadable(region') <=> ~IsEntry(new)
      BY <3>5, PlaceIs DEF Unreadable
    <3>7. /\ receipt.generation <= g
          /\ receipt.gone \/ k # a => receipt.generation < g
          /\ ~receipt.gone => IsEntry(old)
          /\ receipt.gone => ~(Matches(receipt) /\ Pending(old))
      BY <3>3 DEF Holds
    <3>8. /\ k # t => new = old /\ region'[k] = region[k]
          /\ new = old \/ ~IsEntry(new)
          /\ region'[k].header \in {region[k].header, NoHeader}
          /\ region'[a].header = g
      BY <1>4, <1>5, <1>6, <1>7, <1>8, <3>5
    <3> HIDE DEF k, i, old, new, g, a
    <3>9. receipt'.gone \/ k # a => receipt.generation < g
      BY <1>5, <3>4, <3>6, <3>7, <3>8
    <3>10. ~receipt'.gone => IsEntry(new)  BY <3>4, <3>6
    <3>11. receipt'.gone => ~(Matches(receipt)' /\ Pending(new))
      <4>1. SUFFICES ASSUME receipt'.gone, Matches(receipt)', Pending(new) PROVE FALSE
        OBVIOUS
      <4>2. IsEntry(new)  BY <4>1 DEF Pending
      <4>3. new = old /\ receipt.gone  BY <3>4, <3>6, <3>8, <4>1, <4>2
      <4>4. region'[k].header = receipt.generation /\ new.seq = receipt.seq
        BY <3>4, <4>1 DEF Matches, SameGeneration, new
      <4>5. region[k].header = receipt.generation
        BY <3>5, <3>8, <4>4 DEF NoHeader
      <4>6. Matches(receipt)
        BY <4>2, <4>3, <4>4, <4>5 DEF Matches, SameGeneration, k, i, old
      <4>7. QED  BY <3>7, <4>1, <4>3, <4>6
    <3>12. QED
      BY <1>18, <3>4, <3>7, <3>8, <3>9, <3>10, <3>11 DEF Holds, new, g, a
  <2>3. QED  BY <1>10, <1>12, <1>13, <1>15, <1>16, <2>1, <2>2 DEF IInv
<1>19. QED  BY <1>2, <1>17, <1>18

LEMMA ClearStep == ASSUME IInv, Clear PROVE IInv'
<1> DEFINE g == region[log.active].header
<1>1. /\ region' = [k \in SectorIndex |-> IF k = 0 THEN NewSector(g + 1) ELSE BlankSector]
      /\ log' = [LogOff EXCEPT !.up = TRUE]
      /\ owed' = {} /\ receipt' = Stale(Place)
      /\ cursor' = cursor /\ clearFailed' = clearFailed
  BY DEF Clear, NextGeneration
<1>2. Types  BY DEF IInv
<1>3. g \in Nat  BY <1>2, TypesAre
<1> HIDE DEF g
<1>4. /\ region' \in [SectorIndex -> LogSector]
      /\ region'[0].header = g + 1
      /\ \A k \in SectorIndex : k # 0 => region'[k].header = NoHeader
  <2>1. g + 1 \in Nat  BY <1>3
  <2>2. QED  BY <1>1, <2>1, BlankSectorIs, Sizes
<1>5. /\ log' \in LogRam /\ log'.up /\ log'.active = 0 /\ log'.slot = 1
  <2>1. 1 \in 1 .. LogSlots + 1 /\ 1 \in 1 .. MaxSequence + 1  BY Sizes
  <2>2. QED  BY <1>1, <2>1, Sizes DEF LogOff, LogRam
<1>6. Types'
  <2>1. receipt' = NoReceipt \/ receipt' \in Receipt  BY <1>1, <1>2, StaleTyped
  <2>2. QED  BY <1>1, <1>2, <1>4, <1>5, <2>1 DEF Types
<1>7. OwedFound' /\ NothingOwed' /\ LatestOwed'
  BY <1>1 DEF OwedFound, NothingOwed, LatestOwed
<1>8. IsNewest(0)'
  <2>1. g + 1 # 0 /\ 0 \in SectorIndex  BY <1>3, Sizes
  <2>2. ValidSectors' = {0}  BY <1>4, <2>1 DEF ValidSectors, NoHeader
  <2>3. QED  BY <2>2 DEF IsNewest
<1>9. ActiveNewest'
  <2>1. IsNewest(log.active)'  BY <1>5, <1>8 DEF IsNewest
  <2>2. 1 .. log'.slot - 1 = {}  BY <1>5
  <2>3. QED  BY <1>1, <2>1, <2>2 DEF ActiveNewest
<1>10. Distinct'  BY <1>4 DEF Distinct
<1>11. ReceiptKept'
  <2>1. SUFFICES ASSUME clearFailed = "no", receipt' # NoReceipt
                 PROVE  Holds(receipt)'
    BY <1>1, <1>5 DEF ReceiptKept
  <2>2. receipt # NoReceipt  BY <1>1, <1>2, <2>1, StaleTyped
  <2>3. Holds(receipt)  BY <2>1, <2>2 DEF IInv, ReceiptKept
  <2>4. /\ receipt.sector \in SectorIndex /\ receipt.slot \in SlotIndex
        /\ receipt.generation \in Nat \ {0}
    BY <1>2, <2>2, StaleIs DEF Receipt
  <2>5. /\ receipt'.sector = receipt.sector
        /\ receipt'.generation = receipt.generation
        /\ receipt'.gone
    <3>1. <<receipt.sector, receipt.slot>> \in Place  BY <2>4, PlaceIs
    <3>2. QED  BY <1>1, <1>2, <2>2, <3>1, StaleIs
  <2>6. receipt.generation < g + 1 /\ receipt.generation <= g + 1
    BY <1>3, <2>3, <2>4 DEF Holds, g
  <2>7. ~Matches(receipt)'
    BY <1>4, <2>4, <2>5, <2>6 DEF Matches, SameGeneration, NoHeader
  <2>8. QED  BY <1>4, <1>5, <2>5, <2>6, <2>7 DEF Holds
<1>12. QED  BY <1>6, <1>7, <1>9, <1>10, <1>11 DEF IInv

LEMMA ClearBreaksStep == ASSUME IInv, ClearBreaks PROVE IInv'
<1>1. log.up /\ owed' = {}  BY DEF ClearBreaks, ClearAllowed
<1>2. PICK k \in SectorIndex : \E s \in HalfErased(region[k]) \cup {BlankSector} :
         region' = [j \in SectorIndex |-> IF j < k THEN BlankSector
                                          ELSE IF j = k THEN s ELSE region[j]]
  BY DEF ClearBreaks
<1>3. PICK s \in HalfErased(region[k]) \cup {BlankSector} :
         region' = [j \in SectorIndex |-> IF j < k THEN BlankSector
                                          ELSE IF j = k THEN s ELSE region[j]]
  BY <1>2
<1>4. \/ /\ log' = log /\ cursor' = cursor
         /\ receipt' = Stale(Unreadable(region')) /\ clearFailed' = "now"
      \/ RamLost /\ clearFailed' = clearFailed
  BY DEF ClearBreaks
<1>5. Types  BY DEF IInv
<1>6. \A j \in SectorIndex : region[j] \in LogSector  BY <1>5, TypesAre
<1>7. s \in LogSector /\ s.header \in {region[k].header, NoHeader}
  BY <1>6, HalfErasedIs
<1>8. /\ region' \in [SectorIndex -> LogSector]
      /\ \A j \in SectorIndex : region'[j].header \in {region[j].header, NoHeader}
  BY <1>3, <1>6, <1>7, BlankSectorIs
<1>9. OwedFound' /\ NothingOwed' /\ LatestOwed'
  BY <1>1 DEF OwedFound, NothingOwed, LatestOwed
<1>10. Distinct'  BY <1>4, <1>8, ErasedDistinct
<1>11. CASE RamLost /\ clearFailed' = clearFailed
  <2>1. Types'  BY <1>1, <1>5, <1>8, <1>11, RamLostIs DEF Types
  <2>2. QED  BY <1>9, <1>10, <1>11, <2>1, RamLostIs DEF IInv
<1>12. CASE /\ log' = log /\ cursor' = cursor
            /\ receipt' = Stale(Unreadable(region')) /\ clearFailed' = "now"
  <2>1. receipt' = NoReceipt \/ receipt' \in Receipt  BY <1>5, <1>12, StaleTyped
  <2>2. Types'  BY <1>1, <1>5, <1>8, <1>12, <2>1 DEF Types
  <2>3. ActiveNewest'  BY <1>12 DEF ActiveNewest, Trusted
  <2>4. ReceiptKept'  BY <1>1, <1>12 DEF ReceiptKept
  <2>5. QED  BY <1>9, <1>10, <2>2, <2>3, <2>4 DEF IInv
<1>13. QED  BY <1>4, <1>11, <1>12

(* Without any valid sector nothing is owed, and an open log is one whose    *)
(* Clear failed.                                                             *)
LEMMA NoSectors ==
  ASSUME IInv, ValidSectors = {}
  PROVE  /\ owed = {}
         /\ clearFailed = "no" => receipt = NoReceipt
         /\ \A k \in SectorIndex : region[k].header = NoHeader
<1>1. owed = {}  BY OwedIs
<1>2. \A k : ~IsNewest(k)  BY DEF IsNewest
<1>3. clearFailed = "no" => ~log.up
  BY <1>2 DEF IInv, ActiveNewest, Trusted
<1>4. clearFailed = "no" => receipt = NoReceipt
  BY <1>3 DEF IInv, ReceiptKept
<1>5. QED  BY <1>1, <1>4 DEF ValidSectors

LEMMA LogCreateStep == ASSUME IInv, LogCreate PROVE IInv'
<1>1. /\ ValidSectors = {}
      /\ region' = [region EXCEPT ![0] = NewSector(1)]
      /\ log' = [LogOff EXCEPT !.up = TRUE]
      /\ owed' = owed \ In(0) /\ receipt' = Stale(In(0))
      /\ cursor' = cursor /\ clearFailed' = ClearSeen
  BY DEF LogCreate
<1>2. Types  BY DEF IInv
<1>3. /\ owed' = {}
      /\ clearFailed = "no" => receipt = NoReceipt
      /\ \A k \in SectorIndex : region[k].header = NoHeader
  BY <1>1, NoSectors
<1>4. clearFailed' \in {"no", "once"} /\ (clearFailed' = "no" => clearFailed = "no")
  BY <1>1, <1>2 DEF ClearSeen, Types
<1>5. /\ region' \in [SectorIndex -> LogSector]
      /\ region'[0].header = 1
      /\ \A k \in SectorIndex : k # 0 => region'[k].header = NoHeader
  <2>1. 1 \in Nat /\ region \in [SectorIndex -> LogSector]  BY <1>2 DEF Types
  <2>2. QED  BY <1>1, <1>3, <2>1, BlankSectorIs, Sizes
<1>6. log' \in LogRam /\ log'.up /\ log'.active = 0 /\ log'.slot = 1
  <2>1. 1 \in 1 .. LogSlots + 1 /\ 1 \in 1 .. MaxSequence + 1  BY Sizes
  <2>2. QED  BY <1>1, <2>1, Sizes DEF LogOff, LogRam
<1>7. Types'
  <2>1. receipt' = NoReceipt \/ receipt' \in Receipt  BY <1>1, <1>2, StaleTyped
  <2>2. QED  BY <1>1, <1>2, <1>3, <1>4, <1>5, <1>6, <2>1 DEF Types
<1>8. OwedFound' /\ NothingOwed' /\ LatestOwed'
  BY <1>3 DEF OwedFound, NothingOwed, LatestOwed
<1>9. IsNewest(0)'
  <2>1. 0 \in SectorIndex  BY Sizes
  <2>2. ValidSectors' = {0}  BY <1>5, <2>1 DEF ValidSectors, NoHeader
  <2>3. QED  BY <2>2 DEF IsNewest
<1>10. ActiveNewest'
  <2>1. IsNewest(log.active)'  BY <1>6, <1>9 DEF IsNewest
  <2>2. 1 .. log'.slot - 1 = {}  BY <1>6
  <2>3. QED  BY <1>3, <2>1, <2>2 DEF ActiveNewest
<1>11. Distinct'  BY <1>5 DEF Distinct
<1>12. ReceiptKept'
  <2>1. clearFailed' = "no" => receipt' = NoReceipt
    BY <1>1, <1>2, <1>3, <1>4, StaleTyped
  <2>2. QED  BY <1>6, <2>1 DEF ReceiptKept
<1>13. QED  BY <1>7, <1>8, <1>10, <1>11, <1>12 DEF IInv

LEMMA CreateBreaksStep == ASSUME IInv, CreateBreaks PROVE IInv'
<1>1. /\ ValidSectors = {} /\ RamLost
      /\ owed' = owed \ In(0) /\ clearFailed' = clearFailed
  BY DEF CreateBreaks
<1>2. PICK s \in HalfErased(region[0]) :
         s.header = NoHeader /\ region' = [region EXCEPT ![0] = s]
  BY DEF CreateBreaks
<1>3. Types  BY DEF IInv
<1>4. owed' = {}  BY <1>1, NoSectors
<1>5. region \in [SectorIndex -> LogSector] /\ region[0] \in LogSector
  BY <1>3, Sizes DEF Types
<1>6. s \in LogSector  BY <1>5, HalfErasedIs
<1>7. /\ region' \in [SectorIndex -> LogSector]
      /\ \A k \in SectorIndex : region'[k].header \in {region[k].header, NoHeader}
  BY <1>2, <1>5, <1>6, Sizes
<1>8. Types'  BY <1>1, <1>3, <1>4, <1>7, RamLostIs DEF Types
<1>9. OwedFound' /\ NothingOwed' /\ LatestOwed'
  BY <1>4 DEF OwedFound, NothingOwed, LatestOwed
<1>10. Distinct'  BY <1>1, <1>7, ErasedDistinct
<1>11. QED  BY <1>1, <1>8, <1>9, <1>10, RamLostIs DEF IInv

-----------------------------------------------------------------------------
(* Steps that acknowledge *)

(* Only the commit word of one record changes.                               *)
Marked(place) ==
    /\ region' \in [SectorIndex -> LogSector]
    /\ \A k \in SectorIndex : region'[k].header = region[k].header
    /\ \A k \in SectorIndex, i \in SlotIndex :
         /\ <<k, i>> # place => region'[k].slots[i] = region[k].slots[i]
         /\ <<k, i>> = place =>
              /\ IsEntry(region[k].slots[i]) /\ IsEntry(region'[k].slots[i])
              /\ region'[k].slots[i].seq = region[k].slots[i].seq
              /\ Pending(region'[k].slots[i]) => Pending(region[k].slots[i])

LEMMA MarkedIs ==
  ASSUME Types, NEW place, Marked(place)
  PROVE  /\ \A k \in SectorIndex, i \in SlotIndex :
              /\ IsEntry(region'[k].slots[i]) <=> IsEntry(region[k].slots[i])
              /\ StopsScan(region'[k].slots[i]) <=> StopsScan(region[k].slots[i])
              /\ IsEntry(region[k].slots[i]) =>
                   region'[k].slots[i].seq = region[k].slots[i].seq
              /\ Pending(region'[k].slots[i]) => Pending(region[k].slots[i])
         /\ \A k \in SectorIndex : Reached(region'[k]) = Reached(region[k])
         /\ \A k : IsNewest(k)' <=> IsNewest(k)
<1>1. \A k \in SectorIndex : region[k] \in LogSector /\ region'[k] \in LogSector
  BY TypesAre DEF Marked
<1>2. ASSUME NEW k \in SectorIndex, NEW i \in SlotIndex
      PROVE  /\ IsEntry(region'[k].slots[i]) <=> IsEntry(region[k].slots[i])
             /\ StopsScan(region'[k].slots[i]) <=> StopsScan(region[k].slots[i])
             /\ IsEntry(region[k].slots[i]) =>
                  region'[k].slots[i].seq = region[k].slots[i].seq
             /\ Pending(region'[k].slots[i]) => Pending(region[k].slots[i])
  <2>1. CASE <<k, i>> = place
    <3>1. region[k].slots[i] \in LogSlot /\ region'[k].slots[i] \in LogSlot
      BY <1>1, SectorIs
    <3>2. IsEntry(region[k].slots[i]) /\ IsEntry(region'[k].slots[i])
      BY <2>1 DEF Marked
    <3>3. ~StopsScan(region[k].slots[i]) /\ ~StopsScan(region'[k].slots[i])
      BY <3>1, <3>2, SlotIs
    <3>4. QED  BY <2>1, <3>2, <3>3 DEF Marked
  <2>2. CASE <<k, i>> # place
    <3>1. region'[k].slots[i] = region[k].slots[i]  BY <2>2 DEF Marked
    <3>2. QED  BY <3>1
  <2>3. QED  BY <2>1, <2>2
<1>3. ASSUME NEW k \in SectorIndex PROVE Reached(region'[k]) = Reached(region[k])
  <2>1. \A i \in SlotIndex : \A j \in 1 .. i : j \in SlotIndex
    BY Sizes DEF SlotIndex
  <2>2. \A j \in SlotIndex :
           StopsScan(region'[k].slots[j]) <=> StopsScan(region[k].slots[j])
    BY <1>2
  <2>3. QED  BY <2>1, <2>2 DEF Reached
<1>4. ValidSectors' = ValidSectors  BY DEF Marked, ValidSectors
<1>5. \A k \in ValidSectors : region'[k].header = region[k].header
  BY DEF Marked, ValidSectors
<1>6. \A k : IsNewest(k)' <=> IsNewest(k)  BY <1>4, <1>5 DEF IsNewest
<1>7. QED  BY <1>2, <1>3, <1>6

LEMMA MarkedOwed ==
  ASSUME IInv, NEW place, Marked(place), clearFailed' = clearFailed,
         owed' \in SUBSET owed,
         \/ place \notin owed'
         \/ \A k \in SectorIndex, i \in SlotIndex :
               <<k, i>> = place => Pending(region'[k].slots[i])
  PROVE  /\ OwedFound' /\ NothingOwed' /\ LatestOwed' /\ Distinct'
         /\ \A p \in owed' : SeqAt(p)' = SeqAt(p)
<1>1. Types  BY DEF IInv
<1>2. ASSUME NEW p \in owed'
      PROVE  /\ p = <<p[1], p[2]>> /\ p[1] \in SectorIndex /\ p[2] \in SlotIndex
             /\ region'[p[1]].header # NoHeader
             /\ p[2] \in Reached(region'[p[1]])
             /\ Pending(region'[p[1]].slots[p[2]])
             /\ SeqAt(p)' = SeqAt(p)
  <2>1. /\ p = <<p[1], p[2]>> /\ p[1] \in SectorIndex /\ p[2] \in SlotIndex
        /\ p[1] \in ValidSectors /\ p[2] \in Reached(region[p[1]])
        /\ Pending(region[p[1]].slots[p[2]])
    BY OwedIs
  <2>2. region'[p[1]].header # NoHeader
    BY <2>1 DEF ValidSectors, Marked
  <2>3. p[2] \in Reached(region'[p[1]])  BY <1>1, <2>1, MarkedIs
  <2>4. Pending(region'[p[1]].slots[p[2]])  BY <2>1 DEF Marked
  <2>5. IsEntry(region[p[1]].slots[p[2]])  BY <2>1 DEF Pending
  <2>6. SeqAt(p)' = SeqAt(p)  BY <1>1, <2>1, <2>5, MarkedIs DEF SeqAt
  <2>7. QED  BY <2>1, <2>2, <2>3, <2>4, <2>6
<1>3. OwedFound'  BY <1>2 DEF OwedFound
<1>4. NothingOwed'  BY DEF IInv, NothingOwed, Trusted
<1>5. LatestOwed'
  <2>1. SUFFICES ASSUME Trusted', NEW j \in SectorIndex, IsNewest(j)', NEW p \in owed', p[1] # j,
                        NEW i \in SlotIndex, IsEntry(region'[j].slots[i])
                 PROVE  SeqAt(p)' < region'[j].slots[i].seq
    BY DEF LatestOwed
  <2>2. Trusted /\ p \in owed  BY <2>1 DEF Trusted
  <2>3. /\ IsNewest(j) /\ IsEntry(region[j].slots[i])
        /\ region'[j].slots[i].seq = region[j].slots[i].seq
    BY <1>1, <2>1, MarkedIs
  <2>4. SeqAt(p) < region[j].slots[i].seq
    BY <2>1, <2>2, <2>3 DEF IInv, LatestOwed
  <2>5. QED  BY <1>2, <2>3, <2>4
<1>6. Distinct'  BY DEF IInv, Distinct, Marked
<1>7. QED  BY <1>2, <1>3, <1>4, <1>5, <1>6

LEMMA MarkedRam ==
  ASSUME IInv, NEW place, Marked(place), clearFailed' = clearFailed,
         log' = log, receipt' = receipt,
         owed' \in SUBSET owed, \A p \in owed' : SeqAt(p)' = SeqAt(p)
  PROVE  ActiveNewest' /\ ReceiptKept'
<1>1. Types  BY DEF IInv
<1>2. ActiveNewest'
  <2>1. SUFFICES ASSUME log.up, Trusted
                 PROVE  /\ IsNewest(log.active)'
                        /\ \A i \in 1 .. log.slot - 1 : ~StopsScan(region'[log.active].slots[i])
                        /\ \A p \in owed' : SeqAt(p)' < log.next
    BY DEF ActiveNewest, Trusted
  <2>2. /\ IsNewest(log.active)
        /\ \A i \in 1 .. log.slot - 1 : ~StopsScan(region[log.active].slots[i])
        /\ \A p \in owed : SeqAt(p) < log.next
    BY <2>1 DEF IInv, ActiveNewest
  <2>3. PICK k \in SectorIndex : k = log.active  BY <1>1, TypesAre
  <2>4. IsNewest(k)'  BY <1>1, <2>2, <2>3, MarkedIs
  <2>5. log'.active = k  BY <2>3
  <2>6. IsNewest(log.active)'  BY <2>4, <2>5 DEF IsNewest
  <2>7. \A i \in 1 .. log.slot - 1 : i \in SlotIndex
    <3>1. log.slot \in 1 .. LogSlots + 1  BY <1>1, TypesAre
    <3>2. QED  BY <3>1, Sizes DEF SlotIndex
  <2>8. \A i \in 1 .. log.slot - 1 : ~StopsScan(region'[log.active].slots[i])
    BY <1>1, <2>2, <2>3, <2>7, MarkedIs
  <2>9. QED  BY <2>2, <2>6, <2>8
<1>3. ReceiptKept'
  <2>1. SUFFICES ASSUME clearFailed = "no", receipt # NoReceipt
                 PROVE  Holds(receipt)'
    BY DEF IInv, ReceiptKept
  <2> DEFINE k == receipt.sector
             i == receipt.slot
  <2>2. k \in SectorIndex /\ i \in SlotIndex /\ log.active \in SectorIndex
    BY <1>1, <2>1, StaleIs, TypesAre DEF Receipt
  <2>3. Holds(receipt)  BY <2>1 DEF IInv, ReceiptKept
  <2>4. /\ region'[log.active].header = region[log.active].header
        /\ region'[k].header = region[k].header
    BY <2>2 DEF Marked
  <2>5. /\ IsEntry(region'[k].slots[i]) <=> IsEntry(region[k].slots[i])
        /\ IsEntry(region[k].slots[i]) =>
             region'[k].slots[i].seq = region[k].slots[i].seq
        /\ Pending(region'[k].slots[i]) => Pending(region[k].slots[i])
    BY <1>1, <2>2, MarkedIs
  <2>6. Matches(receipt)' => Matches(receipt)
    BY <2>4, <2>5 DEF Matches, SameGeneration
  <2>7. /\ receipt.generation <= region[log.active].header
        /\ receipt.gone \/ k # log.active => receipt.generation < region[log.active].header
        /\ ~receipt.gone => IsEntry(region[k].slots[i])
        /\ receipt.gone => ~(Matches(receipt) /\ Pending(region[k].slots[i]))
    BY <2>3 DEF Holds
  <2>8. QED  BY <2>4, <2>5, <2>6, <2>7 DEF Holds
<1>4. QED  BY <1>2, <1>3

(* The commit word of the record the receipt is of, when it matches.         *)
LEMMA AckIs ==
  ASSUME Types, receipt # NoReceipt, Matches(receipt), NEW a \in {"no", "half", "yes"},
         a = "yes" \/ Pending(region[receipt.sector].slots[receipt.slot]),
         region' = [region EXCEPT ![receipt.sector].slots[receipt.slot].ack = a]
  PROVE  /\ Marked(<<receipt.sector, receipt.slot>>)
         /\ a # "yes" => \A k \in SectorIndex, i \in SlotIndex :
               <<k, i>> = <<receipt.sector, receipt.slot>> => Pending(region'[k].slots[i])
<1> DEFINE k == receipt.sector
           i == receipt.slot
           old == region[k].slots[i]
           new == [old EXCEPT !.ack = a]
           sector == [region[k] EXCEPT !.slots = [region[k].slots EXCEPT ![i] = new]]
<1>1. k \in SectorIndex /\ i \in SlotIndex  BY StaleIs DEF Receipt
<1>2. region \in [SectorIndex -> LogSector] /\ region[k] \in LogSector
  BY <1>1 DEF Types
<1>3. old \in EntrySlot
  <2>1. old \in LogSlot  BY <1>1, <1>2, SectorIs
  <2>2. IsEntry(old)  BY DEF Matches
  <2>3. QED  BY <2>1, <2>2, SlotIs
<1>4. region' = [region EXCEPT ![k] = sector]  OBVIOUS
<1>5. /\ new \in LogSlot /\ IsEntry(new) /\ IsEntry(old) /\ new.seq = old.seq
      /\ Pending(new) <=> a # "yes"
  BY <1>3 DEF EntrySlot, LogSlot, IsEntry, Pending
<1>6. a = "yes" \/ Pending(old)  OBVIOUS
<1> HIDE DEF k, i, old, new
<1>7. /\ sector \in LogSector /\ sector.header = region[k].header
      /\ sector.slots[i] = new
      /\ \A x \in SlotIndex : x # i => sector.slots[x] = region[k].slots[x]
  BY <1>1, <1>2, <1>5 DEF LogSector
<1> HIDE DEF sector
<1>8. /\ region' \in [SectorIndex -> LogSector] /\ region'[k] = sector
      /\ \A x \in SectorIndex : x # k => region'[x] = region[x]
  BY <1>1, <1>2, <1>4, <1>7
<1>9. \A x \in SectorIndex : region'[x].header = region[x].header
  BY <1>7, <1>8
<1>10. ASSUME NEW x \in SectorIndex, NEW y \in SlotIndex
       PROVE  /\ <<x, y>> # <<k, i>> => region'[x].slots[y] = region[x].slots[y]
              /\ <<x, y>> = <<k, i>> =>
                   /\ IsEntry(region[x].slots[y]) /\ IsEntry(region'[x].slots[y])
                   /\ region'[x].slots[y].seq = region[x].slots[y].seq
                   /\ Pending(region'[x].slots[y]) => Pending(region[x].slots[y])
                   /\ a # "yes" => Pending(region'[x].slots[y])
  <2>1. CASE x = k /\ y = i
    <3>1. region'[x].slots[y] = new /\ region[x].slots[y] = old
      BY <1>7, <1>8, <2>1 DEF old
    <3>2. QED  BY <1>5, <1>6, <2>1, <3>1
  <2>2. CASE x # k \/ y # i
    <3>1. region'[x].slots[y] = region[x].slots[y]  BY <1>7, <1>8, <2>2
    <3>2. <<x, y>> # <<k, i>>  BY <2>2
    <3>3. QED  BY <3>1, <3>2
  <2>3. QED  BY <2>1, <2>2
<1>11. QED  BY <1>8, <1>9, <1>10 DEF Marked, k, i

LEMMA AcknowledgeStep == ASSUME IInv, Acknowledge PROVE IInv'
<1> DEFINE place == <<receipt.sector, receipt.slot>>
<1>1. /\ receipt # NoReceipt /\ Matches(receipt)
      /\ region' = [region EXCEPT ![receipt.sector].slots[receipt.slot].ack = "yes"]
      /\ owed' = owed \ {place}
      /\ log' = log /\ cursor' = cursor /\ receipt' = receipt /\ clearFailed' = clearFailed
  BY DEF Acknowledge
<1>2. Types  BY DEF IInv
<1>3. Marked(place)
  <2>1. "yes" \in {"no", "half", "yes"} /\ "yes" = "yes"  OBVIOUS
  <2>2. QED  BY <1>1, <1>2, <2>1, AckIs
<1> HIDE DEF place
<1>4. owed' \in SUBSET owed /\ place \notin owed'  BY <1>1
<1>5. /\ OwedFound' /\ NothingOwed' /\ LatestOwed' /\ Distinct'
      /\ \A p \in owed' : SeqAt(p)' = SeqAt(p)
  BY <1>1, <1>3, <1>4, MarkedOwed
<1>6. ActiveNewest' /\ ReceiptKept'
  BY <1>1, <1>3, <1>4, <1>5, MarkedRam
<1>7. Types'  BY <1>1, <1>2, <1>3, <1>4 DEF Types, Marked
<1>8. QED  BY <1>5, <1>6, <1>7 DEF IInv

LEMMA AcknowledgeBreaksStep == ASSUME IInv, AcknowledgeBreaks PROVE IInv'
<1> DEFINE place == <<receipt.sector, receipt.slot>>
           old == region[receipt.sector].slots[receipt.slot]
<1>1. /\ receipt # NoReceipt /\ Matches(receipt) /\ Pending(old)
      /\ clearFailed' = clearFailed
  BY DEF AcknowledgeBreaks
<1>2. PICK ack \in {"no", "half", "yes"} :
         /\ region' = [region EXCEPT ![receipt.sector].slots[receipt.slot].ack =
                           IF @ = "half" /\ ack = "no" THEN @ ELSE ack]
         /\ owed' = IF ack = "yes" THEN owed \ {place} ELSE owed
  BY DEF AcknowledgeBreaks
<1>3. \/ log' = log /\ cursor' = cursor /\ receipt' = receipt
      \/ RamLost
  BY DEF AcknowledgeBreaks
<1>4. Types  BY DEF IInv
<1>5. PICK a \in {"no", "half", "yes"} :
         /\ region' = [region EXCEPT ![receipt.sector].slots[receipt.slot].ack = a]
         /\ owed' = IF a = "yes" THEN owed \ {place} ELSE owed
  <2>1. CASE old.ack = "half" /\ ack = "no"
    <3>1. region' = [region EXCEPT ![receipt.sector].slots[receipt.slot].ack = "half"]
      BY <1>2, <2>1
    <3>2. QED  BY <1>2, <2>1, <3>1
  <2>2. CASE ~(old.ack = "half" /\ ack = "no")
    <3>1. region' = [region EXCEPT ![receipt.sector].slots[receipt.slot].ack = ack]
      BY <1>2, <2>2
    <3>2. QED  BY <1>2, <3>1
  <2>3. QED  BY <2>1, <2>2
<1>6. Pending(region[receipt.sector].slots[receipt.slot])  BY <1>1
<1> HIDE DEF old
<1>7. /\ Marked(place)
      /\ a # "yes" => \A k \in SectorIndex, i \in SlotIndex :
            <<k, i>> = place => Pending(region'[k].slots[i])
  BY <1>1, <1>4, <1>5, <1>6, AckIs
<1> HIDE DEF place
<1>8. owed' \in SUBSET owed /\ (a = "yes" => place \notin owed')  BY <1>5
<1>9. /\ OwedFound' /\ NothingOwed' /\ LatestOwed' /\ Distinct'
      /\ \A p \in owed' : SeqAt(p)' = SeqAt(p)
  BY <1>1, <1>7, <1>8, MarkedOwed
<1>10. CASE log' = log /\ cursor' = cursor /\ receipt' = receipt
  <2>1. ActiveNewest' /\ ReceiptKept'  BY <1>1, <1>7, <1>8, <1>9, <1>10, MarkedRam
  <2>2. Types'  BY <1>1, <1>4, <1>7, <1>8, <1>10 DEF Types, Marked
  <2>3. QED  BY <1>9, <2>1, <2>2 DEF IInv
<1>11. CASE RamLost
  <2>1. Types'  BY <1>1, <1>4, <1>7, <1>8, <1>11, RamLostIs DEF Types, Marked
  <2>2. QED  BY <1>9, <1>11, <2>1, RamLostIs DEF IInv
<1>12. QED  BY <1>3, <1>10, <1>11

-----------------------------------------------------------------------------
LEMMA InitHolds == LogInit => IInv
<1> SUFFICES ASSUME LogInit PROVE IInv
  OBVIOUS
<1>1. /\ region = [k \in SectorIndex |-> BlankSector]
      /\ log = LogOff /\ cursor = CursorAtRest /\ receipt = NoReceipt
      /\ owed = {} /\ clearFailed = "no"
  BY DEF LogInit
<1>2. 1 \in 1 .. LogSlots + 1 /\ 1 \in 1 .. MaxSequence + 1 /\ 0 \in 0 .. LogSectors
  BY Sizes
<1>3. log \in LogRam /\ ~log.up  BY <1>1, <1>2, Sizes DEF LogOff, LogRam
<1>4. cursor \in Cursor /\ ~cursor.started
  BY <1>1, <1>2, Sizes DEF CursorAtRest, Cursor
<1>5. region \in [SectorIndex -> LogSector]  BY <1>1, BlankSectorIs
<1>6. Types  BY <1>1, <1>3, <1>4, <1>5 DEF Types
<1>7. \A k \in SectorIndex : region[k].header = NoHeader  BY <1>1, BlankSectorIs
<1>8. QED
  BY <1>1, <1>3, <1>6, <1>7
  DEF IInv, OwedFound, NothingOwed, LatestOwed, ActiveNewest, Distinct, ReceiptKept

LEMMA NextHolds == LogSectors > 1 /\ IInv /\ [LogNext]_logVars => IInv'
<1> SUFFICES ASSUME LogSectors > 1, IInv, [LogNext]_logVars PROVE IInv'
  OBVIOUS
<1>1. CASE UNCHANGED logVars
  <2>1. /\ region' = region /\ log' = log /\ cursor' = cursor /\ receipt' = receipt
        /\ owed' = owed /\ clearFailed' = clearFailed
    BY <1>1 DEF logVars
  <2>2. Types'  BY <2>1 DEF IInv, Types
  <2>3. OwedFound' /\ NothingOwed' /\ Distinct' /\ (Trusted => LatestOwed')
    BY <2>1, SameOwed DEF IInv, Types
  <2>4. LatestOwed'  BY <2>1, <2>3 DEF LatestOwed, Trusted
  <2>5. ActiveNewest'  BY <2>1, SameFlash DEF IInv, ActiveNewest, Trusted
  <2>6. ReceiptKept'  BY <2>1, SameFlash DEF IInv, ReceiptKept, Holds
  <2>7. QED  BY <2>2, <2>3, <2>4, <2>5, <2>6 DEF IInv
<1>2. CASE LogOpen  BY <1>2, LogOpenStep
<1>3. CASE LogCreate  BY <1>3, LogCreateStep
<1>4. CASE CreateBreaks  BY <1>4, CreateBreaksStep
<1>5. CASE LogCut  BY <1>5, LogCutStep
<1>6. CASE Append1  BY <1>6, Append1Step
<1>7. CASE RotateBreaks  BY <1>7, RotateBreaksStep
<1>8. CASE AppendBreaks  BY <1>8, AppendBreaksStep
<1>9. CASE Clear  BY <1>9, ClearStep
<1>10. CASE ClearBreaks  BY <1>10, ClearBreaksStep
<1>11. CASE NextPending  BY <1>11, NextPendingStep
<1>12. CASE Acknowledge  BY <1>12, AcknowledgeStep
<1>13. CASE AcknowledgeBreaks  BY <1>13, AcknowledgeBreaksStep
<1>14. QED
  BY <1>1, <1>2, <1>3, <1>4, <1>5, <1>6, <1>7, <1>8, <1>9, <1>10, <1>11, <1>12, <1>13
  DEF LogNext

LEMMA InvariantMeans == IInv => ReaderSafe
<1> SUFFICES ASSUME IInv PROVE ReaderSafe
  OBVIOUS
<1>1. Types  BY DEF IInv
<1>2. LogTypeOK
  <2>1. \A k \in SectorIndex : /\ region[k].header \in Nat
                               /\ DOMAIN region[k].slots = SlotIndex
    BY <1>1, TypesAre, SectorIs
  <2>2. /\ cursor.sector \in SectorIndex /\ cursor.slot \in 1 .. LogSlots + 1
        /\ cursor.remaining \in 0 .. LogSectors
    BY <1>1 DEF Types, Cursor
  <2>3. cursor.started => cursor.remaining \in 1 .. LogSectors
    BY <1>1, <2>2, Sizes DEF Types
  <2>4. QED  BY <1>1, <2>1, <2>2, <2>3, TypesAre DEF LogTypeOK
<1>3. OwedFound  BY DEF IInv
<1>4. ReceiptNeverStale  BY DEF IInv, ReceiptKept, Holds, ReceiptNeverStale
<1>5. SequenceGrows
  BY DEF IInv, ActiveNewest, NothingOwed, SequenceGrows
<1>6. QED  BY <1>2, <1>3, <1>4, <1>5 DEF ReaderSafe

(* In a region of two sectors or more, of any size, with any number of power *)
(* cuts and calls that fail in the Flash: what Append answered OK for is     *)
(* found until it is acknowledged or its sector is erased, a receipt never   *)
(* acknowledges another record, and sequence numbers go on after a restart   *)
(* (StorageLog_Init, _Append, _Clear, _NextPending, _Acknowledge).  With one *)
(* sector it is not so: a rotation that breaks off takes the header of the   *)
(* sector the next Append goes on with.                                      *)
THEOREM ReaderIsSafe == LogSectors > 1 /\ LogSpec => []ReaderSafe
<1> SUFFICES ASSUME LogSectors > 1 PROVE LogSpec => []ReaderSafe
  OBVIOUS
<1>1. LogInit => IInv  BY InitHolds
<1>2. IInv /\ [LogNext]_logVars => IInv'  BY NextHolds
<1>3. IInv => ReaderSafe  BY InvariantMeans
<1>4. QED  BY <1>1, <1>2, <1>3, PTL DEF LogSpec

-----------------------------------------------------------------------------
(* What holds at 0 and goes on holding holds up to n.                        *)
LEMMA Upward ==
    ASSUME NEW n \in Nat, NEW S, 0 \in S, \A i \in 1 .. n : i - 1 \in S => i \in S
    PROVE  0 .. n \subseteq S
<1> DEFINE Rest == (0 .. n) \ S
           Before == {0 .. i - 1 : i \in Rest}
<1> SUFFICES ASSUME Rest # {}
             PROVE  FALSE
  OBVIOUS
<1>1. Before \subseteq FiniteSubsetsOf(Nat) /\ Before # {}
  <2>1. ASSUME NEW i \in Rest
        PROVE  0 .. i - 1 \in FiniteSubsetsOf(Nat)
    <3>1. IsFiniteSet(0 .. i - 1)
      BY FS_Interval
    <3>2. 0 .. i - 1 \subseteq Nat
      OBVIOUS
    <3> QED
      BY <3>1, <3>2 DEF FiniteSubsetsOf
  <2> HIDE DEF Rest
  <2> QED
    BY <2>1
<1> HIDE DEF Before
<1>2. PICK u \in Before : \A v \in Before : ~(<<v, u>> \in StrictSubsetOrdering(Nat))
  BY <1>1, FS_StrictSubsetOrderingWellFounded, WFMin
<1>3. PICK i \in Rest : u = 0 .. i - 1
  BY DEF Before
<1>4. i - 1 \in Rest
  BY <1>3
<1>5. 0 .. i - 1 - 1 \in Before
  BY <1>4 DEF Before
<1>6. 0 .. i - 1 - 1 \subseteq 0 .. i - 1 /\ i - 1 \in 0 .. i - 1 /\ i - 1 \notin 0 .. i - 1 - 1
  BY <1>3, <1>4
<1>7. <<0 .. i - 1 - 1, u>> \in StrictSubsetOrdering(Nat)
  BY <1>3, <1>6 DEF StrictSubsetOrdering
<1> QED
  BY <1>2, <1>5, <1>7

-----------------------------------------------------------------------------
(* GetRecent                                                                 *)

Places == LogSectors * LogSlots
Before(n) == {PlaceAt(j) : j \in 1 .. n} \cap Committed

(* The scan visits every place, and none twice.                              *)
LEMMA PlaceAtIs ==
  /\ Places \in Nat
  /\ \A p \in Place : \E n \in 1 .. Places : PlaceAt(n) = p
  /\ \A m, n \in 1 .. Places : PlaceAt(m) = PlaceAt(n) => m = n
<1>1. Places \in Nat
  BY Sizes DEF Places
<1>2. ASSUME NEW x \in Nat
      PROVE  /\ x = LogSlots * (x \div LogSlots) + (x % LogSlots)
             /\ x % LogSlots \in Int
  BY Sizes, Z3
<1>3. ASSUME NEW p \in Place
      PROVE  \E n \in 1 .. Places : PlaceAt(n) = p
  <2> DEFINE k == p[1]
             i == p[2]
             n == LogSlots * k + i
  <2>1. /\ p = <<k, i>> /\ LogSectors \in Nat /\ LogSlots \in Nat /\ LogSlots >= 1
        /\ k \in Nat /\ k <= LogSectors - 1
        /\ i \in Nat /\ i >= 1 /\ i <= LogSlots
    BY PlaceIs, Sizes DEF SectorIndex, SlotIndex
  <2> HIDE DEF k, i
  <2>2. LogSlots * k <= LogSlots * (LogSectors - 1)
    BY <2>1
  <2>3. LogSlots * (LogSectors - 1) = LogSectors * LogSlots - LogSlots
    BY <2>1
  <2>4. n \in 1 .. Places
    <3>1. LogSlots * k \in Nat /\ LogSectors * LogSlots \in Nat
      BY <2>1
    <3>2. QED
      BY <2>1, <2>2, <2>3, <3>1 DEF Places
  <2>5. n - 1 = LogSlots * k + (i - 1) /\ i - 1 \in 0 .. LogSlots - 1
    BY <2>1
  <2>6. (n - 1) \div LogSlots = k /\ (n - 1) % LogSlots = i - 1
    <3> HIDE DEF n
    <3>1. n - 1 \in Nat
      BY <2>4, <1>1
    <3>2. (n - 1) \div LogSlots = k
      BY <2>1, <2>5, <3>1, Z3
    <3>3. (n - 1) % LogSlots = i - 1
      <4> DEFINE x == n - 1
                 r == x % LogSlots
      <4>1. x = LogSlots * (x \div LogSlots) + r
        BY <3>1, <1>2
      <4>2. r \in Int
        BY <3>1, <1>2
      <4> HIDE DEF r
      <4>3. x = LogSlots * k + r /\ x = LogSlots * k + (i - 1)
        BY <2>5, <3>2, <4>1
      <4>4. LogSlots * k \in Int
        BY <2>1
      <4>5. r = i - 1
        BY <2>1, <4>2, <4>3, <4>4
      <4>6. QED
        BY <4>5 DEF r
    <3>4. QED
      BY <3>2, <3>3
  <2>7. PlaceAt(n) = p
    BY <2>1, <2>6 DEF PlaceAt
  <2>8. QED
    BY <2>4, <2>7
<1>4. ASSUME NEW m \in 1 .. Places, NEW n \in 1 .. Places, PlaceAt(m) = PlaceAt(n)
      PROVE  m = n
  <2>1. /\ (m - 1) \div LogSlots = (n - 1) \div LogSlots
        /\ ((m - 1) % LogSlots) + 1 = ((n - 1) % LogSlots) + 1
    BY <1>4 DEF PlaceAt
  <2>3. m - 1 \in Nat /\ n - 1 \in Nat
    BY <1>1
  <2>4. (m - 1) % LogSlots = (n - 1) % LogSlots
    BY <1>2, <2>1, <2>3
  <2>5. m - 1 = n - 1
    BY <1>2, <2>1, <2>3, <2>4
  <2>6. QED
    BY <1>1, <2>5
<1>5. QED
  BY <1>1, <1>3, <1>4

LEMMA CommittedIs ==
  ASSUME Types
  PROVE  /\ Committed \subseteq Place
         /\ IsFiniteSet(Committed)
         /\ \A p \in Committed : SeqAt(p) \in 1 .. MaxSequence /\ SeqAt(p) \in Nat
<1>1. Committed \subseteq Place
  BY DEF Committed
<1>2. IsFiniteSet(Place)
  BY Sizes, FS_Product DEF Place
<1>3. ASSUME NEW p \in Committed
      PROVE  SeqAt(p) \in 1 .. MaxSequence
  <2>1. p[1] \in SectorIndex /\ p[2] \in SlotIndex /\ p[2] \in EntriesIn(p[1])
    BY <1>1, PlaceIs DEF Committed
  <2>2. IsEntry(region[p[1]].slots[p[2]]) /\ region[p[1]].slots[p[2]] \in LogSlot
    BY <2>1, TypesAre DEF EntriesIn
  <2>3. QED
    BY <2>2, SlotIs DEF SeqAt
<1>4. QED
  BY <1>1, <1>2, <1>3, FS_Subset, Sizes

(* The place that GetRecent gives up has the least sequence number.          *)
LEMMA ReplacedIs ==
  ASSUME Types, NEW R \in SUBSET Committed, R # {}
  PROVE  /\ ReplacedFirst(R) \in R
         /\ \A q \in R : SeqAt(ReplacedFirst(R)) <= SeqAt(q)
<1> DEFINE O == {w \in R \X R : SeqAt(w[1]) < SeqAt(w[2])}
<1>1. IsFiniteSet(R) /\ \A p \in R : SeqAt(p) \in Nat
  BY CommittedIs, FS_Subset
<1>2. \A x, y \in R : <<x, y>> \in O <=> SeqAt(x) < SeqAt(y)
  OBVIOUS
<1> HIDE DEF O
<1>3. PICK x \in R : \A y \in R : <<y, x>> \notin O
  <2>1. \A y \in R : <<y, y>> \notin O
    BY <1>1, <1>2
  <2>2. \A y, z, u \in R : <<y, z>> \in O /\ <<z, u>> \in O => <<y, u>> \in O
    BY <1>1, <1>2
  <2>3. QED
    BY <1>1, <2>1, <2>2, FirstExists
<1>4. ASSUME NEW y \in R
      PROVE  SeqAt(x) <= SeqAt(y)
  <2>1. ~(SeqAt(y) < SeqAt(x))
    BY <1>2, <1>3
  <2>2. SeqAt(x) \in Nat /\ SeqAt(y) \in Nat
    BY <1>1
  <2>3. QED
    BY <2>1, <2>2
<1>5. QED
  BY <1>4 DEF ReplacedFirst

(* Of the records in S, R holds the newest, max of them if there are.        *)
Newer(S, R, max) ==
  /\ R \subseteq S
  /\ Cardinality(R) = max \/ (R = S /\ Cardinality(R) < max)
  /\ \A p \in R, q \in S \ R : SeqAt(q) <= SeqAt(p)

LEMMA KeptIs ==
  ASSUME Types, NEW max \in Nat \ {0}, NEW S \in SUBSET Committed, NEW R, Newer(S, R, max),
         NEW c \in Committed \ S
  PROVE  Newer(S \cup {c}, Kept(R, c, max), max)
<1> DEFINE T == S \cup {c}
<1>1. R \subseteq S /\ R \subseteq Committed /\ c \notin R /\ T \subseteq Committed
  BY DEF Newer
<1>2. IsFiniteSet(R) /\ Cardinality(R) \in Nat
  BY <1>1, CommittedIs, FS_Subset, FS_CardinalityType
<1>3. \A p \in Committed : SeqAt(p) \in Nat
  BY CommittedIs
<1>4. CASE Cardinality(R) < max
  <2>1. R = S
    BY <1>4 DEF Newer
  <2>2. Kept(R, c, max) = T
    BY <1>4, <2>1 DEF Kept
  <2>3. Cardinality(T) = Cardinality(R) + 1
    BY <1>1, <1>2, <2>1, FS_AddElement
  <2> HIDE DEF T
  <2>4. QED
    BY <1>2, <1>4, <2>2, <2>3 DEF Newer, T
<1>5. CASE ~(Cardinality(R) < max)
  <2> DEFINE o == ReplacedFirst(R)
             U == (R \ {o}) \cup {c}
  <2>1. Cardinality(R) = max
    BY <1>5 DEF Newer
  <2>2. R # {}
    BY <2>1, FS_EmptySet
  <2>3. o \in R /\ \A q \in R : SeqAt(o) <= SeqAt(q)
    BY <1>1, <2>2, ReplacedIs
  <2>4. Cardinality(U) = max
    <3>1. IsFiniteSet(R \ {o}) /\ Cardinality(R \ {o}) = max - 1
      BY <1>2, <2>1, <2>3, FS_RemoveElement
    <3>2. c \notin R \ {o}
      BY <1>1
    <3>3. Cardinality(U) = (max - 1) + 1
      BY <3>1, <3>2, FS_AddElement
    <3>4. QED
      BY <3>3
  <2>5. Kept(R, c, max) = IF SeqAt(c) > SeqAt(o) THEN U ELSE R
    BY <1>5 DEF Kept
  <2> HIDE DEF o
  <2>6. \A p \in R, q \in S \ R : SeqAt(q) <= SeqAt(p)
    BY DEF Newer
  <2>7. CASE SeqAt(c) > SeqAt(o)
    <3>1. Kept(R, c, max) = U
      BY <2>5, <2>7
    <3>2. U \subseteq T
      BY <1>1
    <3>3. ASSUME NEW p \in U, NEW q \in T \ U
          PROVE  SeqAt(q) <= SeqAt(p)
      <4>1. q = o \/ q \in S \ R
        OBVIOUS
      <4>2. SeqAt(q) <= SeqAt(o)
        BY <1>1, <1>3, <2>3, <2>6, <4>1
      <4>3. SeqAt(o) <= SeqAt(p)
        BY <1>1, <1>3, <2>3, <2>7
      <4>4. SeqAt(q) \in Nat /\ SeqAt(p) \in Nat /\ SeqAt(o) \in Nat
        BY <1>1, <1>3, <2>3
      <4>5. QED
        BY <4>2, <4>3, <4>4
    <3> HIDE DEF U
    <3>4. QED
      BY <2>4, <3>1, <3>2, <3>3 DEF Newer
  <2>8. CASE ~(SeqAt(c) > SeqAt(o))
    <3>1. Kept(R, c, max) = R
      BY <2>5, <2>8
    <3>2. ASSUME NEW p \in R, NEW q \in T \ R
          PROVE  SeqAt(q) <= SeqAt(p)
      <4>1. CASE q = c
        <5>1. SeqAt(c) \in Nat /\ SeqAt(p) \in Nat /\ SeqAt(o) \in Nat
          BY <1>1, <1>3, <2>3
        <5>2. SeqAt(o) <= SeqAt(p)
          BY <2>3
        <5>3. QED
          BY <2>8, <4>1, <5>1, <5>2
      <4>2. CASE q # c
        BY <2>6, <4>2
      <4>3. QED
        BY <4>1, <4>2
    <3>3. QED
      BY <1>1, <2>1, <3>1, <3>2 DEF Newer
  <2>9. QED
    BY <2>7, <2>8
<1>6. QED
  BY <1>4, <1>5

(* f holds what GetRecent keeps after each of the first n places.            *)
Visit(r, i, max) == IF PlaceAt(i) \in Committed THEN Kept(r, PlaceAt(i), max) ELSE r
Visits(max, n, f) == f = [i \in 0 .. n |-> IF i = 0 THEN {} ELSE Visit(f[i - 1], i, max)]

LEMMA VisitsExist ==
  ASSUME NEW max, NEW n \in Nat
  PROVE  \E f : Visits(max, n, f)
<1> DEFINE S == {k \in 0 .. n : \E f : Visits(max, k, f)}
<1>1. 0 \in S
  <2> DEFINE f == [i \in 0 .. 0 |-> {}]
  <2>1. f = [i \in 0 .. 0 |-> IF i = 0 THEN {} ELSE Visit(f[i - 1], i, max)]
    OBVIOUS
  <2>2. Visits(max, 0, f)
    BY <2>1 DEF Visits
  <2>3. QED
    BY <2>2
<1>2. ASSUME NEW k \in 1 .. n, k - 1 \in S
      PROVE  k \in S
  <2>1. PICK f : Visits(max, k - 1, f)
    BY <1>2
  <2> DEFINE g == [i \in 0 .. k |-> IF i = k THEN Visit(f[k - 1], k, max) ELSE f[i]]
             e(i) == IF i = 0 THEN {} ELSE Visit(g[i - 1], i, max)
             d(i) == IF i = 0 THEN {} ELSE Visit(f[i - 1], i, max)
  <2>2. f = [i \in 0 .. k - 1 |-> d(i)]
    BY <2>1 DEF Visits
  <2>3. ASSUME NEW i \in 0 .. k
        PROVE  g[i] = e(i)
    <3>1. CASE i = k
      <4>1. g[k - 1] = f[k - 1] /\ g[k] = Visit(f[k - 1], k, max)
        OBVIOUS
      <4> HIDE DEF g
      <4>2. QED
        BY <3>1, <4>1
    <3>2. CASE i # k
      <4>1. g[i] = f[i] /\ i \in 0 .. k - 1
        BY <3>2
      <4>2. f[i] = d(i)
        <5> HIDE DEF d, g, e
        <5>1. QED
          BY <2>2, <4>1
      <4>3. i # 0 => g[i - 1] = f[i - 1]
        BY <4>1
      <4> HIDE DEF g
      <4>4. QED
        BY <4>1, <4>2, <4>3
    <3>3. QED
      BY <3>1, <3>2
  <2>4. g = [i \in 0 .. k |-> g[i]]
    OBVIOUS
  <2>5. g = [i \in 0 .. k |-> e(i)]
    <3> HIDE DEF g, e
    <3>1. QED
      BY <2>3, <2>4
  <2>6. Visits(max, k, g)
    BY <2>5 DEF Visits
  <2>7. QED
    BY <2>6
<1>3. n \in S
  <2> HIDE DEF S
  <2>1. QED
    BY <1>1, <1>2, Upward
<1>4. QED
  BY <1>3

LEMMA RecentIs ==
  ASSUME NEW max
  PROVE  \E f : Visits(max, Places, f) /\ Recent(max) = f[Places]
<1> DEFINE f == CHOOSE f : Visits(max, Places, f)
<1>1. Visits(max, Places, f)
  <2>1. \E g : Visits(max, Places, g)
    BY PlaceAtIs, VisitsExist
  <2>2. QED
    BY <2>1, Zenon
<1>2. Recent(max) = f[Places]
  BY DEF Recent, Visits, Visit, Places
<1>3. QED
  BY <1>1, <1>2

LEMMA RecentHolds == Types => RecentAreNewest
<1> SUFFICES ASSUME Types, NEW max \in 1 .. LogSlots + 1
             PROVE  /\ Recent(max) \subseteq Committed
                    /\ Cardinality(Recent(max)) = max \/ Recent(max) = Committed
                    /\ \A p \in Recent(max), q \in Committed \ Recent(max) : SeqAt(q) <= SeqAt(p)
  BY DEF RecentAreNewest
<1>1. max \in Nat \ {0}
  BY Sizes
<1>2. PICK f : Visits(max, Places, f) /\ Recent(max) = f[Places]
  BY RecentIs
<1> DEFINE S == {n \in 0 .. Places : Newer(Before(n), f[n], max)}
<1>3. \A n \in 0 .. Places : f[n] = IF n = 0 THEN {} ELSE Visit(f[n - 1], n, max)
  BY <1>2 DEF Visits
<1>4. 0 \in S
  <2>1. f[0] = {} /\ Before(0) = {} /\ 0 \in 0 .. Places
    BY <1>3, PlaceAtIs DEF Before
  <2>2. Cardinality({}) = 0
    BY FS_EmptySet
  <2>3. QED
    BY <1>1, <2>1, <2>2 DEF Newer
<1>5. ASSUME NEW n \in 1 .. Places, n - 1 \in S
      PROVE  n \in S
  <2>1. n \in 0 .. Places /\ f[n] = Visit(f[n - 1], n, max) /\ Newer(Before(n - 1), f[n - 1], max)
    BY <1>3, <1>5, PlaceAtIs
  <2>2. Before(n) = Before(n - 1) \cup ({PlaceAt(n)} \cap Committed)
    <3>1. 1 .. n = (1 .. n - 1) \cup {n}
      BY PlaceAtIs
    <3>2. QED
      BY <3>1 DEF Before
  <2>3. PlaceAt(n) \notin Before(n - 1)
    <3>1. \A j \in 1 .. n - 1 : j \in 1 .. Places /\ j # n
      BY PlaceAtIs
    <3>2. QED
      BY <3>1, PlaceAtIs DEF Before
  <2>4. Before(n - 1) \subseteq Committed
    BY DEF Before
  <2>5. CASE PlaceAt(n) \in Committed
    <3>1. Before(n) = Before(n - 1) \cup {PlaceAt(n)}
      BY <2>2, <2>5
    <3>2. Newer(Before(n - 1) \cup {PlaceAt(n)}, Kept(f[n - 1], PlaceAt(n), max), max)
      BY <1>1, <2>1, <2>3, <2>4, <2>5, KeptIs
    <3>3. QED
      BY <2>1, <2>5, <3>1, <3>2 DEF Visit
  <2>6. CASE PlaceAt(n) \notin Committed
    BY <2>1, <2>2, <2>6 DEF Visit
  <2>7. QED
    BY <2>5, <2>6
<1>6. Newer(Committed, f[Places], max)
  <2>1. Before(Places) = Committed
    BY PlaceAtIs, CommittedIs DEF Before
  <2>2. Places \in S
    <3> HIDE DEF S
    <3>1. 0 .. Places \subseteq S
      BY <1>4, <1>5, PlaceAtIs, Upward
    <3>2. QED
      BY <3>1, PlaceAtIs
  <2>3. QED
    BY <2>1, <2>2
<1>7. QED
  BY <1>2, <1>6 DEF Newer

(* In a region of two sectors or more, of any size: GetRecent finds the      *)
(* newest committed records, as many as are asked for or all there are,      *)
(* wherever the ring begins and whatever power cuts left behind              *)
(* (StorageLog_GetRecent).                                                   *)
THEOREM RecentIsRight == LogSectors > 1 /\ LogSpec => []RecentAreNewest
<1> SUFFICES ASSUME LogSectors > 1 PROVE LogSpec => []RecentAreNewest
  OBVIOUS
<1>1. LogInit => IInv  BY InitHolds
<1>2. IInv /\ [LogNext]_logVars => IInv'  BY NextHolds
<1>3. IInv => RecentAreNewest  BY RecentHolds DEF IInv
<1>4. QED  BY <1>1, <1>2, <1>3, PTL DEF LogSpec

-----------------------------------------------------------------------------

(* The chip and its partitions.                                             *)

(* The table of the product: a partition that offers an erase unit begins   *)
(* at a multiple of it.  ValidateTable asks for this of sectors only.       *)
BlocksAligned ==
    \A p \in DOMAIN Table : \A size \in EraseSizes :
        Writable(p) /\ size <= Table[p].size => Table[p].base % size = 0

Running == call.stage \in {"ready", "enabled", "waiting"}

(* The program or erase that is under way is the one the driver waits for.  *)
Latched ==
    /\ chip.busy /\ dev.up => dev.needsReady
    /\ ~chip.busy => chip.after = chip.cells
    /\ call # NoCall => dev.up
    /\ call.stage = "enabled" => ~chip.busy /\ chip.wel /\ call.op \in {"write", "erase"}
    /\ call.stage = "waiting" => call.op \in {"write", "erase"}

(* The call is about a range of one partition, and has come as far as at.   *)
CallInRange ==
    /\ call.stage = "idle" <=> call = NoCall
    /\ call # NoCall =>
         /\ call.from < call.upto /\ call.upto <= MediaSize
         /\ call.op = "write" /\ Running => call.from <= call.at /\ call.at < call.upto
         /\ call.op = "erase" => call.at = call.from
         /\ call.op \in {"read", "write", "erase"}

(* What has been written so far, and what an erase leaves.                  *)
CallDone ==
    /\ call.op = "write" =>
         /\ Span \subseteq touched
         /\ Running => call.from .. call.at - 1 \subseteq chip.after
         /\ call.stage = "waiting" => call.at .. call.at + Chunk - 1 \subseteq chip.after
    /\ call.op = "erase" =>
         /\ Span \cap programmed = {}
         /\ call.stage = "waiting" => Span \cap chip.after = {}

ContentsBounded ==
    /\ programmed \subseteq chip.cells /\ chip.cells \subseteq touched
    /\ programmed \subseteq chip.after /\ chip.after \subseteq touched

PInv == W25QTypeOK /\ Latched /\ CallInRange /\ CallDone /\ ContentsBounded /\ AnswersTrue

-----------------------------------------------------------------------------
(* A chunk is not empty, not longer than what is left, and stays in its     *)
(* page, so that the chip puts every byte where the driver wants it.        *)
LEMMA ChunkInPage ==
    ASSUME NEW at \in Nat, NEW left \in Nat \ {0}
    PROVE  /\ PageChunk(at, left) \in 1 .. left
           /\ \A i \in 0 .. PageChunk(at, left) - 1 : PagePlace(at, i) = at + i
<1>1. at % PageSize \in 0 .. PageSize - 1
  BY W25QAssumption
<1> QED
  BY <1>1, W25QAssumption DEF PageChunk, PagePlace

(* What a program or erase of the given content leaves when the chip takes  *)
(* it.                                                                      *)
LEMMA BegunFacts ==
    ASSUME W25QTypeOK, NEW content \in SUBSET Address, ~chip.busy, chip.wel
    PROVE  Begun(content) = [busy |-> TRUE, wel |-> FALSE, cells |-> chip.cells, after |-> content]
BY DEF W25QTypeOK, Begun

THEOREM PInit == PartitionInit => PInv
BY W25QAssumption DEF PartitionInit, W25QStart, FlashAtRest, NoCall, PInv, W25QTypeOK, Stages,
   Latched, CallInRange, CallDone, ContentsBounded, AnswersTrue, Address, Running

-----------------------------------------------------------------------------
(* A failed call promises nothing any more; the chip may do what it began.  *)
LEMMA FailKeeps ==
    ASSUME PInv, call # NoCall, Fails,
           chip' \in [busy : BOOLEAN, wel : BOOLEAN, cells : SUBSET Address, after : SUBSET Address],
           dev' \in [up : BOOLEAN, needsReady : BOOLEAN], dev'.up = dev.up,
           spiFaults' \in 0 .. MaxSpiFaults,
           chip'.busy => dev'.needsReady, ~chip'.busy => chip'.after = chip'.cells,
           UNCHANGED <<programmed, touched>>, ContentsBounded'
    PROVE  PInv'
<1>1. /\ call' \in [stage : Stages, op : {"none", "read", "write", "erase"},
                   from : Nat, upto : Nat, at : Nat, value : SUBSET Address]
      /\ call'.stage = "failed" /\ call'.op = call.op /\ call'.from = call.from
      /\ call'.upto = call.upto /\ call'.at = call.at
  BY DEF PInv, W25QTypeOK, Fails, Stages
<1>2. call' # NoCall /\ dev.up
  BY <1>1 DEF NoCall, PInv, Latched
<1>3. W25QTypeOK'
  BY <1>1 DEF W25QTypeOK
<1>4. Latched'
  BY <1>1, <1>2 DEF Latched
<1>5. CallInRange' /\ CallDone'
  BY <1>1, <1>2 DEF PInv, CallInRange, CallDone, Running, Span
<1>6. AnswersTrue'
  BY <1>1 DEF AnswersTrue
<1> QED
  BY <1>3, <1>4, <1>5, <1>6 DEF PInv

(* The driver's steps.                                                      *)
LEMMA PollKeeps ==
    ASSUME PInv, PollStatus, UNCHANGED <<programmed, touched>>
    PROVE  PInv'
<1> USE DEF PInv
<1>0. call # NoCall /\ dev.up
  BY DEF PollStatus, NoCall, Latched
<1>1. CASE SpiFault /\ Fails /\ UNCHANGED dev
  <2>1. chip' = chip /\ spiFaults' \in 0 .. MaxSpiFaults
    BY <1>1, W25QAssumption DEF PollStatus, SpiFault, W25QTypeOK
  <2> QED
    BY <1>0, <1>1, <2>1, FailKeeps DEF W25QTypeOK, Latched, ContentsBounded
<1>2. CASE ~SpiFault \/ ~Fails \/ dev' # dev
  <2>1. /\ ~chip.busy /\ UNCHANGED <<chip, spiFaults>>
        /\ dev' = [dev EXCEPT !.needsReady = FALSE]
        /\ call' = IF call.stage = "ready" THEN call
                   ELSE IF ChunkDone THEN [call EXCEPT !.stage = "ready", !.at = @ + Chunk]
                   ELSE [call EXCEPT !.stage = "ok"]
    BY <1>2 DEF PollStatus
  <2>2. dev' \in [up : BOOLEAN, needsReady : BOOLEAN] /\ dev'.up
    BY <1>0, <2>1 DEF W25QTypeOK
  <2>3. CASE call.stage = "ready"
    <3>1. call' = call
      BY <2>1, <2>3
    <3> QED
      BY <1>0, <2>1, <2>2, <3>1, <2>3 DEF W25QTypeOK, Latched, CallInRange, CallDone,
         ContentsBounded, AnswersTrue, Span, Running, Chunk
  <2>4. CASE call.stage = "waiting" /\ ChunkDone
    <3>1. /\ call.op = "write" /\ call.at + Chunk < call.upto
          /\ call' = [call EXCEPT !.stage = "ready", !.at = @ + Chunk]
      BY <2>1, <2>4 DEF ChunkDone
    <3>2. Chunk \in 1 .. call.upto - call.at
      BY <3>1, <2>4, ChunkInPage DEF W25QTypeOK, CallInRange, Running, Chunk
    <3>3. /\ call' \in [stage : Stages, op : {"none", "read", "write", "erase"},
                       from : Nat, upto : Nat, at : Nat, value : SUBSET Address]
          /\ call'.stage = "ready" /\ call'.op = "write" /\ call'.from = call.from
          /\ call'.upto = call.upto /\ call'.at = call.at + Chunk
      <4>1. call.at + Chunk \in Nat
        BY <3>2 DEF W25QTypeOK
      <4> QED
        BY <3>1, <4>1 DEF W25QTypeOK, Stages
    <3>4. W25QTypeOK' /\ Latched'
      BY <1>0, <2>1, <2>2, <3>3 DEF W25QTypeOK, Latched
    <3>5. CallInRange'
      <4>1. call' # NoCall /\ call'.stage # "idle"
        BY <3>3 DEF NoCall
      <4>2. call.from <= call.at + Chunk /\ call.at + Chunk < call.upto
        BY <1>0, <2>4, <3>1, <3>2 DEF W25QTypeOK, CallInRange, Running
      <4> QED
        BY <1>0, <3>1, <3>3, <4>1, <4>2 DEF CallInRange
    <3>6. call'.from .. call'.at - 1 \subseteq chip.after
      BY <2>4, <3>1, <3>2, <3>3 DEF W25QTypeOK, CallInRange, CallDone, Running
    <3>7. CallDone' /\ ContentsBounded' /\ AnswersTrue'
      BY <2>1, <3>1, <3>3, <3>6 DEF CallDone, ContentsBounded, AnswersTrue, Span
    <3> QED
      BY <3>4, <3>5, <3>7
  <2>5. CASE call.stage = "waiting" /\ ~ChunkDone
    <3>1. call' = [call EXCEPT !.stage = "ok"]
      BY <2>1, <2>5
    <3>2. /\ call' \in [stage : Stages, op : {"none", "read", "write", "erase"},
                       from : Nat, upto : Nat, at : Nat, value : SUBSET Address]
          /\ call'.stage = "ok" /\ call'.op = call.op /\ call'.from = call.from
          /\ call'.upto = call.upto /\ call'.at = call.at
      BY <3>1 DEF W25QTypeOK, Stages
    <3>3. W25QTypeOK' /\ Latched' /\ CallInRange' /\ CallDone' /\ ContentsBounded'
      BY <1>0, <2>1, <2>2, <2>5, <3>2
         DEF W25QTypeOK, Latched, CallInRange, CallDone, ContentsBounded, Running, Span, NoCall
    <3>4. CASE call.op = "write"
      <4>1. call.at + Chunk >= call.upto /\ Chunk \in 1 .. call.upto - call.at
        BY <2>5, <3>4, ChunkInPage DEF ChunkDone, W25QTypeOK, CallInRange, Running, Chunk
      <4>2. Span \subseteq chip.after
        BY <2>5, <3>4, <4>1 DEF Span, W25QTypeOK, CallInRange, CallDone, Running
      <4> QED
        BY <2>1, <3>2, <3>3, <3>4, <4>2 DEF AnswersTrue, Span, Latched
    <3>5. CASE call.op = "erase"
      BY <2>1, <2>5, <3>2, <3>3, <3>5 DEF AnswersTrue, Span, Latched, CallDone
    <3> QED
      BY <2>5, <3>4, <3>5 DEF Latched
  <2> QED
    BY <2>3, <2>4, <2>5 DEF PollStatus
<1> QED
  BY <1>1, <1>2

(* A command is sent only into a chip at rest.                              *)
LEMMA ReadyAtRest ==
    ASSUME PInv, call # NoCall, ~ReadyLatched
    PROVE  ~chip.busy
BY DEF PInv, Latched, ReadyLatched

LEMMA WriteEnableKeeps ==
    ASSUME PInv, WriteEnable, UNCHANGED <<programmed, touched>>
    PROVE  PInv'
<1> USE DEF PInv
<1>1. call # NoCall /\ dev.up /\ ~chip.busy
  BY ReadyAtRest DEF WriteEnable, NoCall, Latched
<1>2. Enabled = [chip EXCEPT !.wel = TRUE]
  BY <1>1 DEF Enabled
<1>3. /\ chip' \in [busy : BOOLEAN, wel : BOOLEAN, cells : SUBSET Address, after : SUBSET Address]
      /\ ~chip'.busy /\ chip'.cells = chip.cells /\ chip'.after = chip.after
  BY <1>1, <1>2 DEF WriteEnable, W25QTypeOK
<1>4. CASE SpiFault /\ Fails
  <2>1. spiFaults' \in 0 .. MaxSpiFaults
    BY <1>4, W25QAssumption DEF SpiFault, W25QTypeOK
  <2> QED
    BY <1>1, <1>3, <1>4, <2>1, FailKeeps DEF WriteEnable, W25QTypeOK, Latched, ContentsBounded
<1>5. CASE chip' = Enabled /\ call' = [call EXCEPT !.stage = "enabled"] /\ UNCHANGED spiFaults
  <2>1. /\ call' \in [stage : Stages, op : {"none", "read", "write", "erase"},
                     from : Nat, upto : Nat, at : Nat, value : SUBSET Address]
        /\ call'.stage = "enabled" /\ call'.op = call.op /\ call'.from = call.from
        /\ call'.upto = call.upto /\ call'.at = call.at
    BY <1>5 DEF W25QTypeOK, Stages
  <2>2. chip'.wel
    BY <1>2, <1>5 DEF W25QTypeOK
  <2>3. W25QTypeOK' /\ Latched' /\ ContentsBounded'
    BY <1>1, <1>3, <1>5, <2>1, <2>2 DEF WriteEnable, W25QTypeOK, Latched, ContentsBounded
  <2>4. CallInRange' /\ CallDone' /\ AnswersTrue'
    BY <1>1, <1>3, <2>1 DEF WriteEnable, CallInRange, CallDone, AnswersTrue, Running, Span, NoCall
  <2> QED
    BY <2>3, <2>4
<1> QED
  BY <1>4, <1>5 DEF WriteEnable

(* What a program leaves in the chip, for a chunk or a part of one.         *)
LEMMA ProgrammedFacts ==
    ASSUME PInv, call.stage = "enabled", call.op = "write", NEW length \in 1 .. Chunk
    PROVE  /\ Chunk \in 1 .. call.upto - call.at
           /\ Programmed(call.at, length) =
                [busy |-> TRUE, wel |-> FALSE, cells |-> chip.cells,
                 after |-> chip.cells \cup (call.at .. call.at + length - 1)]
           /\ call.at .. call.at + length - 1 \subseteq Span \cap Address
<1> USE DEF PInv
<1>1. /\ call # NoCall /\ ~chip.busy /\ chip.wel
      /\ call.at \in Nat /\ call.from \in Nat /\ call.upto \in Nat
      /\ call.from <= call.at /\ call.at < call.upto /\ call.upto <= MediaSize
  BY DEF NoCall, Latched, W25QTypeOK, CallInRange, Running
<1>2. /\ Chunk \in 1 .. call.upto - call.at
      /\ \A i \in 0 .. Chunk - 1 : PagePlace(call.at, i) = call.at + i
  BY <1>1, ChunkInPage DEF Chunk
<1>3. {PagePlace(call.at, i) : i \in 0 .. length - 1} = {call.at + i : i \in 0 .. length - 1}
  BY <1>2
<1>4. {call.at + i : i \in 0 .. length - 1} = call.at .. call.at + length - 1
  <2>1. \A a \in call.at .. call.at + length - 1 :
          a - call.at \in 0 .. length - 1 /\ a = call.at + (a - call.at)
    BY <1>1, <1>2
  <2> QED
    BY <1>1, <1>2, <2>1
<1>5. call.at .. call.at + length - 1 \subseteq Span \cap Address
  BY <1>1, <1>2, W25QAssumption DEF Span, Address
<1>6. chip.cells \cup (call.at .. call.at + length - 1) \in SUBSET Address
  BY <1>5 DEF W25QTypeOK
<1> QED
  BY <1>1, <1>2, <1>3, <1>4, <1>5, <1>6, BegunFacts DEF Programmed

LEMMA ChunkOfCall ==
    ASSUME PInv, call.stage = "enabled", call.op = "write"
    PROVE  Chunk \in 1 .. Chunk
<1>1. /\ call.at \in Nat /\ call.upto - call.at \in Nat \ {0}
  BY DEF PInv, NoCall, W25QTypeOK, CallInRange, Running
<1>2. Chunk \in 1 .. call.upto - call.at
  BY <1>1, ChunkInPage DEF Chunk
<1> QED
  BY <1>1, <1>2

LEMMA ProgramKeeps ==
    ASSUME PInv, ProgramPage, UNCHANGED <<programmed, touched>>
    PROVE  PInv'
<1> USE DEF PInv
<1>1. /\ call # NoCall /\ dev.up /\ ~chip.busy /\ chip.after = chip.cells
      /\ call.stage = "enabled" /\ call.op = "write"
  BY DEF ProgramPage, NoCall, Latched
<1>2. dev' \in [up : BOOLEAN, needsReady : BOOLEAN] /\ dev'.up /\ dev'.needsReady
  BY <1>1 DEF ProgramPage, W25QTypeOK
<1>3. Span \subseteq touched
  BY <1>1 DEF CallDone
<1>4. ASSUME NEW length \in 1 .. Chunk, chip' = Programmed(call.at, length)
      PROVE  /\ chip' \in [busy : BOOLEAN, wel : BOOLEAN, cells : SUBSET Address, after : SUBSET Address]
             /\ chip'.busy /\ chip'.cells = chip.cells
             /\ chip'.after = chip.cells \cup (call.at .. call.at + length - 1)
             /\ ContentsBounded'
  <2>1. /\ chip' = [busy |-> TRUE, wel |-> FALSE, cells |-> chip.cells,
                    after |-> chip.cells \cup (call.at .. call.at + length - 1)]
        /\ call.at .. call.at + length - 1 \subseteq Span \cap Address
    BY <1>1, <1>4, ProgrammedFacts
  <2>2. chip.cells \cup (call.at .. call.at + length - 1) \in SUBSET Address
    BY <2>1 DEF W25QTypeOK
  <2>3. /\ programmed \subseteq chip'.cells /\ chip'.cells \subseteq touched
        /\ programmed \subseteq chip'.after /\ chip'.after \subseteq touched
    BY <1>3, <2>1 DEF ContentsBounded
  <2> QED
    BY <2>1, <2>2, <2>3 DEF W25QTypeOK, ContentsBounded
<1>5. CASE SpiFault /\ Fails
  <2>1. spiFaults' \in 0 .. MaxSpiFaults
    BY <1>5, W25QAssumption DEF SpiFault, W25QTypeOK
  <2>2. CASE chip' = chip
    BY <1>1, <1>2, <1>5, <2>1, <2>2, FailKeeps DEF W25QTypeOK, ContentsBounded
  <2>3. CASE \E length \in 1 .. Chunk : chip' = Programmed(call.at, length)
    BY <1>1, <1>2, <1>4, <1>5, <2>1, <2>3, FailKeeps
  <2>4. chip' = chip \/ \E length \in 1 .. Chunk : chip' = Programmed(call.at, length)
    <3>1. Chunk \in 1 .. Chunk
      BY <1>1, ChunkOfCall
    <3> QED
      BY <3>1 DEF ProgramPage
  <2> QED
    BY <2>2, <2>3, <2>4
<1>6. CASE /\ chip' = Programmed(call.at, Chunk)
           /\ call' = [call EXCEPT !.stage = "waiting"] /\ UNCHANGED spiFaults
  <2>1. Chunk \in 1 .. Chunk
    BY <1>1, ChunkOfCall
  <2>2. /\ chip' \in [busy : BOOLEAN, wel : BOOLEAN, cells : SUBSET Address, after : SUBSET Address]
        /\ chip'.busy /\ chip'.cells = chip.cells
        /\ chip'.after = chip.cells \cup (call.at .. call.at + Chunk - 1)
        /\ ContentsBounded'
    BY <1>4, <1>6, <2>1
  <2>3. /\ call' \in [stage : Stages, op : {"none", "read", "write", "erase"},
                     from : Nat, upto : Nat, at : Nat, value : SUBSET Address]
        /\ call'.stage = "waiting" /\ call'.op = "write" /\ call'.from = call.from
        /\ call'.upto = call.upto /\ call'.at = call.at
    BY <1>1, <1>6 DEF W25QTypeOK, Stages
  <2>4. W25QTypeOK' /\ Latched'
    BY <1>2, <1>6, <2>2, <2>3 DEF W25QTypeOK, Latched
  <2>5. CallInRange' /\ AnswersTrue'
    BY <1>1, <2>3 DEF CallInRange, AnswersTrue, Running, NoCall
  <2>6. CallDone'
    BY <1>1, <1>3, <2>2, <2>3 DEF CallDone, Running, Span, Chunk
  <2> QED
    BY <2>2, <2>4, <2>5, <2>6
<1> QED
  BY <1>5, <1>6 DEF ProgramPage

LEMMA EraseKeeps ==
    ASSUME PInv, EraseCommand, UNCHANGED <<programmed, touched>>
    PROVE  PInv'
<1> USE DEF PInv
<1> DEFINE erased == SectorErased(call.at, call.upto - call.from)
<1>1. /\ call # NoCall /\ dev.up /\ ~chip.busy /\ chip.wel /\ chip.after = chip.cells
      /\ call.stage = "enabled" /\ call.op = "erase" /\ call.at = call.from
      /\ call.from \in Nat /\ call.upto \in Nat
  BY DEF EraseCommand, NoCall, Latched, CallInRange, W25QTypeOK
<1>2. dev' \in [up : BOOLEAN, needsReady : BOOLEAN] /\ dev'.up /\ dev'.needsReady
  BY <1>1 DEF EraseCommand, W25QTypeOK
<1>3. erased = [busy |-> TRUE, wel |-> FALSE, cells |-> chip.cells, after |-> chip.cells \ Span]
  <2>1. call.at .. call.at + (call.upto - call.from) - 1 = Span
    BY <1>1 DEF Span
  <2> QED
    BY <1>1, <2>1, BegunFacts DEF SectorErased, W25QTypeOK
<1>4. ASSUME chip' = erased
      PROVE  /\ chip' \in [busy : BOOLEAN, wel : BOOLEAN, cells : SUBSET Address, after : SUBSET Address]
             /\ chip'.busy /\ chip'.after = chip.cells \ Span
             /\ ContentsBounded'
  <2>1. /\ programmed \subseteq chip.cells \ Span /\ chip.cells \ Span \subseteq touched
    BY <1>1 DEF ContentsBounded, CallDone
  <2>2. /\ chip'.busy /\ chip'.cells = chip.cells /\ chip'.after = chip.cells \ Span
        /\ chip' = [busy |-> TRUE, wel |-> FALSE, cells |-> chip.cells, after |-> chip.cells \ Span]
    BY <1>3, <1>4
  <2>3. chip.cells \ Span \in SUBSET Address /\ chip.cells \in SUBSET Address
    BY DEF W25QTypeOK
  <2>4. ContentsBounded'
    BY <2>1, <2>2 DEF ContentsBounded
  <2> QED
    BY <2>2, <2>3, <2>4
<1>5. CASE SpiFault /\ Fails
  <2>1. spiFaults' \in 0 .. MaxSpiFaults
    BY <1>5, W25QAssumption DEF SpiFault, W25QTypeOK
  <2>2. CASE chip' = chip
    BY <1>1, <1>2, <1>5, <2>1, <2>2, FailKeeps DEF W25QTypeOK, ContentsBounded
  <2>3. CASE chip' = erased
    BY <1>1, <1>2, <1>4, <1>5, <2>1, <2>3, FailKeeps
  <2> QED
    BY <2>2, <2>3 DEF EraseCommand
<1>6. CASE chip' = erased /\ call' = [call EXCEPT !.stage = "waiting"] /\ UNCHANGED spiFaults
  <2>1. /\ call' \in [stage : Stages, op : {"none", "read", "write", "erase"},
                     from : Nat, upto : Nat, at : Nat, value : SUBSET Address]
        /\ call'.stage = "waiting" /\ call'.op = "erase" /\ call'.from = call.from
        /\ call'.upto = call.upto /\ call'.at = call.at
    BY <1>1, <1>6 DEF W25QTypeOK, Stages
  <2>2. W25QTypeOK' /\ Latched'
    BY <1>2, <1>4, <1>6, <2>1 DEF W25QTypeOK, Latched
  <2>3. CallInRange' /\ AnswersTrue'
    BY <1>1, <2>1 DEF CallInRange, AnswersTrue, Running, NoCall
  <2>4. CallDone'
    BY <1>1, <1>4, <1>6, <2>1 DEF CallDone, Span
  <2> QED
    BY <1>4, <1>6, <2>2, <2>3, <2>4
<1> QED
  BY <1>5, <1>6 DEF EraseCommand

LEMMA ReadKeeps ==
    ASSUME PInv, ReadData, UNCHANGED <<programmed, touched>>
    PROVE  PInv'
<1> USE DEF PInv
<1>1. call # NoCall /\ dev.up /\ ~chip.busy /\ call.op = "read"
  BY ReadyAtRest DEF ReadData, NoCall, Latched
<1>2. CASE SpiFault /\ Fails
  <2>1. spiFaults' \in 0 .. MaxSpiFaults
    BY <1>2, W25QAssumption DEF SpiFault, W25QTypeOK
  <2> QED
    BY <1>1, <1>2, <2>1, FailKeeps DEF ReadData, W25QTypeOK, Latched, ContentsBounded
<1>3. CASE /\ call' = [call EXCEPT !.stage = "ok", !.value = chip.cells \cap Span]
           /\ UNCHANGED spiFaults
  <2>1. /\ call' \in [stage : Stages, op : {"none", "read", "write", "erase"},
                     from : Nat, upto : Nat, at : Nat, value : SUBSET Address]
        /\ call'.stage = "ok" /\ call'.op = "read" /\ call'.from = call.from
        /\ call'.upto = call.upto /\ call'.at = call.at /\ call'.value = chip.cells \cap Span
    BY <1>1, <1>3 DEF W25QTypeOK, Stages
  <2>2. W25QTypeOK' /\ Latched' /\ ContentsBounded'
    BY <1>1, <1>3, <2>1 DEF ReadData, W25QTypeOK, Latched, ContentsBounded
  <2>3. CallInRange' /\ CallDone' /\ AnswersTrue'
    BY <1>1, <2>1 DEF ReadData, CallInRange, CallDone, AnswersTrue, Running, Span, NoCall
  <2> QED
    BY <2>2, <2>3
<1> QED
  BY <1>1, <1>2, <1>3 DEF ReadData

-----------------------------------------------------------------------------
(* The calls.                                                               *)
LEMMA AlignedSum ==
    ASSUME NEW a \in Nat, NEW b \in Nat, NEW n \in Nat \ {0}, a % n = 0, b % n = 0
    PROVE  (a + b) % n = 0
<1>1. PICK i \in Int : a = n * i
  BY Z3
<1>2. PICK j \in Int : b = n * j
  BY Z3
<1> QED
  BY <1>1, <1>2, Z3

LEMMA EntryOfTable ==
    ASSUME NEW p \in DOMAIN Table
    PROVE  /\ Table[p] \in [base : Nat, size : Nat \ {0}, readonly : BOOLEAN]
           /\ Inside(MediaSize, Table[p].base, Table[p].size)
<1>1. Table \in Seq([base : Nat, size : Nat \ {0}, readonly : BOOLEAN])
  BY TableAssumption
<1>2. p \in 1 .. Len(Table)
  BY <1>1
<1>3. Table[p] \in [base : Nat, size : Nat \ {0}, readonly : BOOLEAN]
  BY <1>1, <1>2, ElementOfSeq
<1>4. \A q \in DOMAIN Table : Inside(MediaSize, Table[q].base, Table[q].size)
  BY TableAssumption
<1> QED
  BY <1>3, <1>4

(* A range of a partition that passed MapPart lies in the chip.             *)
LEMMA MappedInside ==
    ASSUME NEW p \in DOMAIN Table, NEW offset \in Nat, NEW length \in Nat \ {0},
           Mapped(p, offset, length)
    PROVE  /\ Table[p].base + offset \in Nat
           /\ Table[p].base + offset + length <= MediaSize
           /\ Asked(p, offset, length) =
                Table[p].base + offset .. Table[p].base + offset + length - 1
<1>1. /\ Table[p] \in [base : Nat, size : Nat \ {0}, readonly : BOOLEAN]
      /\ Inside(MediaSize, Table[p].base, Table[p].size)
  BY EntryOfTable
<1> QED
  BY <1>1, W25QAssumption DEF Mapped, Inside, Asked, Space

(* A call that begins, with what the callers may rely on from now on.       *)
LEMMA EnteredKeeps ==
    ASSUME PInv, NEW op \in {"read", "write", "erase"},
           NEW from \in Nat, NEW length \in Nat \ {0}, from + length <= MediaSize,
           Entered(op, from, length, from),
           programmed' \subseteq programmed, touched \subseteq touched',
           op = "write" => from .. from + length - 1 \subseteq touched',
           op = "erase" => (from .. from + length - 1) \cap programmed' = {}
    PROVE  PInv'
<1> USE DEF PInv
<1>1. /\ call' = [stage |-> "ready", op |-> op, from |-> from, upto |-> from + length,
                  at |-> from, value |-> {}]
      /\ dev.up /\ UNCHANGED <<chip, dev, spiFaults>>
  BY DEF Entered, NoCall
<1>2. W25QTypeOK' /\ Latched'
  BY <1>1 DEF W25QTypeOK, Stages, Latched
<1>3. CallInRange' /\ AnswersTrue'
  BY <1>1 DEF CallInRange, AnswersTrue, NoCall
<1>4. call'.from .. call'.at - 1 = {}
  BY <1>1
<1>5. CallDone' /\ ContentsBounded'
  BY <1>1, <1>4 DEF CallDone, Span, ContentsBounded
<1> QED
  BY <1>2, <1>3, <1>5

LEMMA CallsKeep ==
    ASSUME BlocksAligned, PInv, NEW p \in DOMAIN Table, NEW offset \in Nat
    PROVE  /\ \A length \in Nat \ {0} : Storage_Read(p, offset, length) => PInv'
           /\ \A length \in Nat \ {0} : Storage_Write(p, offset, length) => PInv'
           /\ \A size \in EraseSizes : Storage_Erase(p, offset, size) => PInv'
<1> DEFINE phys == Table[p].base + offset
<1>1. ASSUME NEW length \in Nat \ {0}, Storage_Read(p, offset, length) PROVE PInv'
  <2>1. phys \in Nat /\ phys + length <= MediaSize
    BY <1>1, MappedInside DEF Storage_Read
  <2> QED
    BY <1>1, <2>1, EnteredKeeps DEF Storage_Read
<1>2. ASSUME NEW length \in Nat \ {0}, Storage_Write(p, offset, length) PROVE PInv'
  <2>1. /\ phys \in Nat /\ phys + length <= MediaSize
        /\ Asked(p, offset, length) = phys .. phys + length - 1
    BY <1>2, MappedInside DEF Storage_Write
  <2> QED
    BY <1>2, <2>1, EnteredKeeps DEF Storage_Write
<1>3. ASSUME NEW size \in EraseSizes, Storage_Erase(p, offset, size) PROVE PInv'
  <2>1. size \in Nat \ {0} /\ Mapped(p, offset, size) /\ Writable(p) /\ offset % size = 0
    BY <1>3, W25QAssumption DEF Storage_Erase
  <2>2. /\ phys \in Nat /\ phys + size <= MediaSize
        /\ Asked(p, offset, size) = phys .. phys + size - 1
    BY <2>1, MappedInside
  <2>3. Table[p] \in [base : Nat, size : Nat \ {0}, readonly : BOOLEAN]
    BY EntryOfTable
  <2>4. size <= Table[p].size
    BY <2>1, <2>3 DEF Mapped, Inside
  <2>5. Table[p].base % size = 0
    BY <2>1, <2>4 DEF BlocksAligned
  <2>6. phys % size = 0
    BY <2>1, <2>3, <2>5, AlignedSum
  <2>7. AlignDown(phys, size) = phys
    BY <2>2, <2>6 DEF AlignDown
  <2> QED
    BY <1>3, <2>1, <2>2, <2>7, EnteredKeeps DEF Storage_Erase
<1> QED
  BY <1>1, <1>2, <1>3

LEMMA ReturnKeeps ==
    ASSUME PInv, Storage_Return
    PROVE  PInv'
<1> USE DEF PInv
<1>1. call' = NoCall /\ UNCHANGED <<chip, dev, spiFaults>> /\ NoCall.stage = "idle"
  BY DEF Storage_Return, NoCall
<1>2. call # NoCall
  BY DEF Storage_Return, NoCall
<1>3. W25QTypeOK' /\ Latched' /\ CallInRange' /\ CallDone' /\ AnswersTrue'
  BY <1>1 DEF W25QTypeOK, Stages, NoCall, Latched, CallInRange, CallDone, AnswersTrue
<1>4. ContentsBounded'
  BY <1>1, <1>2 DEF Storage_Return, ContentsBounded, AnswersTrue, Latched
<1> QED
  BY <1>3, <1>4

(* The chip comes to rest, the driver starts, the controller is reset.      *)
LEMMA OthersKeep ==
    ASSUME PInv, ChipFinishes \/ W25QInit \/ ControllerReset, UNCHANGED <<programmed, touched>>
    PROVE  PInv'
<1> USE DEF PInv
<1>1. CASE ChipFinishes
  <2>1. /\ chip' \in [busy : BOOLEAN, wel : BOOLEAN, cells : SUBSET Address, after : SUBSET Address]
        /\ chip.busy /\ ~chip'.busy /\ chip'.cells = chip.after /\ chip'.after = chip.after
        /\ UNCHANGED <<dev, call, spiFaults>>
    BY <1>1 DEF ChipFinishes, W25QTypeOK
  <2>2. call.stage # "enabled" /\ call.stage # "ok"
    BY <2>1 DEF Latched, AnswersTrue
  <2>3. W25QTypeOK' /\ Latched' /\ ContentsBounded'
    BY <2>1, <2>2 DEF W25QTypeOK, Latched, ContentsBounded
  <2>4. CallInRange' /\ CallDone' /\ AnswersTrue'
    BY <2>1, <2>2 DEF CallInRange, CallDone, AnswersTrue, Running, Span, Chunk
  <2> QED
    BY <2>3, <2>4
<1>2. CASE W25QInit \/ ControllerReset
  <2>1. chip' = chip /\ call' = NoCall
    BY <1>2 DEF W25QInit, ControllerReset
  <2>2. dev' \in [up : BOOLEAN, needsReady : BOOLEAN] /\ (dev'.up => ~chip.busy)
    <3>1. chip.busy \in BOOLEAN
      BY DEF W25QTypeOK
    <3>2. CASE W25QInit
      <4>1. CASE dev' = [up |-> FALSE, needsReady |-> FALSE]
        BY <4>1
      <4>2. CASE dev' = [up |-> Identified, needsReady |-> FALSE] /\ chip.busy
        <5>1. Identified = FALSE
          BY <4>2 DEF Identified
        <5> QED
          BY <4>2, <5>1
      <4>3. CASE dev' = [up |-> Identified, needsReady |-> FALSE] /\ ~chip.busy
        <5>1. Identified = TRUE
          BY <4>3 DEF Identified
        <5> QED
          BY <4>3, <5>1
      <4> QED
        BY <3>1, <3>2, <4>1, <4>2, <4>3 DEF W25QInit
    <3>3. CASE ControllerReset
      BY <3>3 DEF ControllerReset
    <3> QED
      BY <1>2, <3>2, <3>3
  <2>3. spiFaults' \in 0 .. MaxSpiFaults
    BY <1>2, W25QAssumption DEF W25QInit, ControllerReset, SpiFault, W25QTypeOK
  <2> QED
    BY <2>1, <2>2, <2>3 DEF W25QTypeOK, Stages, NoCall, Latched, CallInRange, CallDone, AnswersTrue,
       ContentsBounded
<1> QED
  BY <1>1, <1>2

-----------------------------------------------------------------------------
(* PInv is inductive.                                                       *)
THEOREM PStep == BlocksAligned /\ PInv /\ [PartitionNext]_partitionVars => PInv'
<1> SUFFICES ASSUME BlocksAligned, PInv, [PartitionNext]_partitionVars PROVE PInv'
  OBVIOUS
<1>1. ASSUME NEW p \in DOMAIN Table, NEW offset \in 0 .. Table[p].size,
             \/ \E length \in 1 .. Table[p].size : Storage_Read(p, offset, length)
             \/ \E length \in 1 .. Table[p].size : Storage_Write(p, offset, length)
             \/ \E size \in EraseSizes : Storage_Erase(p, offset, size)
      PROVE  PInv'
  <2>1. offset \in Nat /\ \A length \in 1 .. Table[p].size : length \in Nat \ {0}
    BY <1>1, EntryOfTable
  <2> QED
    BY <1>1, <2>1, CallsKeep
<1>2. CASE DriverStep /\ UNCHANGED <<programmed, touched>>
  BY <1>2, PollKeeps, WriteEnableKeeps, ProgramKeeps, EraseKeeps, ReadKeeps DEF DriverStep
<1>3. CASE UNCHANGED partitionVars
  BY <1>3 DEF partitionVars, w25qVars, PInv, W25QTypeOK, Latched, CallInRange, CallDone,
     ContentsBounded, AnswersTrue, Running, Span, Chunk
<1> QED
  BY <1>1, <1>2, <1>3, ReturnKeeps, OthersKeep DEF PartitionNext

(* README.md:58: no call is answered OK out of a chip that is busy with an  *)
(* earlier one, and nothing but what was asked for changes.                 *)
THEOREM FlashKeepsItsWord ==
    ASSUME BlocksAligned
    PROVE  PartitionSpec => []FlashAsTold
<1>1. PInv /\ [PartitionNext]_partitionVars => PInv'
  BY PStep
<1>2. PInv => FlashAsTold
  BY DEF PInv, FlashAsTold, OthersKept, ContentsBounded
<1> QED
  BY <1>1, <1>2, PInit, PTL DEF PartitionSpec

-----------------------------------------------------------------------------
(* The firmware slot.                                                       *)

(* A readable manifest announces what is stored.                            *)
Valid ==
    Readable =>
        /\ manifest.of \in Images /\ DOMAIN manifest.of \subseteq 1 .. SlotBlocks
        /\ \A b \in DOMAIN manifest.of : image[b] = manifest.of[b]

(* What is written so far; behind it lies at most a part of what is to come, *)
(* so that a chunk may be sent again.  The manifest is not committed before  *)
(* all is written, and then announces it.                                    *)
Streaming ==
    slot.writing =>
        /\ slot.data \in Images /\ Len(slot.data) \in 1 .. SlotBlocks
        /\ slot.offset <= Len(slot.data)
        /\ \A b \in 1 .. Len(slot.data) :
             IF b <= slot.offset THEN image[b] = slot.data[b] ELSE image[b] \subseteq slot.data[b]
        /\ Readable => slot.offset = Len(slot.data) /\ manifest.of = slot.data

SlotInv == SlotTypeOK /\ Valid /\ Streaming

LEMMA ImageIsSequence ==
    ASSUME NEW data \in Images
    PROVE  /\ DOMAIN data = 1 .. Len(data) /\ Len(data) \in Nat
           /\ \A b \in 1 .. Len(data) : data[b] \in SUBSET Bits
           /\ data = [b \in DOMAIN data |-> data[b]]
<1>1. data \in Seq(SUBSET Bits)
  BY SlotAssumption
<1> QED
  BY <1>1, ElementOfSeq

THEOREM SlotInvInit == SlotInit => SlotInv
BY SlotAssumption DEF SlotInit, SlotInv, SlotTypeOK, Manifests, BlankManifest, ErasedImage, NotWriting,
   Valid, Readable, Streaming

-----------------------------------------------------------------------------
(* An erase leaves no readable manifest, or everything as it was.           *)
LEMMA ErasedFacts ==
    ASSUME SlotInv, NEW count \in 0 .. SlotBlocks + 1, SlotErased(count)
    PROVE  /\ manifest' \in Manifests /\ image' \in [1 .. SlotBlocks -> SUBSET Bits]
           /\ \/ ~Readable'
              \/ UNCHANGED <<manifest, image>>
           /\ count = SlotBlocks + 1 => manifest' = BlankManifest /\ image' = ErasedImage
<1>1. image \in [1 .. SlotBlocks -> SUBSET Bits] /\ manifest \in Manifests
  BY DEF SlotInv, SlotTypeOK
<1>2. PICK rest \in SUBSET Bits :
        image' = [b \in 1 .. SlotBlocks |->
                     IF ErasedFirst(count, b) THEN {} ELSE IF b = count THEN rest ELSE image[b]]
  BY DEF SlotErased
<1>3. image' \in [1 .. SlotBlocks -> SUBSET Bits]
  BY <1>1, <1>2
<1>4. CASE count = 0
  <2>1. image' = image
    BY <1>1, <1>2, <1>4, SlotAssumption DEF ErasedFirst
  <2>2. manifest' \in {manifest, Partial}
    BY <1>4 DEF SlotErased, ErasedFirst
  <2> QED
    BY <1>1, <1>3, <1>4, <2>1, <2>2, SlotAssumption DEF Readable, Partial, Manifests
<1>5. CASE count # 0
  <2>1. manifest' = BlankManifest
    BY <1>5, SlotAssumption DEF SlotErased, ErasedFirst
  <2>2. count = SlotBlocks + 1 => image' = ErasedImage
    BY <1>2, SlotAssumption DEF ErasedFirst, ErasedImage
  <2> QED
    BY <1>3, <2>1, <2>2 DEF Readable, BlankManifest, Manifests
<1> QED
  BY <1>4, <1>5

LEMMA BeginKeeps ==
    ASSUME SlotInv, NEW data \in Images, StorageFirmware_BeginWrite(data)
    PROVE  SlotInv' /\ (~Readable' \/ UNCHANGED <<manifest, image>>)
<1>1. CASE SlotErased(SlotBlocks + 1) /\ slot' = [writing |-> TRUE, offset |-> 0, data |-> data]
  <2>1. manifest' = BlankManifest /\ image' = ErasedImage /\ image' \in [1 .. SlotBlocks -> SUBSET Bits]
        /\ manifest' \in Manifests
    BY <1>1, ErasedFacts, SlotAssumption
  <2>2. ~Readable'
    BY <2>1 DEF Readable, BlankManifest
  <2>3. Len(data) \in 1 .. SlotBlocks
    BY DEF StorageFirmware_BeginWrite
  <2>4. \A b \in 1 .. Len(data) : image'[b] = {}
    BY <2>1, <2>3, SlotAssumption DEF ErasedImage
  <2>5. SlotTypeOK' /\ Valid'
    BY <1>1, <2>1, <2>2 DEF SlotTypeOK, Valid
  <2>6. Streaming'
    <3>1. \A b \in 1 .. Len(data) : ~(b <= 0)
      OBVIOUS
    <3> QED
      BY <1>1, <2>2, <2>3, <2>4, <3>1 DEF Streaming
  <2> QED
    BY <2>2, <2>5, <2>6 DEF SlotInv
<1>2. ASSUME NEW count \in 0 .. SlotBlocks, SlotErased(count), slot' = NotWriting
      PROVE  SlotInv' /\ (~Readable' \/ UNCHANGED <<manifest, image>>)
  <2>1. /\ manifest' \in Manifests /\ image' \in [1 .. SlotBlocks -> SUBSET Bits]
        /\ ~Readable' \/ UNCHANGED <<manifest, image>>
    BY <1>2, ErasedFacts, SlotAssumption
  <2> QED
    BY <1>2, <2>1 DEF SlotInv, SlotTypeOK, NotWriting, Valid, Readable, Streaming
<1> QED
  BY <1>1, <1>2 DEF StorageFirmware_BeginWrite

LEMMA ChunkKeeps ==
    ASSUME SlotInv, NEW length \in 1 .. SlotBlocks, StorageFirmware_WriteChunk(length)
    PROVE  SlotInv' /\ ~Readable'
<1> USE DEF SlotInv
<1>1. /\ slot.writing /\ slot.offset \in Nat /\ slot.data \in Images
      /\ slot.offset + length <= Len(slot.data) /\ Len(slot.data) \in 1 .. SlotBlocks
  BY DEF StorageFirmware_WriteChunk, Streaming, SlotTypeOK
<1>2. ~Readable' /\ manifest' = manifest
  BY <1>1 DEF StorageFirmware_WriteChunk, Streaming, Readable
<1>3. PICK done \in 0 .. length, some \in SUBSET Bits :
        /\ image' = [b \in 1 .. SlotBlocks |->
                        IF b \in slot.offset + 1 .. slot.offset + done
                        THEN image[b] \cup slot.data[b]
                        ELSE IF b = slot.offset + done + 1 /\ done < length
                        THEN image[b] \cup (slot.data[b] \cap some)
                        ELSE image[b]]
        /\ slot' \in IF done = length THEN {slot, [slot EXCEPT !.offset = @ + length]} ELSE {slot}
  BY DEF StorageFirmware_WriteChunk
<1>4. \A b \in 1 .. SlotBlocks : image[b] \in SUBSET Bits
  BY DEF SlotTypeOK
<1>5. \A b \in 1 .. Len(slot.data) : slot.data[b] \in SUBSET Bits
  BY <1>1, ImageIsSequence
<1>6. \A b \in 1 .. SlotBlocks :
        b \in slot.offset + 1 .. slot.offset + length => b \in 1 .. Len(slot.data)
  BY <1>1
<1>7. image' \in [1 .. SlotBlocks -> SUBSET Bits]
  <2>1. ASSUME NEW b \in 1 .. SlotBlocks
        PROVE  (IF b \in slot.offset + 1 .. slot.offset + done
                THEN image[b] \cup slot.data[b]
                ELSE IF b = slot.offset + done + 1 /\ done < length
                THEN image[b] \cup (slot.data[b] \cap some)
                ELSE image[b]) \in SUBSET Bits
    BY <1>1, <1>4, <1>5, <1>6
  <2> QED
    BY <1>3, <2>1
<1>8. \A b \in 1 .. Len(slot.data) :
        IF b <= slot.offset THEN image[b] = slot.data[b] ELSE image[b] \subseteq slot.data[b]
  BY <1>1 DEF Streaming
<1>9. \A b \in 1 .. Len(slot.data) :
        IF b <= slot.offset + done THEN image'[b] = slot.data[b]
        ELSE image'[b] \subseteq slot.data[b]
  <2> TAKE b \in 1 .. Len(slot.data)
  <2>1. b \in 1 .. SlotBlocks /\ b \in Nat
    BY <1>1, SlotAssumption
  <2>2. CASE b \in slot.offset + 1 .. slot.offset + done
    BY <1>1, <1>3, <1>8, <2>1, <2>2
  <2>3. CASE b \notin slot.offset + 1 .. slot.offset + done
    BY <1>1, <1>3, <1>8, <2>1, <2>3
  <2> QED
    BY <2>2, <2>3
<1>10. CASE slot' = slot
  <2>1. \A b \in 1 .. Len(slot.data) :
          IF b <= slot.offset THEN image'[b] = slot.data[b] ELSE image'[b] \subseteq slot.data[b]
    <3> TAKE b \in 1 .. Len(slot.data)
    <3>1. b <= slot.offset => b <= slot.offset + done
      BY <1>1
    <3> QED
      BY <1>9, <3>1
  <2> QED
    BY <1>1, <1>2, <1>7, <1>10, <2>1 DEF SlotTypeOK, Valid, Streaming
<1>11. CASE done = length /\ slot' = [slot EXCEPT !.offset = @ + length]
  <2>1. /\ slot'.writing /\ slot'.data = slot.data /\ slot'.offset = slot.offset + length
        /\ slot' \in [writing : BOOLEAN, offset : Nat, data : Images \cup {<<>>}]
    BY <1>1, <1>11 DEF SlotTypeOK
  <2> QED
    BY <1>1, <1>2, <1>7, <1>9, <1>11, <2>1 DEF SlotTypeOK, Valid, Streaming
<1> QED
  BY <1>2, <1>3, <1>10, <1>11

LEMMA FinishKeeps ==
    ASSUME SlotInv, NEW announced \in Images, StorageFirmware_Finish(announced)
    PROVE  SlotInv' /\ (~Readable \/ UNCHANGED <<manifest, image>>)
<1> USE DEF SlotInv
<1>1. /\ slot.writing /\ slot.data = announced /\ slot.offset = Len(slot.data)
      /\ Len(announced) \in 1 .. SlotBlocks /\ image' = image
      /\ slot.offset \in Nat
  BY DEF StorageFirmware_Finish, Accepted, Streaming, SlotTypeOK
<1>2. \A b \in 1 .. Len(announced) : image[b] = announced[b]
  BY <1>1 DEF Streaming
<1>3. DOMAIN announced = 1 .. Len(announced)
  BY ImageIsSequence
<1>4. /\ Manifest(announced, "committed") \in Manifests
      /\ Manifest(announced, "written") \in Manifests /\ Partial \in Manifests
  BY DEF Manifests, Manifest, Partial
<1>5. slot' \in {slot, NotWriting} /\ slot' \in [writing : BOOLEAN, offset : Nat, data : Images \cup {<<>>}]
  <2>1. slot' = slot \/ slot' = NotWriting
    BY DEF StorageFirmware_Finish
  <2>2. NotWriting \in [writing : BOOLEAN, offset : Nat, data : Images \cup {<<>>}]
    BY DEF NotWriting
  <2> QED
    BY <2>1, <2>2 DEF SlotTypeOK
<1>6. CASE manifest' = Manifest(announced, "committed")
  <2>1. Readable' /\ manifest'.of = announced
    BY <1>6 DEF Readable, Manifest
  <2>2. SlotTypeOK' /\ Valid'
    BY <1>1, <1>2, <1>3, <1>4, <1>5, <1>6, <2>1, SlotAssumption DEF SlotTypeOK, Valid
  <2>3. Streaming'
    BY <1>1, <1>2, <1>5, <2>1 DEF Streaming, NotWriting
  <2>4. Readable => manifest' = manifest
    <3>1. Readable => manifest.state = "committed" /\ manifest.of = announced
      BY <1>1 DEF Streaming, Readable
    <3> QED
      BY <1>6, <3>1 DEF SlotTypeOK, Manifests, Manifest
  <2> QED
    BY <1>1, <2>2, <2>3, <2>4
<1>7. CASE /\ manifest' \in {manifest, Manifest(announced, "written"), Partial}
           /\ Readable => manifest' = manifest
           /\ UNCHANGED slot
  <2>1. manifest' = manifest \/ (~Readable /\ ~Readable')
    BY <1>7 DEF Readable, Manifest, Partial
  <2>2. manifest' \in Manifests
    BY <1>4, <1>7 DEF SlotTypeOK
  <2> QED
    BY <1>1, <1>7, <2>1, <2>2 DEF SlotTypeOK, Valid, Streaming, Readable
<1> QED
  BY <1>6, <1>7 DEF StorageFirmware_Finish

LEMMA InvalidateKeeps ==
    ASSUME SlotInv, StorageFirmware_Invalidate \/ Restart
    PROVE  SlotInv' /\ (~Readable' \/ UNCHANGED <<manifest, image>>)
<1>1. /\ manifest' \in {BlankManifest, manifest, Partial} /\ slot' = NotWriting /\ image' = image
  BY DEF StorageFirmware_Invalidate, Restart
<1>2. manifest' = manifest \/ ~Readable'
  BY <1>1 DEF Readable, BlankManifest, Partial
<1>3. manifest' \in Manifests
  BY <1>1 DEF SlotInv, SlotTypeOK, Manifests, BlankManifest, Partial
<1> QED
  BY <1>1, <1>2, <1>3 DEF SlotInv, SlotTypeOK, NotWriting, Valid, Readable, Streaming

-----------------------------------------------------------------------------
(* SlotInv is inductive, and every step keeps what a reader finds, ends it  *)
(* or begins it.                                                            *)
THEOREM SlotStep ==
    ASSUME SlotInv, [SlotNext]_slotVars
    PROVE  SlotInv' /\ (~Readable \/ ~Readable' \/ UNCHANGED <<manifest, image>>)
<1>1. CASE UNCHANGED slotVars
  BY <1>1 DEF slotVars, SlotInv, SlotTypeOK, Valid, Readable, Streaming
<1>2. CASE SlotNext
  BY <1>2, BeginKeeps, ChunkKeeps, FinishKeeps, InvalidateKeeps DEF SlotNext
<1> QED
  BY <1>1, <1>2

(* What a reader finds is nothing or a whole image.                         *)
LEMMA HeldIsWhole ==
    SlotInv /\ Readable => HeldImage = Whole(manifest.of) /\ manifest.of \in Images
<1> SUFFICES ASSUME SlotInv, Readable
             PROVE  HeldImage = Whole(manifest.of) /\ manifest.of \in Images
  OBVIOUS
<1>1. /\ manifest.of \in Images
      /\ \A b \in DOMAIN manifest.of : image[b] = manifest.of[b]
  BY DEF SlotInv, Valid
<1>2. manifest.of = [b \in DOMAIN manifest.of |-> manifest.of[b]]
  BY <1>1, ImageIsSequence
<1>3. Stored = manifest.of
  BY <1>1, <1>2 DEF Stored
<1> QED
  BY <1>1, <1>3 DEF HeldImage, Whole

(* Every step of a slot is a step of the register or changes nothing in it. *)
THEOREM SlotRefinesStep ==
    ASSUME SlotInv, [SlotNext]_slotVars
    PROVE  [Holder!Clear \/ Holder!Publish]_HeldImage
<1>1. SlotInv' /\ (~Readable \/ ~Readable' \/ UNCHANGED <<manifest, image>>)
  BY SlotStep
<1>2. CASE ~Readable'
  <2>1. HeldImage' = NoImageHeld
    BY <1>2 DEF HeldImage
  <2> QED
    BY <2>1 DEF Holder!Clear
<1>3. CASE Readable' /\ ~Readable
  <2>1. HeldImage = NoImageHeld
    BY <1>3 DEF HeldImage
  <2>2. HeldImage' = Whole(manifest.of') /\ manifest.of' \in Images
    <3>1. (SlotInv /\ Readable => HeldImage = Whole(manifest.of) /\ manifest.of \in Images)'
      BY HeldIsWhole, PTL
    <3> QED
      BY <1>1, <1>3, <3>1 DEF Whole
  <2> QED
    BY <2>1, <2>2 DEF Holder!Publish
<1>4. CASE UNCHANGED <<manifest, image>>
  BY <1>4 DEF HeldImage, Readable, Stored
<1> QED
  BY <1>1, <1>2, <1>3, <1>4

(* A slot implements the register, whatever fails or is cut short.          *)
THEOREM SlotImplementsRegister == SlotSpec => ImplementsSlot
<1>1. SlotInit => Holder!RegisterInit
  BY DEF SlotInit, Holder!RegisterInit, HeldImage, Readable, BlankManifest
<1>2. SlotInv /\ [SlotNext]_slotVars => SlotInv'
  BY SlotStep
<1>3. SlotInv /\ [SlotNext]_slotVars => [Holder!Clear \/ Holder!Publish]_HeldImage
  BY SlotRefinesStep
<1> QED
  BY <1>1, <1>2, <1>3, SlotInvInit, PTL DEF SlotSpec, ImplementsSlot, Holder!RegisterSpec

=============================================================================
