----------------------------- MODULE MqttProofs -----------------------------
(* The QoS 1 and QoS 2 exchanges keep their tables whole, deliver each       *)
(* QoS 2 message once and what either side takes for done, keep the order    *)
(* in which packets are sent again, and leave nothing stuck on a connection  *)
(* that has carried everything: for any number of identifiers, records and   *)
(* messages, and any number of broken connections and forgotten sessions.    *)
(*                                                                           *)
(* The argument (ExchangeInv): the tables are tables, the application keeps  *)
(* just the messages with a record, and publishes stand in the order in      *)
(* which they were made (Structure); and as long as no session was mixed up, *)
(* each exchange has one packet on its way at a time, and that packet, the   *)
(* record and what the broker holds fit together (OutExchanges,              *)
(* InExchanges).  First come the lemmas about places in a sequence and about *)
(* tables, then those about packets and what a step does to an exchange,     *)
(* then one lemma for each action.                                           *)
EXTENDS MqttSession, SequenceTheorems, FiniteSetTheorems, TLAPS

-----------------------------------------------------------------------------
(* Places of a sequence in their order                                      *)

(* g visits the n members of S in their order.                              *)
Enumerates(g, n, S) ==
    /\ n \in Nat /\ \A i \in S : i \in Nat
    /\ g \in [1 .. n -> S]
    /\ \A k, l \in 1 .. n : k < l => g[k] < g[l]
    /\ \A i \in S : \E k \in 1 .. n : g[k] = i

Rank(S, i) == Cardinality({j \in S : j <= i})

LEMMA Visited ==
    ASSUME NEW S, NEW n, NEW g, Enumerates(g, n, S),
           NEW k \in 1 .. n
    PROVE  /\ g[k] \in S /\ g[k] \in Nat /\ k \in Nat
           /\ \A l \in 1 .. n : k < l => g[k] < g[l]
<1>1. g[k] \in S
  BY DEF Enumerates
<1>2. n \in Nat /\ \A i \in S : i \in Nat
  BY DEF Enumerates
<1>3. g[k] \in Nat
  BY <1>1, <1>2
<1>4. k \in Nat
  BY <1>2
<1> QED
  BY <1>1, <1>3, <1>4 DEF Enumerates

(* The k-th place has k places up to it.                                    *)
LEMMA RankOf ==
    ASSUME NEW S, NEW n, NEW g, Enumerates(g, n, S),
           NEW k \in 0 .. n
    PROVE  /\ k > 0 => Rank(S, g[k]) = k
           /\ IsFiniteSet(S) /\ Cardinality(S) = n
<1>0. n \in Nat /\ \A i \in S : i \in Nat
  BY DEF Enumerates
<1>1. ASSUME NEW m \in 0 .. n, NEW T, T = {g[l] : l \in 1 .. m}
      PROVE  IsFiniteSet(T) /\ Cardinality(T) = m
  <2> DEFINE h == [l \in 1 .. m |-> g[l]]
  <2>1. h \in [1 .. m -> T]
    BY <1>1
  <2>2. \A t \in T : \E l \in 1 .. m : h[l] = t
    BY <1>1
  <2>3. ASSUME NEW a \in 1 .. m, NEW b \in 1 .. m, h[a] = h[b]
        PROVE  a = b
    <3>1. g[a] = g[b] /\ a \in 1 .. n /\ b \in 1 .. n
      BY <1>0, <1>1, <2>3
    <3>2. /\ g[a] \in Nat /\ a \in Nat /\ b \in Nat
          /\ (a < b => g[a] < g[b]) /\ (b < a => g[b] < g[a])
      BY <3>1, Visited
    <3> QED
      BY <3>1, <3>2
  <2>4. h \in Bijection(1 .. m, T)
    BY <2>1, <2>2, <2>3 DEF Bijection, Injection, IsInjective, Surjection
  <2>5. ExistsBijection(1 .. m, T)
    BY <2>4 DEF ExistsBijection
  <2>6. IsFiniteSet(T)
    BY <2>5, m \in Nat, FS_NatBijection
  <2> QED
    BY <2>5, <2>6, m \in Nat, FS_CountingElements
<1>2. S = {g[l] : l \in 1 .. n}
  BY DEF Enumerates
<1>3. ASSUME k > 0
      PROVE  {j \in S : j <= g[k]} = {g[l] : l \in 1 .. k}
  <2>0. k \in 1 .. n
    BY <1>3
  <2>1. k \in 1 .. n /\ g[k] \in Nat
    BY <2>0, Visited
  <2>2. ASSUME NEW l \in 1 .. n
        PROVE  g[l] <= g[k] <=> l <= k
    <3>1. g[l] \in Nat /\ (l < k => g[l] < g[k]) /\ (k < l => g[k] < g[l])
      BY <2>1, Visited
    <3> QED
      BY <2>1, <3>1
  <2>3. \A l \in 1 .. k : l \in 1 .. n /\ l <= k
    BY <1>0, <2>1
  <2>4. \A l \in 1 .. n : l <= k => l \in 1 .. k
    BY <1>0, <2>1
  <2>5. \A i \in {j \in S : j <= g[k]} : i \in {g[l] : l \in 1 .. k}
    BY <1>2, <2>2, <2>4
  <2>6. \A i \in {g[l] : l \in 1 .. k} : i \in {j \in S : j <= g[k]}
    BY <1>2, <2>2, <2>3
  <2> QED
    BY <2>5, <2>6
<1>5. n \in 0 .. n
  BY <1>0
<1>4. IsFiniteSet(S) /\ Cardinality(S) = n
  BY <1>1, <1>2, <1>5
<1> QED
  BY <1>1, <1>3, <1>4 DEF Rank

(* What is picked is what is there along the way.                           *)
LEMMA PickedAlong ==
    ASSUME NEW s, NEW S, NEW n, NEW g, Enumerates(g, n, S)
    PROVE  /\ Cardinality(S) = n /\ IsFiniteSet(S)
           /\ DOMAIN Picked(s, S) = 1 .. n /\ Len(Picked(s, S)) = n
           /\ \A k \in 1 .. n : Picked(s, S)[k] = s[g[k]]
<1>0. n \in Nat /\ 0 \in 0 .. n
  BY DEF Enumerates
<1>1. Cardinality(S) = n /\ IsFiniteSet(S)
  BY <1>0, RankOf
<1>2. ASSUME NEW k \in 1 .. n
      PROVE  (CHOOSE i \in S : Cardinality({j \in S : j <= i}) = k) = g[k]
  <2>1. ASSUME NEW i \in S, Rank(S, i) = k
        PROVE  i = g[k]
    <3>1. PICK l \in 1 .. n : g[l] = i
      BY DEF Enumerates
    <3>2. l \in 0 .. n /\ l > 0
      OBVIOUS
    <3>4. Rank(S, g[l]) = l
      BY <3>2, RankOf
    <3> QED
      BY <2>1, <3>1, <3>4
  <2>3. k \in 0 .. n /\ k > 0
    OBVIOUS
  <2>4. Rank(S, g[k]) = k
    BY <2>3, RankOf
  <2>2. g[k] \in S /\ Rank(S, g[k]) = k
    BY <2>4, Visited
  <2> QED
    BY <2>1, <2>2 DEF Rank
<1>3. Picked(s, S) = [k \in 1 .. n |-> s[CHOOSE i \in S : Cardinality({j \in S : j <= i}) = k]]
  BY <1>1 DEF Picked
<1> DEFINE at(k) == CHOOSE i \in S : Cardinality({j \in S : j <= i}) = k
<1>4. Picked(s, S) = [k \in 1 .. n |-> s[at(k)]]
  BY <1>3
<1>5. \A k \in 1 .. n : at(k) = g[k]
  BY <1>2
<1> HIDE DEF at
<1>6. DOMAIN Picked(s, S) = 1 .. n /\ Len(Picked(s, S)) = n
  BY <1>0, <1>4
<1> QED
  BY <1>1, <1>4, <1>5, <1>6

(* Any places can be visited so.                                            *)
LEMMA Enumerable ==
    ASSUME NEW S, \A i \in S : i \in Nat, IsFiniteSet(S)
    PROVE  Cardinality(S) \in Nat /\ \E g : Enumerates(g, Cardinality(S), S)
<1> DEFINE n == Cardinality(S)
           Upto(i) == {j \in S : j <= i}
           f == [i \in S |-> Rank(S, i)]
<1>1. n \in Nat
  BY FS_CardinalityType
<1>2. ASSUME NEW i \in S
      PROVE  IsFiniteSet(Upto(i)) /\ f[i] = Cardinality(Upto(i)) /\ f[i] \in 1 .. n /\ i \in Upto(i)
  <2>1. Upto(i) \in SUBSET S /\ i \in Upto(i)
    OBVIOUS
  <2>2. IsFiniteSet(Upto(i)) /\ Cardinality(Upto(i)) <= n
    BY <2>1, FS_Subset
  <2>3. Cardinality(Upto(i)) \in Nat /\ Cardinality(Upto(i)) # 0
    BY <2>1, <2>2, FS_CardinalityType, FS_EmptySet
  <2> QED
    BY <1>1, <2>1, <2>2, <2>3 DEF Rank
<1>3. ASSUME NEW i \in S, NEW j \in S, i < j
      PROVE  f[i] < f[j]
  <2>0. i \in Nat /\ j \in Nat /\ \A k \in S : k \in Nat
    OBVIOUS
  <2>1. Upto(i) \in SUBSET Upto(j) /\ Upto(i) # Upto(j)
    <3>1. ASSUME NEW k \in S, k <= i
          PROVE  k <= j
      BY <1>3, <2>0, <3>1
    <3>2. j \in Upto(j) /\ ~(j <= i)
      BY <1>3, <2>0
    <3> QED
      BY <3>1, <3>2
  <2>2. Cardinality(Upto(i)) <= Cardinality(Upto(j)) /\ Cardinality(Upto(i)) # Cardinality(Upto(j))
    BY <1>2, <2>1, FS_Subset
  <2> HIDE DEF f, Upto
  <2>4. f[i] \in 1 .. n /\ f[j] \in 1 .. n
    BY <1>2
  <2>3. f[i] \in Nat /\ f[j] \in Nat
    BY <1>1, <2>4
  <2> QED
    BY <1>2, <2>2, <2>3
<1> HIDE DEF f, Upto
<1>4. f \in [S -> 1 .. n]
  BY <1>2 DEF f
<1>5. \A i, j \in S : f[i] = f[j] => i = j
  <2> SUFFICES ASSUME NEW i \in S, NEW j \in S, f[i] = f[j], i # j
               PROVE  FALSE
    OBVIOUS
  <2>1. f[i] \in Nat /\ f[j] \in Nat /\ (i < j \/ j < i)
    BY <1>1, <1>2
  <2> QED
    BY <1>3, <2>1
<1>6. f \in Injection(S, 1 .. n)
  BY <1>4, <1>5 DEF Injection, IsInjective
<1>7. IsFiniteSet(1 .. n) /\ Cardinality(1 .. n) = n
  BY <1>1, FS_Interval
<1>8. f \in Surjection(S, 1 .. n)
  BY <1>6, <1>7, FS_Injection
<1> DEFINE g == [k \in 1 .. n |-> CHOOSE i \in S : f[i] = k]
<1>9. ASSUME NEW k \in 1 .. n
      PROVE  g[k] \in S /\ f[g[k]] = k
  BY <1>8 DEF Surjection
<1> HIDE DEF g
<1>10. g \in [1 .. n -> S]
  BY <1>9 DEF g
<1>11. ASSUME NEW k \in 1 .. n, NEW l \in 1 .. n, k < l
       PROVE  g[k] < g[l]
  <2>1. g[k] \in S /\ f[g[k]] = k /\ g[l] \in S /\ f[g[l]] = l
    BY <1>9
  <2>2. g[k] \in Nat /\ g[l] \in Nat
    BY <2>1
  <2>3. CASE g[l] < g[k]
    <3>1. l < k
      BY <1>3, <2>1, <2>3
    <3> QED
      BY <1>1, <1>11, <3>1
  <2>4. CASE g[l] = g[k]
    BY <1>1, <1>11, <2>1, <2>4
  <2> QED
    BY <2>2, <2>3, <2>4
<1>12. ASSUME NEW i \in S
       PROVE  \E k \in 1 .. n : g[k] = i
  <2>1. f[i] \in 1 .. n /\ f[g[f[i]]] = f[i] /\ g[f[i]] \in S
    BY <1>2, <1>9
  <2> QED
    BY <1>5, <2>1
<1> QED
  BY <1>1, <1>10, <1>11, <1>12 DEF Enumerates

-----------------------------------------------------------------------------
(* The tables of records                                                    *)

OutStates == PublishStates \cup RelStates
InStates == {"PubAckSend", "PubRecSend", "PubRelPending", "PubCompSend"}
Entry(states) == [id : Ids, qos : {1, 2}, state : states]

IsTable(t, n, states) ==
    /\ t \in [1 .. n -> {NoRecord} \cup Entry(states)]
    /\ \A i, j \in 1 .. n : t[i].id # 0 /\ t[i].id = t[j].id => i = j

UsedPlaces(t) == {i \in DOMAIN t : t[i].id # 0}

(* The record that a table has for an identifier.                           *)
At(t, id) == IF id \in IdsOf(t) THEN RecordOf(t, id) ELSE NoRecord

(* Publishes stand in the order in which they were made.                    *)
PubsInOrder(t, kept) ==
    \A i, j \in DOMAIN t :
        i < j /\ t[i].state \in PublishStates /\ t[j].state \in PublishStates
            => kept[t[i].id].msg > kept[t[j].id].msg

(* recs names the records with a PUBREC, in the order of the table.         *)
RelPlaces(t) == {i \in DOMAIN t : t[i].state \in RelStates}
RelsAlong(t, recs, g) ==
    /\ Enumerates(g, Len(recs), RelPlaces(t))
    /\ \A k \in 1 .. Len(recs) : t[g[k]].id = recs[k]
RelsInOrder(t, recs) == \E g : RelsAlong(t, recs, g)

(* What stands in a place.                                                  *)
LEMMA InPlace ==
    ASSUME NEW n \in Nat \ {0}, NEW states, "Null" \notin states, NEW t, IsTable(t, n, states),
           NEW i \in 1 .. n
    PROVE  /\ t[i] = NoRecord \/ t[i] \in Entry(states)
           /\ t[i].id = 0 => t[i] = NoRecord
           /\ t[i].id # 0 => t[i] \in Entry(states) /\ t[i].id \in Ids /\ t[i].state \in states
                                /\ t[i].qos \in {1, 2}
           /\ t[i].state \in states => t[i].id # 0
           /\ DOMAIN t = 1 .. n
<1>1. t[i] = NoRecord \/ t[i] \in Entry(states)
  BY DEF IsTable
<1>2. DOMAIN t = 1 .. n
  BY DEF IsTable
<1>3. CASE t[i] = NoRecord
  BY <1>2, <1>3 DEF NoRecord
<1>4. CASE t[i] \in Entry(states)
  <2>1. t[i].id \in Ids /\ t[i].state \in states /\ t[i].qos \in {1, 2}
    BY <1>4 DEF Entry
  <2>2. t[i].id # 0
    BY <2>1, MqttAssumption DEF Ids
  <2> QED
    BY <1>2, <1>4, <2>1, <2>2
<1> QED
  BY <1>1, <1>3, <1>4

(* The record of an identifier is the one that stands in its place.         *)
LEMMA AtPlace ==
    ASSUME NEW n \in Nat \ {0}, NEW states, NEW t, IsTable(t, n, states)
    PROVE  /\ \A i \in 1 .. n : t[i].id # 0 => t[i].id \in IdsOf(t) /\ At(t, t[i].id) = t[i]
                                                 /\ RecordOf(t, t[i].id) = t[i]
           /\ \A id : id \in IdsOf(t) => id # 0 /\ \E i \in 1 .. n : t[i].id = id
           /\ \A id : id \notin IdsOf(t) => At(t, id) = NoRecord
<1>1. DOMAIN t = 1 .. n
  BY DEF IsTable
<1>2. ASSUME NEW i \in 1 .. n, t[i].id # 0
      PROVE  t[i].id \in IdsOf(t) /\ RecordOf(t, t[i].id) = t[i]
  <2>1. t[i].id \in IdsOf(t)
    BY <1>1, <1>2 DEF IdsOf
  <2>2. \A j \in 1 .. n : t[j].id = t[i].id => j = i
    BY <1>2 DEF IsTable
  <2>3. (CHOOSE j \in DOMAIN t : t[j].id = t[i].id) = i
    BY <1>1, <2>2
  <2> QED
    BY <2>1, <2>3 DEF RecordOf
<1>3. \A id : id \in IdsOf(t) => id # 0 /\ \E i \in 1 .. n : t[i].id = id
  BY <1>1 DEF IdsOf
<1> QED
  BY <1>2, <1>3 DEF At

(* The record of an identifier has that identifier.                         *)
LEMMA AtId ==
    ASSUME NEW n \in Nat \ {0}, NEW states, "Null" \notin states, NEW t, IsTable(t, n, states),
           NEW id
    PROVE  /\ id \in IdsOf(t) =>
                /\ id \in Ids /\ At(t, id) \in Entry(states) /\ At(t, id) = RecordOf(t, id)
                /\ At(t, id).id = id /\ At(t, id).state \in states /\ At(t, id).qos \in {1, 2}
           /\ id \notin IdsOf(t) => At(t, id) = NoRecord
           /\ At(t, id).id # 0 => id \in IdsOf(t)
           /\ At(t, id).state \in states => id \in IdsOf(t)
<1>1. CASE id \in IdsOf(t)
  <2>1. PICK i \in 1 .. n : t[i].id = id /\ id # 0
    BY <1>1, AtPlace
  <2>2. At(t, id) = t[i] /\ RecordOf(t, id) = t[i]
    BY <2>1, AtPlace
  <2> QED
    BY <1>1, <2>1, <2>2, InPlace
<1>2. CASE id \notin IdsOf(t)
  <2>1. At(t, id) = NoRecord
    BY <1>2, AtPlace
  <2> QED
    BY <1>2, <2>1 DEF NoRecord
<1> QED
  BY <1>1, <1>2

(* Two tables with the same records in their places, however these moved.   *)
LEMMA SameRecords ==
    ASSUME NEW n \in Nat \ {0}, NEW states, NEW t, IsTable(t, n, states), NEW c, IsTable(c, n, states),
           \A i \in 1 .. n : c[i].id # 0 => \E j \in 1 .. n : c[i] = t[j],
           \A j \in 1 .. n : t[j].id # 0 => \E i \in 1 .. n : c[i] = t[j]
    PROVE  IdsOf(c) = IdsOf(t) /\ \A id : At(c, id) = At(t, id)
<1>1. ASSUME NEW id, id \in IdsOf(c)
      PROVE  id \in IdsOf(t) /\ At(c, id) = At(t, id)
  <2>1. PICK i \in 1 .. n : c[i].id = id /\ id # 0
    BY <1>1, AtPlace
  <2>2. PICK j \in 1 .. n : c[i] = t[j]
    BY <2>1
  <2> QED
    BY <2>1, <2>2, AtPlace
<1>2. ASSUME NEW id, id \in IdsOf(t)
      PROVE  id \in IdsOf(c)
  <2>1. PICK j \in 1 .. n : t[j].id = id /\ id # 0
    BY <1>2, AtPlace
  <2>2. PICK i \in 1 .. n : c[i] = t[j]
    BY <2>1
  <2> QED
    BY <2>1, <2>2, AtPlace
<1>3. IdsOf(c) = IdsOf(t)
  BY <1>1, <1>2
<1>4. \A id : id \notin IdsOf(c) => At(c, id) = NoRecord /\ At(t, id) = NoRecord
  BY <1>3 DEF At
<1> QED
  BY <1>1, <1>3, <1>4

(* compactRecords: the used places are the first ones, in their order.      *)
LEMMA CompactedAlong ==
    ASSUME NEW n \in Nat \ {0}, NEW states, NEW t, IsTable(t, n, states)
    PROVE  \E m \in 0 .. n : \E g :
                /\ Enumerates(g, m, UsedPlaces(t))
                /\ Compacted(t) = [i \in 1 .. n |-> IF i <= m THEN t[g[i]] ELSE NoRecord]
                /\ m = n => UsedPlaces(t) = 1 .. n
                /\ Len(Used(t)) = m
<1> DEFINE S == UsedPlaces(t)
           m == Cardinality(S)
<1>1. DOMAIN t = 1 .. n
  BY DEF IsTable
<1>2. S \in SUBSET (1 .. n) /\ S \subseteq Nat
  BY <1>1 DEF UsedPlaces
<1>3. IsFiniteSet(1 .. n) /\ Cardinality(1 .. n) = n
  BY FS_Interval
<1>4. IsFiniteSet(S) /\ m <= n /\ (m = n => S = 1 .. n)
  BY <1>2, <1>3, FS_Subset
<1> HIDE DEF S
<1>5. PICK g : m \in Nat /\ Enumerates(g, m, S)
  BY <1>2, <1>4, Enumerable
<1>6. Len(Picked(t, S)) = m /\ \A k \in 1 .. m : Picked(t, S)[k] = t[g[k]]
  <2>1. S \subseteq Nat
    BY <1>2
  <2>2. m \in Nat
    BY <1>5
  <2>3. Enumerates(g, m, S)
    BY <1>5
  <2> HIDE DEF m
  <2> QED
    BY <2>1, <2>2, <2>3, PickedAlong
<1>7. Len(Used(t)) = m /\ \A k \in 1 .. m : Used(t)[k] = t[g[k]]
  BY <1>6 DEF Used, S, UsedPlaces
<1>8. m \in 0 .. n
  BY <1>4, <1>5
<1> HIDE DEF m
<1>9. Len(Used(t)) = m
  BY <1>7
<1>10. Compacted(t) = [i \in 1 .. n |-> IF i <= m THEN Used(t)[i] ELSE NoRecord]
  BY <1>1, <1>9 DEF Compacted
<1>11. \A i \in 1 .. n : i <= m => Used(t)[i] = t[g[i]]
  <2> TAKE i \in 1 .. n
  <2> HAVE i <= m
  <2>1. i \in 1 .. m
    BY <1>5
  <2> QED
    BY <1>7, <2>1
<1>12. Compacted(t) = [i \in 1 .. n |-> IF i <= m THEN t[g[i]] ELSE NoRecord]
  BY <1>10, <1>11
<1> QED
  BY <1>4, <1>5, <1>8, <1>9, <1>12 DEF S

PartOf(g, m, R) == {i \in 1 .. m : g[i] \in R}
Composed(g, h, r, l) == \A k \in 1 .. l : g[h[k]] = r[k]

(* The way through a part of the places, in terms of the way through all.   *)
LEMMA PartAlong ==
    ASSUME NEW U, NEW m, NEW g, Enumerates(g, m, U),
           NEW R, \A i \in R : i \in U, NEW l, NEW r, Enumerates(r, l, R)
    PROVE  \E h : Enumerates(h, l, PartOf(g, m, R)) /\ Composed(g, h, r, l)
<1> DEFINE X == PartOf(g, m, R)
           h == [k \in 1 .. l |-> CHOOSE i \in 1 .. m : g[i] = r[k]]
<1>0. m \in Nat /\ l \in Nat
  BY DEF Enumerates
<1>8. /\ \A i \in X : i \in 1 .. m /\ g[i] \in R
      /\ \A i \in 1 .. m : g[i] \in R => i \in X
  BY DEF PartOf
<1>1. ASSUME NEW k \in 1 .. l
      PROVE  h[k] \in 1 .. m /\ g[h[k]] = r[k] /\ g[h[k]] \in R
  <2>1. r[k] \in R
    BY Visited
  <2>2. \E i \in 1 .. m : g[i] = r[k]
    BY <2>1 DEF Enumerates
  <2> QED
    BY <2>1, <2>2
<1>2. ASSUME NEW i \in 1 .. m, NEW j \in 1 .. m
      PROVE  /\ i \in Nat /\ j \in Nat /\ g[i] \in Nat /\ g[j] \in Nat
             /\ (i < j => g[i] < g[j]) /\ (j < i => g[j] < g[i])
  BY Visited
<1> HIDE DEF h, X
<1>3. h \in [1 .. l -> X]
  <2>1. h = [k \in 1 .. l |-> h[k]]
    BY DEF h
  <2> QED
    BY <1>1, <1>8, <2>1
<1>4. ASSUME NEW k \in 1 .. l, NEW j \in 1 .. l, k < j
      PROVE  h[k] < h[j]
  <2>1. g[h[k]] = r[k] /\ g[h[j]] = r[j] /\ h[k] \in 1 .. m /\ h[j] \in 1 .. m
    BY <1>1
  <2>2. r[k] < r[j] /\ r[k] \in Nat /\ r[j] \in Nat
    BY <1>4, Visited
  <2>3. h[k] \in Nat /\ h[j] \in Nat /\ (h[j] < h[k] => g[h[j]] < g[h[k]])
    BY <1>2, <2>1
  <2> QED
    BY <2>1, <2>2, <2>3
<1>5. ASSUME NEW i \in 1 .. m, g[i] \in R
      PROVE  \E k \in 1 .. l : h[k] = i
  <2>1. PICK k \in 1 .. l : r[k] = g[i]
    BY <1>5 DEF Enumerates
  <2>2. g[h[k]] = g[i] /\ h[k] \in 1 .. m
    BY <1>1, <2>1
  <2>3. h[k] \in Nat /\ i \in Nat /\ g[i] \in Nat
        /\ (h[k] < i => g[h[k]] < g[i]) /\ (i < h[k] => g[i] < g[h[k]])
    BY <1>2, <2>2
  <2>4. h[k] = i
    BY <2>2, <2>3
  <2> QED
    BY <2>4
<1>7. \A i \in X : i \in Nat
  BY <1>0, <1>8
<1>9. \A i \in X : \E k \in 1 .. l : h[k] = i
  BY <1>5, <1>8
<1>6. Enumerates(h, l, X)
  BY <1>0, <1>3, <1>4, <1>7, <1>9 DEF Enumerates
<1>10. Composed(g, h, r, l)
  BY <1>1 DEF Composed
<1> QED
  BY <1>6, <1>10 DEF X

(* The way through some of the members, as they are numbered by a way       *)
(* through all.                                                             *)
LEMMA SomeAlong ==
    ASSUME NEW R, NEW l, NEW r, Enumerates(r, l, R),
           NEW K, \A k \in K : k \in 1 .. l, NEW m, NEW e, Enumerates(e, m, K)
    PROVE  Enumerates([k \in 1 .. m |-> r[e[k]]], m, {r[k] : k \in K})
<1> DEFINE h == [k \in 1 .. m |-> r[e[k]]]
<1>0. m \in Nat /\ \A i \in R : i \in Nat
  BY DEF Enumerates
<1>1. ASSUME NEW k \in 1 .. m
      PROVE  e[k] \in K /\ e[k] \in 1 .. l
  BY Visited
<1>2. h \in [1 .. m -> {r[k] : k \in K}]
  BY <1>1
<1>3. ASSUME NEW k \in 1 .. m, NEW j \in 1 .. m, k < j
      PROVE  h[k] < h[j]
  <2>1. e[k] < e[j]
    BY <1>3, Visited
  <2>2. r[e[k]] < r[e[j]]
    BY <1>1, <2>1, Visited
  <2> QED
    BY <2>2
<1>4. ASSUME NEW i \in {r[k] : k \in K}
      PROVE  \E k \in 1 .. m : h[k] = i
  <2>1. PICK j \in K : i = r[j]
    OBVIOUS
  <2>2. PICK k \in 1 .. m : e[k] = j
    BY DEF Enumerates
  <2> QED
    BY <2>1, <2>2
<1>5. \A i \in {r[k] : k \in K} : i \in Nat
  BY <1>0 DEF Enumerates
<1> QED
  BY <1>0, <1>2, <1>3, <1>4, <1>5 DEF Enumerates

(* A table and what compactRecords makes of it.                             *)
LEMMA Compacting ==
    ASSUME NEW n \in Nat \ {0}, NEW states, "Null" \notin states, NEW t, IsTable(t, n, states),
           NEW c, c = Compacted(t)
    PROVE  /\ IsTable(c, n, states) /\ IdsOf(c) = IdsOf(t) /\ \A id : At(c, id) = At(t, id)
           /\ \A kept : PubsInOrder(t, kept) => PubsInOrder(c, kept)
           /\ \A recs \in Seq(Ids) : RelsInOrder(t, recs) => RelsInOrder(c, recs)
           /\ c[n].id # 0 => UsedPlaces(t) = 1 .. n
<1>1. PICK m \in 0 .. n : \E g :
                /\ Enumerates(g, m, UsedPlaces(t))
                /\ Compacted(t) = [i \in 1 .. n |-> IF i <= m THEN t[g[i]] ELSE NoRecord]
                /\ m = n => UsedPlaces(t) = 1 .. n
  BY CompactedAlong
<1>2. PICK g : /\ Enumerates(g, m, UsedPlaces(t))
               /\ c = [i \in 1 .. n |-> IF i <= m THEN t[g[i]] ELSE NoRecord]
               /\ m = n => UsedPlaces(t) = 1 .. n
  BY <1>1
<1>3. UsedPlaces(t) \subseteq 1 .. n /\ UsedPlaces(t) \subseteq Nat /\ m \in Nat
  BY DEF UsedPlaces, IsTable
<1>4. ASSUME NEW i \in 1 .. m
      PROVE  i \in 1 .. n /\ c[i] = t[g[i]] /\ g[i] \in 1 .. n /\ g[i] \in UsedPlaces(t) /\ c[i].id # 0
  <2>1. g[i] \in UsedPlaces(t)
    BY <1>2, <1>3, Visited
  <2>2. i \in 1 .. n /\ i <= m
    BY <1>3
  <2>3. g[i] \in 1 .. n /\ t[g[i]].id # 0
    BY <1>3, <2>1 DEF UsedPlaces
  <2> QED
    BY <1>2, <2>1, <2>2, <2>3
<1>5. ASSUME NEW i \in 1 .. n, i \notin 1 .. m
      PROVE  c[i] = NoRecord /\ c[i].id = 0
  BY <1>2, <1>3, <1>5 DEF NoRecord
<1>6. DOMAIN c = 1 .. n /\ DOMAIN t = 1 .. n
  BY <1>2 DEF IsTable
<1>7. ASSUME NEW i \in 1 .. m, NEW j \in 1 .. m
      PROVE  /\ i \in Nat /\ j \in Nat /\ g[i] \in Nat /\ g[j] \in Nat
             /\ (i < j => g[i] < g[j]) /\ (j < i => g[j] < g[i])
  BY <1>2, <1>3, Visited
<1>8. IsTable(c, n, states)
  <2>1. \A i \in 1 .. n : c[i] \in {NoRecord} \cup Entry(states)
    BY <1>4, <1>5 DEF IsTable
  <2>2. ASSUME NEW i \in 1 .. n, NEW j \in 1 .. n, c[i].id # 0, c[i].id = c[j].id
        PROVE  i = j
    <3>1. i \in 1 .. m /\ j \in 1 .. m
      BY <1>5, <2>2
    <3>2. g[i] = g[j]
      BY <1>4, <2>2, <3>1 DEF IsTable
    <3> QED
      BY <1>7, <3>1, <3>2
  <2>3. c \in [1 .. n -> {NoRecord} \cup Entry(states)]
    BY <1>2, <2>1
  <2> QED
    BY <2>2, <2>3 DEF IsTable
<1>9. IdsOf(c) = IdsOf(t) /\ \A id : At(c, id) = At(t, id)
  <2>1. ASSUME NEW i \in 1 .. n, c[i].id # 0
        PROVE  \E j \in 1 .. n : c[i] = t[j]
    BY <1>4, <1>5, <2>1
  <2>2. ASSUME NEW j \in 1 .. n, t[j].id # 0
        PROVE  \E i \in 1 .. n : c[i] = t[j]
    <3>1. j \in UsedPlaces(t)
      BY <1>6, <2>2 DEF UsedPlaces
    <3>2. PICK i \in 1 .. m : g[i] = j
      BY <1>2, <3>1 DEF Enumerates
    <3> QED
      BY <1>4, <3>2
  <2> QED
    BY <1>8, <2>1, <2>2, SameRecords
<1>10. ASSUME NEW kept, PubsInOrder(t, kept)
       PROVE  PubsInOrder(c, kept)
  <2> SUFFICES ASSUME NEW i \in 1 .. n, NEW j \in 1 .. n, i < j,
                      c[i].state \in PublishStates, c[j].state \in PublishStates
               PROVE  kept[c[i].id].msg > kept[c[j].id].msg
    BY <1>6 DEF PubsInOrder
  <2>1. i \in 1 .. m /\ j \in 1 .. m
    BY <1>5 DEF PublishStates, NoRecord
  <2>2. c[i] = t[g[i]] /\ c[j] = t[g[j]] /\ g[i] \in 1 .. n /\ g[j] \in 1 .. n /\ g[i] < g[j]
    BY <1>4, <1>7, <2>1
  <2> QED
    BY <1>6, <1>10, <2>2 DEF PubsInOrder
<1>11. ASSUME NEW recs \in Seq(Ids), RelsInOrder(t, recs)
       PROVE  RelsInOrder(c, recs)
  <2>1. PICK r : RelsAlong(t, recs, r)
    BY <1>11 DEF RelsInOrder
  <2>2. ASSUME NEW i \in RelPlaces(t)
        PROVE  i \in UsedPlaces(t)
    <3>1. i \in 1 .. n /\ t[i].state \in RelStates
      BY <1>6 DEF RelPlaces
    <3>2. t[i] # NoRecord
      BY <3>1 DEF RelStates, NoRecord
    <3>3. t[i].id # 0
      BY <3>1, <3>2, InPlace
    <3> QED
      BY <1>6, <3>1, <3>3 DEF UsedPlaces
  <2>3. Len(recs) \in Nat
    BY LenProperties
  <2>4. PICK h : /\ Enumerates(h, Len(recs), PartOf(g, m, RelPlaces(t)))
                 /\ Composed(g, h, r, Len(recs))
    <3>1. Enumerates(r, Len(recs), RelPlaces(t))
      BY <2>1 DEF RelsAlong
    <3>2. Enumerates(g, m, UsedPlaces(t))
      BY <1>2
    <3> QED
      BY <2>2, <2>3, <3>1, <3>2, PartAlong
  <2>5. RelPlaces(c) = PartOf(g, m, RelPlaces(t))
    <3>1. ASSUME NEW i \in 1 .. n
          PROVE  i \in RelPlaces(c) <=> i \in 1 .. m /\ g[i] \in RelPlaces(t)
      <4>1. CASE i \in 1 .. m
        BY <1>4, <1>6, <4>1 DEF RelPlaces
      <4>2. CASE i \notin 1 .. m
        BY <1>5, <1>6, <4>2 DEF RelPlaces, RelStates, NoRecord
      <4> QED
        BY <4>1, <4>2
    <3>2. \A i \in RelPlaces(c) : i \in 1 .. n
      BY <1>6 DEF RelPlaces
    <3>3. \A i \in 1 .. m : i \in 1 .. n
      BY <1>4
    <3> QED
      BY <3>1, <3>2, <3>3 DEF PartOf
  <2>6. ASSUME NEW k \in 1 .. Len(recs)
        PROVE  c[h[k]].id = recs[k]
    <3>1. h[k] \in 1 .. m
      BY <2>4 DEF Enumerates, PartOf
    <3>2. c[h[k]] = t[r[k]]
      BY <1>4, <2>4, <3>1 DEF Composed
    <3> QED
      BY <2>1, <3>2 DEF RelsAlong
  <2>7. RelsAlong(c, recs, h)
    BY <2>4, <2>5, <2>6 DEF RelsAlong
  <2> QED
    BY <2>7 DEF RelsInOrder
<1>12. c[n].id # 0 => UsedPlaces(t) = 1 .. n
  <2>1. n \in 1 .. n
    OBVIOUS
  <2> QED
    BY <1>2, <1>5, <2>1
<1> QED
  BY <1>8, <1>9, <1>10, <1>11, <1>12

(* What a table tells of its records, wherever they stand.                  *)
Agree(t, c) ==
    /\ IdsOf(c) = IdsOf(t)
    /\ \A id : At(c, id) = At(t, id)
    /\ \A kept : PubsInOrder(t, kept) => PubsInOrder(c, kept)
    /\ \A recs \in Seq(Ids) : RelsInOrder(t, recs) => RelsInOrder(c, recs)

(* r is newer than the publishes of the table.                              *)
LastPublish(t, r, kept) ==
    r.state \in PublishStates =>
        \A id \in IdsOf(t) : At(t, id).state \in PublishStates => kept[id].msg > kept[r.id].msg

(* c has r behind what t has.                                               *)
Extended(t, c, r) ==
    /\ IdsOf(c) = IdsOf(t) \cup {r.id}
    /\ At(c, r.id) = r
    /\ \A id : id # r.id => At(c, id) = At(t, id)
    /\ \A kept : PubsInOrder(t, kept) /\ LastPublish(t, r, kept) => PubsInOrder(c, kept)
    /\ \A recs \in Seq(Ids) :
            RelsInOrder(t, recs) =>
                /\ r.state \notin RelStates => RelsInOrder(c, recs)
                /\ r.state \in RelStates => RelsInOrder(c, Append(recs, r.id))

(* A record that is put behind all others.                                  *)
LEMMA Placing ==
    ASSUME NEW n \in Nat \ {0}, NEW states, "Null" \notin states, NEW t, IsTable(t, n, states),
           NEW r \in Entry(states), r.id \notin IdsOf(t),
           NEW p \in 1 .. n, \A i \in 1 .. n : t[i].id # 0 => i < p,
           NEW c, c = [i \in 1 .. n |-> IF i = p THEN r ELSE t[i]]
    PROVE  IsTable(c, n, states) /\ Extended(t, c, r)
<1>1. DOMAIN t = 1 .. n /\ DOMAIN c = 1 .. n
  BY DEF IsTable
<1>2. c[p] = r /\ r.id \in Ids /\ r.id # 0 /\ r.state \in states
  BY MqttAssumption DEF Entry, Ids
<1>3. \A i \in 1 .. n : i # p => c[i] = t[i]
  OBVIOUS
<1>4. t[p].id = 0 /\ t[p] = NoRecord
  BY InPlace
<1>5. \A i \in 1 .. n : t[i].id # 0 => t[i].id # r.id /\ i # p
  BY <1>1, AtPlace
<1>6. IsTable(c, n, states)
  <2>1. c \in [1 .. n -> {NoRecord} \cup Entry(states)]
    BY DEF IsTable
  <2>2. ASSUME NEW i \in 1 .. n, NEW j \in 1 .. n, c[i].id # 0, c[i].id = c[j].id
        PROVE  i = j
    <3>1. CASE i = p
      BY <1>2, <1>3, <1>5, <2>2, <3>1
    <3>2. CASE j = p
      BY <1>2, <1>3, <1>5, <2>2, <3>2
    <3>3. CASE i # p /\ j # p
      BY <1>3, <2>2, <3>3 DEF IsTable
    <3> QED
      BY <3>1, <3>2, <3>3
  <2> QED
    BY <2>1, <2>2 DEF IsTable
<1>7. IdsOf(c) = IdsOf(t) \cup {r.id}
  <2>1. ASSUME NEW id, id \in IdsOf(c)
        PROVE  id \in IdsOf(t) \cup {r.id}
    <3>1. PICK i \in 1 .. n : c[i].id = id /\ id # 0
      BY <1>6, <2>1, AtPlace
    <3> QED
      BY <1>2, <1>3, <3>1, AtPlace
  <2>2. ASSUME NEW id, id \in IdsOf(t)
        PROVE  id \in IdsOf(c)
    <3>1. PICK i \in 1 .. n : t[i].id = id /\ id # 0
      BY <2>2, AtPlace
    <3>2. c[i] = t[i]
      BY <1>3, <1>5, <3>1
    <3> QED
      BY <1>6, <3>1, <3>2, AtPlace
  <2>3. r.id \in IdsOf(c)
    BY <1>2, <1>6, AtPlace
  <2> QED
    BY <2>1, <2>2, <2>3
<1>8. At(c, r.id) = r
  BY <1>2, <1>6, AtPlace
<1>9. ASSUME NEW id, id # r.id
      PROVE  At(c, id) = At(t, id)
  <2>1. CASE id \in IdsOf(t)
    <3>1. PICK i \in 1 .. n : t[i].id = id /\ id # 0
      BY <2>1, AtPlace
    <3>2. c[i] = t[i]
      BY <1>3, <1>5, <3>1
    <3> QED
      BY <1>6, <3>1, <3>2, AtPlace
  <2>2. CASE id \notin IdsOf(t)
    <3>1. id \notin IdsOf(c)
      BY <1>7, <1>9, <2>2
    <3> QED
      BY <2>2, <3>1 DEF At
  <2> QED
    BY <2>1, <2>2
<1>10. ASSUME NEW kept, PubsInOrder(t, kept), LastPublish(t, r, kept)
       PROVE  PubsInOrder(c, kept)
  <2> SUFFICES ASSUME NEW i \in 1 .. n, NEW j \in 1 .. n, i < j,
                      c[i].state \in PublishStates, c[j].state \in PublishStates
               PROVE  kept[c[i].id].msg > kept[c[j].id].msg
    BY <1>1 DEF PubsInOrder
  <2>1. ASSUME NEW k \in 1 .. n, k # p, c[k].state \in PublishStates
        PROVE  c[k] = t[k] /\ t[k].id # 0 /\ k < p /\ t[k].id \in IdsOf(t) /\ At(t, t[k].id) = t[k]
    <3>1. c[k] = t[k] /\ t[k] # NoRecord
      BY <1>3, <2>1 DEF PublishStates, NoRecord
    <3>2. t[k].id # 0
      BY <3>1, InPlace
    <3> QED
      BY <3>1, <3>2, AtPlace
  <2>2. CASE i # p /\ j # p
    <3>1. c[i] = t[i] /\ c[j] = t[j]
      BY <2>1, <2>2
    <3> QED
      BY <1>1, <1>10, <3>1 DEF PubsInOrder
  <2>3. CASE i = p
    BY <2>1, <2>3
  <2>4. CASE i # p /\ j = p
    <3>1. c[i] = t[i] /\ t[i].id \in IdsOf(t) /\ At(t, t[i].id) = t[i]
      BY <2>1, <2>4
    <3>2. c[j] = r
      BY <1>2, <2>4
    <3> QED
      BY <1>10, <3>1, <3>2 DEF LastPublish
  <2> QED
    BY <2>2, <2>3, <2>4
<1>11. ASSUME NEW i \in 1 .. n
       PROVE  i \in RelPlaces(c) <=> i \in RelPlaces(t) \/ (i = p /\ r.state \in RelStates)
  <2>1. CASE i = p
    BY <1>1, <1>2, <1>4, <2>1 DEF RelPlaces, RelStates, NoRecord
  <2>2. CASE i # p
    BY <1>1, <1>3, <2>2 DEF RelPlaces
  <2> QED
    BY <2>1, <2>2
<1>12. \A i : (i \in RelPlaces(c) => i \in 1 .. n) /\ (i \in RelPlaces(t) => i \in 1 .. n)
  BY <1>1 DEF RelPlaces
<1>13. ASSUME NEW i \in RelPlaces(t)
       PROVE  i # p /\ c[i] = t[i] /\ i < p
  <2>1. i \in 1 .. n /\ t[i] # NoRecord
    BY <1>12 DEF RelPlaces, RelStates, NoRecord
  <2>2. t[i].id # 0
    BY <2>1, InPlace
  <2> QED
    BY <1>3, <2>1, <2>2
<1>14. ASSUME NEW recs \in Seq(Ids), RelsInOrder(t, recs), r.state \notin RelStates
       PROVE  RelsInOrder(c, recs)
  <2>1. PICK g : RelsAlong(t, recs, g)
    BY <1>14 DEF RelsInOrder
  <2>2. RelPlaces(c) = RelPlaces(t)
    BY <1>11, <1>12, <1>14
  <2>3. ASSUME NEW k \in 1 .. Len(recs)
        PROVE  c[g[k]].id = recs[k]
    <3>1. g[k] \in RelPlaces(t)
      BY <2>1, Visited DEF RelsAlong
    <3> QED
      BY <1>13, <2>1, <3>1 DEF RelsAlong
  <2>4. RelsAlong(c, recs, g)
    BY <2>1, <2>2, <2>3 DEF RelsAlong
  <2> QED
    BY <2>4 DEF RelsInOrder
<1>15. ASSUME NEW recs \in Seq(Ids), RelsInOrder(t, recs), r.state \in RelStates
       PROVE  RelsInOrder(c, Append(recs, r.id))
  <2>1. PICK g : RelsAlong(t, recs, g)
    BY <1>15 DEF RelsInOrder
  <2> DEFINE l == Len(recs)
             new == Append(recs, r.id)
             h == [k \in 1 .. l + 1 |-> IF k = l + 1 THEN p ELSE g[k]]
  <2>2. l \in Nat /\ Len(new) = l + 1 /\ new[l + 1] = r.id /\ \A k \in 1 .. l : new[k] = recs[k]
    BY <1>2
  <2>3. Enumerates(g, l, RelPlaces(t))
    BY <2>1 DEF RelsAlong
  <2> HIDE DEF l, new
  <2>4. ASSUME NEW k \in 1 .. l
        PROVE  g[k] \in RelPlaces(t) /\ k \in 1 .. l + 1 /\ h[k] = g[k] /\ k < l + 1 /\ g[k] < p
    <3>1. g[k] \in RelPlaces(t)
      BY <2>3, Visited
    <3>2. k \in 1 .. l + 1 /\ k # l + 1 /\ k < l + 1
      BY <2>2
    <3>3. g[k] < p
      BY <1>13, <3>1
    <3> QED
      BY <3>1, <3>2, <3>3
  <2>5. h[l + 1] = p /\ l + 1 \in 1 .. l + 1
    BY <2>2
  <2>6. \A k \in 1 .. l + 1 : k = l + 1 \/ k \in 1 .. l
    BY <2>2
  <2>7. p \in RelPlaces(c)
    BY <1>11, <1>15
  <2>8. h \in [1 .. l + 1 -> RelPlaces(c)]
    <3>1. \A k \in 1 .. l + 1 : h[k] \in RelPlaces(c)
      BY <1>11, <1>12, <2>4, <2>5, <2>6, <2>7
    <3> QED
      BY <3>1
  <2> HIDE DEF h
  <2>9. ASSUME NEW k \in 1 .. l + 1, NEW j \in 1 .. l + 1, k < j
        PROVE  h[k] < h[j]
    <3>1. k \in 1 .. l
      BY <2>2, <2>6, <2>9
    <3>2. CASE j = l + 1
      BY <2>4, <2>5, <3>1, <3>2
    <3>3. CASE j \in 1 .. l
      <4>1. g[k] < g[j]
        BY <2>3, <2>9, <3>1, <3>3, Visited
      <4> QED
        BY <2>4, <3>1, <3>3, <4>1
    <3> QED
      BY <2>6, <3>2, <3>3
  <2>10. ASSUME NEW i \in RelPlaces(c)
         PROVE  \E k \in 1 .. l + 1 : h[k] = i
    <3>1. CASE i \in RelPlaces(t)
      <4>1. PICK k \in 1 .. l : g[k] = i
        BY <2>3, <3>1 DEF Enumerates
      <4> QED
        BY <2>4, <4>1
    <3>2. CASE i = p
      BY <2>5, <3>2
    <3> QED
      BY <1>11, <1>12, <3>1, <3>2
  <2>11. Enumerates(h, l + 1, RelPlaces(c))
    BY <1>12, <2>2, <2>8, <2>9, <2>10 DEF Enumerates
  <2>12. ASSUME NEW k \in 1 .. l + 1
         PROVE  c[h[k]].id = new[k]
    <3>1. CASE k = l + 1
      BY <1>2, <2>2, <2>5, <3>1
    <3>2. CASE k \in 1 .. l
      <4>1. t[g[k]].id = recs[k]
        BY <2>1, <3>2 DEF RelsAlong, l
      <4> QED
        BY <1>13, <2>2, <2>4, <3>2, <4>1
    <3> QED
      BY <2>6, <3>1, <3>2
  <2>13. RelsAlong(c, new, h)
    BY <2>2, <2>11, <2>12 DEF RelsAlong
  <2> QED
    BY <2>13 DEF RelsInOrder, new
<1>16. Extended(t, c, r)
  BY <1>7, <1>8, <1>9, <1>10, <1>14, <1>15 DEF Extended
<1> QED
  BY <1>6, <1>16

(* The last place in use, or 0.                                             *)
LEMMA LastUsed ==
    ASSUME NEW n \in Nat \ {0}, NEW states, NEW t, IsTable(t, n, states),
           NEW used, used = {0} \cup {i \in DOMAIN t : t[i].id # 0}
    PROVE  /\ \E i \in used : \A j \in used : j <= i
           /\ \A last \in used : (\A j \in used : j <= last) =>
                /\ last \in 0 .. n /\ \A i \in 1 .. n : t[i].id # 0 => i <= last
                /\ last > 0 => t[last].id # 0
<1> DEFINE S == UsedPlaces(t)
<1>1. DOMAIN t = 1 .. n
  BY DEF IsTable
<1>2. S \in SUBSET (1 .. n) /\ \A i \in S : i \in Nat /\ i <= n /\ i > 0 /\ t[i].id # 0
  BY <1>1 DEF UsedPlaces
<1>3. used = {0} \cup S
  BY DEF UsedPlaces
<1>4. IsFiniteSet(1 .. n)
  BY FS_Interval
<1>5. IsFiniteSet(S)
  BY <1>2, <1>4, FS_Subset
<1> HIDE DEF S
<1>6. PICK g : Cardinality(S) \in Nat /\ Enumerates(g, Cardinality(S), S)
  BY <1>2, <1>5, Enumerable
<1> DEFINE m == Cardinality(S)
<1>7. \E x \in used : \A j \in used : j <= x
  <2>1. CASE m = 0
    <3>1. S = {}
      BY <1>6, <2>1 DEF Enumerates
    <3> QED
      BY <1>3, <3>1
  <2>2. CASE m # 0
    <3>1. m \in 1 .. m /\ g[m] \in S /\ g[m] \in Nat
      BY <1>6, <2>2, Visited
    <3>2. ASSUME NEW j \in S
          PROVE  j <= g[m]
      <4>1. PICK k \in 1 .. m : g[k] = j
        BY <1>6 DEF Enumerates
      <4>2. k = m \/ k < m
        BY <1>6
      <4>3. k < m => g[k] < g[m]
        BY <1>6, <3>1, Visited
      <4>4. j \in Nat
        BY <1>6 DEF Enumerates
      <4> QED
        BY <3>1, <4>1, <4>2, <4>3, <4>4
    <3>3. g[m] \in used /\ 0 <= g[m]
      BY <1>3, <3>1
    <3> QED
      BY <1>3, <3>2, <3>3
  <2> QED
    BY <2>1, <2>2
<1> SUFFICES ASSUME NEW last \in used, \A j \in used : j <= last
             PROVE  /\ last \in 0 .. n /\ \A i \in 1 .. n : t[i].id # 0 => i <= last
                    /\ last > 0 => t[last].id # 0
  BY <1>7
<1>8. last \in used /\ \A j \in used : j <= last
  OBVIOUS
<1>9. \A i \in 1 .. n : t[i].id # 0 => i \in used
  BY <1>1
<1>10. last = 0 \/ last \in S
  BY <1>3, <1>8
<1>11. last \in S => last \in 1 .. n /\ t[last].id # 0
  BY <1>2
<1>12. CASE last = 0
  <2>1. last \in 0 .. n /\ ~(last > 0)
    BY <1>12
  <2> QED
    BY <1>8, <1>9, <2>1
<1>13. CASE last \in S
  <2>1. last \in 1 .. n /\ t[last].id # 0
    BY <1>11, <1>13
  <2>2. last \in 0 .. n
    BY <2>1
  <2> QED
    BY <1>8, <1>9, <2>1, <2>2
<1> QED
  BY <1>10, <1>12, <1>13

(* addRecord.                                                               *)
LEMMA Adding ==
    ASSUME NEW n \in Nat \ {0}, NEW states, "Null" \notin states, NEW t, IsTable(t, n, states),
           NEW r \in Entry(states), NEW a, a = Added(t, r)
    PROVE  /\ a.status \in {"Success", "NoMemory", "StateCollision"}
           /\ a.status = "StateCollision" <=> r.id \in IdsOf(t)
           /\ IsTable(a.table, n, states)
           /\ a.status # "Success" => Agree(t, a.table)
           /\ a.status = "Success" => Extended(t, a.table, r)
           /\ (\E i \in 1 .. n : t[i].id = 0) => a.status # "NoMemory"
<1>1. DOMAIN t = 1 .. n /\ Len(t) = n /\ n \in 1 .. n
  BY DEF IsTable
<1> DEFINE c == IF t[n].id # 0 THEN Compacted(t) ELSE t
           used == {0} \cup {i \in DOMAIN c : c[i].id # 0}
           last == CHOOSE i \in used : \A j \in used : j <= i
           d == [i \in DOMAIN c |-> IF i = last + 1 THEN r ELSE c[i]]
<1>2. IsTable(c, n, states) /\ Agree(t, c)
  <2>1. CASE t[n].id # 0
    BY <2>1, Compacting DEF Agree
  <2>2. CASE t[n].id = 0
    BY <2>2 DEF Agree
  <2> QED
    BY <2>1, <2>2
<1>3. c[n].id # 0 => \A i \in 1 .. n : t[i].id # 0
  <2> SUFFICES ASSUME c[n].id # 0
               PROVE  \A i \in 1 .. n : t[i].id # 0
    OBVIOUS
  <2>1. t[n].id # 0 /\ c = Compacted(t)
    OBVIOUS
  <2>2. UsedPlaces(t) = 1 .. n
    BY <2>1, Compacting
  <2> QED
    BY <2>2 DEF UsedPlaces
<1>4. a = CASE r.id \in IdsOf(c) -> [status |-> "StateCollision", table |-> c]
            [] r.id \notin IdsOf(c) /\ last = Len(c) -> [status |-> "NoMemory", table |-> c]
            [] OTHER -> [status |-> "Success", table |-> d]
  BY <1>1 DEF Added
<1> HIDE DEF c
<1>5. DOMAIN c = 1 .. n /\ Len(c) = n
  BY <1>2 DEF IsTable
<1>6. /\ last \in 0 .. n /\ \A i \in 1 .. n : c[i].id # 0 => i <= last
      /\ last > 0 => c[last].id # 0
  <2>1. /\ \E i \in used : \A j \in used : j <= i
        /\ \A x \in used : (\A j \in used : j <= x) =>
                /\ x \in 0 .. n /\ \A i \in 1 .. n : c[i].id # 0 => i <= x
                /\ x > 0 => c[x].id # 0
    BY <1>2, LastUsed
  <2> HIDE DEF used
  <2>2. last \in used /\ \A j \in used : j <= last
    BY <2>1
  <2> HIDE DEF last
  <2> QED
    BY <2>1, <2>2
<1>7. IdsOf(c) = IdsOf(t) /\ \A id : At(c, id) = At(t, id)
  BY <1>2 DEF Agree
<1> HIDE DEF used, last
<1>8. CASE r.id \in IdsOf(c)
  <2>1. a = [status |-> "StateCollision", table |-> c]
    BY <1>4, <1>8
  <2> QED
    BY <1>2, <1>7, <1>8, <2>1
<1>9. CASE r.id \notin IdsOf(c) /\ last = n
  <2>1. a = [status |-> "NoMemory", table |-> c]
    BY <1>4, <1>5, <1>9
  <2>2. ~(\E i \in 1 .. n : t[i].id = 0)
    BY <1>3, <1>6, <1>9
  <2> QED
    BY <1>2, <1>7, <1>9, <2>1, <2>2
<1>10. CASE r.id \notin IdsOf(c) /\ last # n
  <2>1. a = [status |-> "Success", table |-> d]
    BY <1>4, <1>5, <1>10
  <2> DEFINE p == last + 1
  <2>2. p \in 1 .. n /\ \A i \in 1 .. n : c[i].id # 0 => i < p
    BY <1>6, <1>10
  <2>3. d = [i \in 1 .. n |-> IF i = p THEN r ELSE c[i]]
    BY <1>5
  <2> HIDE DEF p, d
  <2>4. IsTable(d, n, states) /\ Extended(c, d, r)
    BY <1>2, <1>10, <2>2, <2>3, Placing
  <2>5. Extended(t, d, r)
    <3>1. ASSUME NEW kept, PubsInOrder(t, kept), LastPublish(t, r, kept)
          PROVE  PubsInOrder(d, kept)
      <4>1. PubsInOrder(c, kept)
        BY <1>2, <3>1 DEF Agree
      <4>2. LastPublish(c, r, kept)
        BY <1>7, <3>1 DEF LastPublish
      <4> QED
        BY <2>4, <4>1, <4>2 DEF Extended
    <3>2. ASSUME NEW recs \in Seq(Ids), RelsInOrder(t, recs)
          PROVE  /\ r.state \notin RelStates => RelsInOrder(d, recs)
                 /\ r.state \in RelStates => RelsInOrder(d, Append(recs, r.id))
      <4>1. RelsInOrder(c, recs)
        BY <1>2, <3>2 DEF Agree
      <4> QED
        BY <2>4, <4>1 DEF Extended
    <3>3. /\ IdsOf(d) = IdsOf(t) \cup {r.id} /\ At(d, r.id) = r
          /\ \A id : id # r.id => At(d, id) = At(t, id)
      BY <1>7, <2>4 DEF Extended
    <3> QED
      BY <3>1, <3>2, <3>3 DEF Extended
  <2> QED
    BY <1>7, <1>10, <2>1, <2>4, <2>5
<1> QED
  BY <1>8, <1>9, <1>10

(* updateRecord: a record gets another state in its place.                  *)
LEMMA Marking ==
    ASSUME NEW n \in Nat \ {0}, NEW states, "Null" \notin states, NEW t, IsTable(t, n, states),
           NEW id \in IdsOf(t), NEW state \in states, NEW c, c = WithState(t, id, state)
    PROVE  /\ IsTable(c, n, states) /\ IdsOf(c) = IdsOf(t)
           /\ At(c, id) = [At(t, id) EXCEPT !.state = state]
           /\ \A x : x # id => At(c, x) = At(t, x)
           /\ \A kept : PubsInOrder(t, kept)
                            /\ (state \in PublishStates => At(t, id).state \in PublishStates)
                        => PubsInOrder(c, kept)
           /\ \A recs \in Seq(Ids) :
                  RelsInOrder(t, recs) /\ (state \in RelStates <=> At(t, id).state \in RelStates)
                        => RelsInOrder(c, recs)
<1>1. PICK p \in 1 .. n : t[p].id = id /\ id # 0
  BY AtPlace
<1>2. At(t, id) = t[p] /\ t[p] \in Entry(states)
  BY <1>1, AtPlace, InPlace
<1>3. DOMAIN t = 1 .. n
  BY DEF IsTable
<1>4. \A i \in 1 .. n : t[i].id = id => i = p
  BY <1>1 DEF IsTable
<1>5. c = [i \in 1 .. n |-> IF t[i].id = id THEN [t[i] EXCEPT !.state = state] ELSE t[i]]
  BY <1>3 DEF WithState
<1>6. c[p] = [t[p] EXCEPT !.state = state] /\ \A i \in 1 .. n : i # p => c[i] = t[i]
  BY <1>1, <1>4, <1>5
<1>7. c[p] \in Entry(states) /\ c[p].id = id /\ c[p].state = state
  BY <1>1, <1>2, <1>6 DEF Entry
<1>8. \A i \in 1 .. n : c[i].id = t[i].id
  BY <1>1, <1>6, <1>7
<1>9. DOMAIN c = 1 .. n
  BY <1>5
<1>10. IsTable(c, n, states)
  <2>1. \A i \in 1 .. n : c[i] \in {NoRecord} \cup Entry(states)
    BY <1>6, <1>7 DEF IsTable
  <2>2. c \in [1 .. n -> {NoRecord} \cup Entry(states)]
    BY <1>5, <2>1
  <2> QED
    BY <1>8, <2>2 DEF IsTable
<1>11. IdsOf(c) = IdsOf(t)
  BY <1>3, <1>8, <1>9 DEF IdsOf
<1>16. c[p].id # 0 /\ c[p].id = id
  BY <1>1, <1>7
<1>17. At(c, id) = c[p]
  BY <1>10, <1>16, AtPlace
<1>12. At(c, id) = [At(t, id) EXCEPT !.state = state]
  BY <1>2, <1>6, <1>17
<1>13. ASSUME NEW x, x # id
       PROVE  At(c, x) = At(t, x)
  <2>1. CASE x \in IdsOf(t)
    <3>1. PICK i \in 1 .. n : t[i].id = x /\ x # 0
      BY <2>1, AtPlace
    <3>2. c[i] = t[i]
      BY <1>1, <1>6, <1>13, <3>1
    <3> QED
      BY <1>10, <3>1, <3>2, AtPlace
  <2>2. CASE x \notin IdsOf(t)
    BY <1>11, <2>2 DEF At
  <2> QED
    BY <2>1, <2>2
<1>14. ASSUME NEW kept, PubsInOrder(t, kept), state \in PublishStates => At(t, id).state \in PublishStates
       PROVE  PubsInOrder(c, kept)
  <2> SUFFICES ASSUME NEW i \in 1 .. n, NEW j \in 1 .. n, i < j,
                      c[i].state \in PublishStates, c[j].state \in PublishStates
               PROVE  kept[c[i].id].msg > kept[c[j].id].msg
    BY <1>9 DEF PubsInOrder
  <2>1. t[i].state \in PublishStates /\ t[j].state \in PublishStates
    BY <1>2, <1>6, <1>7, <1>14
  <2> QED
    BY <1>3, <1>8, <1>14, <2>1 DEF PubsInOrder
<1>15. ASSUME NEW recs \in Seq(Ids), RelsInOrder(t, recs),
              state \in RelStates <=> At(t, id).state \in RelStates
       PROVE  RelsInOrder(c, recs)
  <2>1. PICK g : RelsAlong(t, recs, g)
    BY <1>15 DEF RelsInOrder
  <2>2. \A i \in 1 .. n : c[i].state \in RelStates <=> t[i].state \in RelStates
    BY <1>2, <1>6, <1>7, <1>15
  <2>3. RelPlaces(c) = RelPlaces(t)
    BY <1>3, <1>9, <2>2 DEF RelPlaces
  <2>4. ASSUME NEW k \in 1 .. Len(recs)
        PROVE  c[g[k]].id = recs[k]
    <3>1. g[k] \in 1 .. n
      BY <1>3, <2>1, Visited DEF RelsAlong, RelPlaces
    <3> QED
      BY <1>8, <2>1, <3>1 DEF RelsAlong
  <2>5. RelsAlong(c, recs, g)
    BY <2>1, <2>3, <2>4 DEF RelsAlong
  <2> QED
    BY <2>5 DEF RelsInOrder
<1> QED
  BY <1>10, <1>11, <1>12, <1>13, <1>14, <1>15

(* What is picked from a sequence is a sequence of the same.                *)
LEMMA PickedSeq ==
    ASSUME NEW X, NEW s \in Seq(X), NEW S, \A i \in S : i \in DOMAIN s
    PROVE  /\ Cardinality(S) \in Nat /\ Picked(s, S) \in Seq(X)
           /\ \E e : /\ Enumerates(e, Cardinality(S), S) /\ Len(Picked(s, S)) = Cardinality(S)
                     /\ Composed(s, e, Picked(s, S), Cardinality(S))
<1>1. DOMAIN s = 1 .. Len(s) /\ Len(s) \in Nat
  BY LenProperties
<1>2. \A i \in S : i \in Nat
  BY <1>1
<1>3. IsFiniteSet(1 .. Len(s))
  BY <1>1, FS_Interval
<1>4. S \in SUBSET (1 .. Len(s))
  BY <1>1
<1>5. IsFiniteSet(S)
  BY <1>3, <1>4, FS_Subset
<1>6. PICK e : Cardinality(S) \in Nat /\ Enumerates(e, Cardinality(S), S)
  BY <1>2, <1>5, Enumerable
<1> DEFINE m == Cardinality(S)
           q == Picked(s, S)
<1>7. DOMAIN q = 1 .. m /\ Len(q) = m /\ \A k \in 1 .. m : q[k] = s[e[k]]
  BY <1>6, PickedAlong
<1>8. q = [k \in 1 .. m |-> s[CHOOSE i \in S : Cardinality({j \in S : j <= i}) = k]]
  BY DEF Picked
<1>9. ASSUME NEW k \in 1 .. m
      PROVE  q[k] \in X
  <2>1. e[k] \in S
    BY <1>6, Visited
  <2>2. s[e[k]] \in X
    BY <1>1, <2>1
  <2> QED
    BY <1>7, <2>2
<1> HIDE DEF q
<1>10. q = [k \in 1 .. m |-> q[k]]
  BY <1>8
<1>11. q \in [1 .. m -> X]
  BY <1>9, <1>10
<1>12. m \in Nat
  BY <1>6
<1> HIDE DEF m
<1>13. q \in Seq(X)
  BY <1>11, <1>12, SeqDef
<1>14. Composed(s, e, q, m)
  BY <1>7 DEF Composed
<1> QED
  BY <1>6, <1>7, <1>13, <1>14 DEF q, m

(* c has the records of t but that of id.                                   *)
Others(recs, id) == Picked(recs, {k \in DOMAIN recs : recs[k] # id})
Reduced(t, c, id) ==
    /\ IdsOf(c) = IdsOf(t) \ {id}
    /\ \A x : x # id => At(c, x) = At(t, x)
    /\ \A kept : PubsInOrder(t, kept) => PubsInOrder(c, kept)
    /\ \A recs \in Seq(Ids) :
            RelsInOrder(t, recs) =>
                /\ RelsInOrder(c, Others(recs, id))
                /\ At(t, id).state \notin RelStates => RelsInOrder(c, recs)

(* A record is taken away.                                                  *)
LEMMA Removing ==
    ASSUME NEW n \in Nat \ {0}, NEW states, "Null" \notin states, NEW t, IsTable(t, n, states),
           NEW id \in Ids, NEW c, c = Without(t, id)
    PROVE  /\ IsTable(c, n, states) /\ Reduced(t, c, id) /\ At(c, id) = NoRecord
           /\ id \in IdsOf(t) => \E i \in 1 .. n : c[i].id = 0
<1>1. DOMAIN t = 1 .. n /\ id # 0
  BY MqttAssumption DEF IsTable, Ids
<1>2. c = [i \in 1 .. n |-> IF t[i].id = id THEN NoRecord ELSE t[i]]
  BY <1>1 DEF Without
<1>3. \A i \in 1 .. n : /\ t[i].id = id => c[i] = NoRecord
                        /\ t[i].id # id => c[i] = t[i]
                        /\ c[i].id # 0 => c[i] = t[i] /\ t[i].id # id
  BY <1>2 DEF NoRecord
<1>4. DOMAIN c = 1 .. n
  BY <1>2
<1>5. IsTable(c, n, states)
  <2>1. \A i \in 1 .. n : c[i] \in {NoRecord} \cup Entry(states)
    BY <1>3 DEF IsTable
  <2>2. c \in [1 .. n -> {NoRecord} \cup Entry(states)]
    BY <1>2, <2>1
  <2>3. \A i, j \in 1 .. n : c[i].id # 0 /\ c[i].id = c[j].id => i = j
    BY <1>3 DEF IsTable
  <2> QED
    BY <2>2, <2>3 DEF IsTable
<1>6. ASSUME NEW x
      PROVE  x \in IdsOf(c) <=> x \in IdsOf(t) /\ x # id
  <2>1. ASSUME x \in IdsOf(c)
        PROVE  x \in IdsOf(t) /\ x # id
    <3>1. PICK i \in 1 .. n : c[i].id = x /\ x # 0
      BY <1>5, <2>1, AtPlace
    <3> QED
      BY <1>3, <3>1, AtPlace
  <2>2. ASSUME x \in IdsOf(t), x # id
        PROVE  x \in IdsOf(c)
    <3>1. PICK i \in 1 .. n : t[i].id = x /\ x # 0
      BY <2>2, AtPlace
    <3>2. c[i] = t[i]
      BY <1>3, <2>2, <3>1
    <3> QED
      BY <1>5, <3>1, <3>2, AtPlace
  <2> QED
    BY <2>1, <2>2
<1>7. IdsOf(c) = IdsOf(t) \ {id}
  BY <1>6
<1>8. At(c, id) = NoRecord
  BY <1>6 DEF At
<1>9. ASSUME NEW x, x # id
      PROVE  At(c, x) = At(t, x)
  <2>1. CASE x \in IdsOf(t)
    <3>1. PICK i \in 1 .. n : t[i].id = x /\ x # 0
      BY <2>1, AtPlace
    <3>2. c[i] = t[i]
      BY <1>3, <1>9, <3>1
    <3> QED
      BY <1>5, <3>1, <3>2, AtPlace
  <2>2. CASE x \notin IdsOf(t)
    BY <1>6, <2>2 DEF At
  <2> QED
    BY <2>1, <2>2
<1>10. ASSUME NEW kept, PubsInOrder(t, kept)
       PROVE  PubsInOrder(c, kept)
  <2>1. \A i \in 1 .. n : c[i].state \in PublishStates => c[i] = t[i]
    BY <1>3 DEF NoRecord, PublishStates
  <2> QED
    BY <1>1, <1>4, <1>10, <2>1 DEF PubsInOrder
<1>11. ASSUME NEW i
       PROVE  i \in RelPlaces(c) <=> i \in RelPlaces(t) /\ t[i].id # id
  <2>1. ASSUME NEW j \in 1 .. n
        PROVE  c[j].state \in RelStates <=> t[j].state \in RelStates /\ t[j].id # id
    BY <1>3 DEF NoRecord, RelStates
  <2> QED
    BY <1>1, <1>4, <2>1 DEF RelPlaces
<1>12. \A i \in RelPlaces(c) : c[i] = t[i]
  BY <1>1, <1>3, <1>11 DEF RelPlaces
<1>13. ASSUME NEW recs \in Seq(Ids), RelsInOrder(t, recs), At(t, id).state \notin RelStates
       PROVE  RelsInOrder(c, recs)
  <2>1. PICK g : RelsAlong(t, recs, g)
    BY <1>13 DEF RelsInOrder
  <2>2. \A i \in RelPlaces(t) : t[i].id # id
    <3> SUFFICES ASSUME NEW i \in RelPlaces(t), t[i].id = id
                 PROVE  FALSE
      OBVIOUS
    <3>1. i \in 1 .. n /\ t[i].state \in RelStates
      BY <1>1 DEF RelPlaces
    <3>2. At(t, id) = t[i]
      BY <1>1, <3>1, AtPlace
    <3> QED
      BY <1>13, <3>1, <3>2
  <2>3. RelPlaces(c) = RelPlaces(t)
    BY <1>11, <2>2
  <2>4. \A k \in 1 .. Len(recs) : c[g[k]].id = recs[k]
    BY <1>12, <2>1, <2>3, Visited DEF RelsAlong
  <2>5. RelsAlong(c, recs, g)
    BY <2>1, <2>3, <2>4 DEF RelsAlong
  <2> QED
    BY <2>5 DEF RelsInOrder
<1>14. ASSUME NEW recs \in Seq(Ids), RelsInOrder(t, recs)
       PROVE  RelsInOrder(c, Others(recs, id))
  <2>1. PICK g : RelsAlong(t, recs, g)
    BY <1>14 DEF RelsInOrder
  <2> DEFINE K == {k \in DOMAIN recs : recs[k] # id}
             m == Cardinality(K)
             left == Picked(recs, K)
  <2>2. DOMAIN recs = 1 .. Len(recs) /\ Len(recs) \in Nat
    BY LenProperties
  <2>3. \A k \in K : k \in DOMAIN recs /\ recs[k] # id
    OBVIOUS
  <2>3a. \A k \in DOMAIN recs : recs[k] # id => k \in K
    OBVIOUS
  <2> HIDE DEF K
  <2>4. PICK e : Enumerates(e, m, K) /\ Len(left) = m /\ Composed(recs, e, left, m)
    BY <2>3, PickedSeq
  <2> DEFINE h == [k \in 1 .. m |-> g[e[k]]]
             G == {g[k] : k \in K}
  <2>5. Enumerates(g, Len(recs), RelPlaces(t)) /\ \A k \in K : k \in 1 .. Len(recs)
    BY <2>1, <2>2, <2>3 DEF RelsAlong
  <2>6. Enumerates(h, m, G)
    BY <2>4, <2>5, SomeAlong
  <2>7. RelPlaces(c) = G
    <3>1. ASSUME NEW i \in RelPlaces(c)
          PROVE  i \in G
      <4>1. i \in RelPlaces(t) /\ t[i].id # id
        BY <1>11
      <4>2. PICK k \in 1 .. Len(recs) : g[k] = i
        BY <2>5, <4>1 DEF Enumerates
      <4>3. recs[k] # id
        BY <2>1, <4>1, <4>2 DEF RelsAlong
      <4> QED
        BY <2>2, <2>3a, <4>2, <4>3
    <3>2. ASSUME NEW k \in K
          PROVE  g[k] \in RelPlaces(c)
      <4>1. k \in 1 .. Len(recs) /\ recs[k] # id
        BY <2>3, <2>5
      <4>2. g[k] \in RelPlaces(t)
        BY <2>5, <4>1, Visited
      <4>3. t[g[k]].id = recs[k]
        BY <2>1, <4>1 DEF RelsAlong
      <4> QED
        BY <1>11, <4>1, <4>2, <4>3
    <3> QED
      BY <3>1, <3>2
  <2>8. ASSUME NEW k \in 1 .. m
        PROVE  c[h[k]].id = left[k]
    <3>1. e[k] \in K /\ e[k] \in 1 .. Len(recs)
      BY <2>4, <2>5, Visited
    <3>2. h[k] = g[e[k]] /\ h[k] \in RelPlaces(c)
      BY <2>7, <3>1
    <3>3. c[h[k]] = t[g[e[k]]]
      BY <1>12, <3>2
    <3>4. t[g[e[k]]].id = recs[e[k]]
      BY <2>1, <3>1 DEF RelsAlong
    <3>5. left[k] = recs[e[k]]
      BY <2>4 DEF Composed
    <3> QED
      BY <3>3, <3>4, <3>5
  <2> HIDE DEF h, left
  <2>9. RelsAlong(c, left, h)
    BY <2>4, <2>6, <2>7, <2>8 DEF RelsAlong
  <2> QED
    BY <2>9 DEF RelsInOrder, Others, left, K
<1>15. id \in IdsOf(t) => \E i \in 1 .. n : c[i].id = 0
  <2> SUFFICES ASSUME id \in IdsOf(t)
               PROVE  \E i \in 1 .. n : c[i].id = 0
    OBVIOUS
  <2>1. PICK i \in 1 .. n : t[i].id = id
    BY AtPlace
  <2> QED
    BY <1>3, <2>1 DEF NoRecord
<1> QED
  BY <1>5, <1>7, <1>8, <1>9, <1>10, <1>13, <1>14, <1>15 DEF Reduced

-----------------------------------------------------------------------------
(* The invariant                                                            *)

(* The two directions of an exchange: who publishes asks, the other answers. *)
Requests == {"PUBLISH", "PUBREL"}
Answers == {"PUBACK", "PUBREC", "PUBCOMP"}
Packets == {p \in [type : Requests \cup Answers, id : Ids, qos : {0, 1, 2}, msg : Nat] :
                p.type = "PUBLISH" => p.qos \in {1, 2}}
Messages == [qos : {0, 1, 2}, msg : Nat]
Flights == [id : Ids, qos : {1, 2}, msg : Nat, state : {"sent", "released"}]

Apps == [nextId : Ids, stage : {"run", "resend"}, cursor : Nat \ {0}, kept : [Ids -> Messages]]
Links == [up : BOOLEAN, toBroker : Seq(Packets), toClient : Seq(Packets)]
Brokers == [session : BOOLEAN, held : SUBSET Ids, flight : Seq(Flights)]
Allowances == [out : Nat, in : Nat]
Histories == [delivered : SUBSET Nat, got : SUBSET Nat, finished : SUBSET Nat, acked : SUBSET Nat,
              repeated : BOOLEAN, recs : Seq(Ids), sent : SUBSET Ids, mixed : BOOLEAN]

Typed ==
    /\ IsTable(outgoing, OutMax, OutStates) /\ IsTable(incoming, InMax, InStates)
    /\ app \in Apps /\ link \in Links /\ broker \in Brokers
    /\ budget \in Allowances /\ seen \in Histories

(* The connection is to a broker with a session, which begins with nothing. *)
Linked == /\ link.up => broker.session
          /\ ~broker.session => broker.held = {} /\ broker.flight = <<>>

(* The application keeps the messages that have a record, each message is   *)
(* one that was taken before, and a record is in a state of its quality.    *)
KeptRight(t, kept, out) ==
    /\ \A id \in Ids : id \in IdsOf(t) <=> kept[id] # NoMessage
    /\ \A id \in IdsOf(t) :
            /\ kept[id].qos = At(t, id).qos /\ kept[id].msg > out
            /\ At(t, id).state = "PubAckPending" => At(t, id).qos = 1
            /\ At(t, id).state \in {"PubRecPending"} \cup RelStates => At(t, id).qos = 2
    /\ \A i, j \in IdsOf(t) : kept[i].msg = kept[j].msg => i = j

Ordered == PubsInOrder(outgoing, app.kept) /\ RelsInOrder(outgoing, seen.recs)

Structure == Typed /\ Linked /\ KeptRight(outgoing, app.kept, budget.out) /\ Ordered

(* The packets of one direction that are on their way: asked holds its      *)
(* requests, answered the answers.                                          *)
In(q) == {q[k] : k \in DOMAIN q}
Part(q, types) == {p \in In(q) : p.type \in types}
Stream(asked, answered) == Part(asked, Requests) \cup Part(answered, Answers)
IdsIn(packets) == {p.id : p \in packets}
Once(q, types) ==
    \A j, k \in DOMAIN q :
        q[j].type \in types /\ q[k].type \in types /\ q[j].id = q[k].id => j = k

(* One packet of an exchange is on its way at a time.                       *)
Orderly(asked, answered) ==
    /\ Once(asked, Requests) /\ Once(answered, Answers)
    /\ \A p, q \in Stream(asked, answered) : p.id = q.id => p = q

(* What the broker has of the messages that the application waits for.      *)
OutAgreed(t, kept, out, held, delivered, session) ==
    /\ \A m \in delivered : m > out
    /\ \A id \in IdsOf(t) :
            /\ At(t, id).state \in RelStates => kept[id].msg \in delivered
            /\ At(t, id).state = "PublishSend" => kept[id].msg \notin delivered
            /\ session /\ At(t, id).state = "PubRecPending" /\ kept[id].msg \in delivered => id \in held
    /\ \A id \in held :
            /\ id \in IdsOf(t) /\ At(t, id).qos = 2 /\ At(t, id).state # "PublishSend"
            /\ kept[id].msg \in delivered

(* A packet of an outgoing exchange, to the broker or from it.              *)
OutRight(t, kept, held, delivered, p) ==
    /\ p.id \in IdsOf(t)
    /\ p.type = "PUBLISH" => /\ At(t, p.id).state = SentState(p.qos)
                             /\ p.qos = At(t, p.id).qos /\ p.msg = kept[p.id].msg
    /\ p.type = "PUBREL" => At(t, p.id).state = "PubCompPending"
    /\ p.type \in Answers => kept[p.id].msg \in delivered
    /\ p.type = "PUBACK" => At(t, p.id).state = "PubAckPending"
    /\ p.type = "PUBREC" => At(t, p.id).state = "PubRecPending" /\ p.id \in held
    /\ p.type = "PUBCOMP" => At(t, p.id).state = "PubCompPending" /\ p.id \notin held

OutPackets(t, kept, held, delivered, sent, packets) ==
    sent = IdsIn(packets) /\ \A p \in packets : OutRight(t, kept, held, delivered, p)

(* The messages that the broker keeps for the client.                       *)
Apart(flight) ==
    \A j, k \in DOMAIN flight :
        flight[j].id = flight[k].id \/ flight[j].msg = flight[k].msg => j = k

(* A record of an incoming message and the message at the broker.           *)
Fits(r, f, got) ==
    /\ f.id = r.id /\ f.qos = r.qos /\ f.msg \in got
    /\ r.state = "PubAckSend" => f.qos = 1
    /\ r.state # "PubAckSend" => f.qos = 2
    /\ r.state \in {"PubAckSend", "PubRecSend"} => f.state = "sent"
    /\ r.state = "PubCompSend" => f.state = "released"

InAgreed(t, flights, got, in, session) ==
    /\ \A m \in got : m > in
    /\ \A f \in flights :
            /\ f.msg > in
            /\ f.state = "released" => f.qos = 2 /\ f.msg \in got
            /\ f.state = "sent" /\ f.qos = 2 /\ f.msg \in got => f.id \in IdsOf(t)
    /\ \A f, g \in flights : f.id = g.id \/ f.msg = g.msg => f = g
    /\ session => \A id \in IdsOf(t) : \E f \in flights : Fits(At(t, id), f, got)

(* A packet of an incoming exchange and the message f that it is about.     *)
InRight(t, got, p, f) ==
    /\ f.id = p.id
    /\ p.type = "PUBLISH" => f.qos = p.qos /\ f.msg = p.msg /\ f.state = "sent"
    /\ p.type = "PUBREL" => f.state = "released"
    /\ p.type \in Answers => f.msg \in got
    /\ p.type = "PUBACK" => f.qos = 1 /\ p.id \notin IdsOf(t)
    /\ p.type = "PUBREC" => /\ f.qos = 2 /\ f.state = "sent"
                            /\ p.id \in IdsOf(t) /\ At(t, p.id).state = "PubRelPending"
    /\ p.type = "PUBCOMP" => f.state = "released" /\ p.id \notin IdsOf(t)

InPackets(t, flights, got, packets) ==
    /\ IdsOf(t) \subseteq IdsIn(packets)
    /\ \A p \in packets : \E f \in flights : InRight(t, got, p, f)

(* The resend loop has not sent what is still before it.                    *)
NotYetSent(t, cursor, sent) ==
    \A i \in DOMAIN t : i >= cursor /\ t[i].state \in PublishStates => t[i].id \notin sent

OutExchanges ==
    /\ OutAgreed(outgoing, app.kept, budget.out, broker.held, seen.delivered, broker.session)
    /\ link.up =>
        /\ Orderly(link.toBroker, link.toClient)
        /\ OutPackets(outgoing, app.kept, broker.held, seen.delivered, seen.sent,
                      Stream(link.toBroker, link.toClient))
        /\ app.stage = "resend" => NotYetSent(outgoing, app.cursor, seen.sent)

InExchanges ==
    /\ Apart(broker.flight)
    /\ InAgreed(incoming, In(broker.flight), seen.got, budget.in, broker.session)
    /\ link.up =>
        /\ Orderly(link.toClient, link.toBroker)
        /\ InPackets(incoming, In(broker.flight), seen.got, Stream(link.toClient, link.toBroker))

Promised ==
    /\ ~seen.repeated
    /\ seen.finished \subseteq seen.delivered
    /\ seen.acked \subseteq seen.got

ExchangeInv == Structure /\ (~seen.mixed => OutExchanges /\ InExchanges /\ Promised)

-----------------------------------------------------------------------------
(* Packets on their way                                                     *)

LEMMA PartAppend ==
    ASSUME NEW q \in Seq(Packets), NEW p \in Packets, NEW types
    PROVE  /\ In(Append(q, p)) = In(q) \cup {p}
           /\ Part(Append(q, p), types) = IF p.type \in types THEN Part(q, types) \cup {p}
                                                              ELSE Part(q, types)
           /\ Once(q, types) /\ (p.type \in types => \A x \in Part(q, types) : x.id # p.id)
                => Once(Append(q, p), types)
<1>1. /\ Len(Append(q, p)) = Len(q) + 1 /\ Len(q) \in Nat
      /\ \A k \in 1 .. Len(q) : Append(q, p)[k] = q[k]
      /\ Append(q, p)[Len(q) + 1] = p
      /\ DOMAIN q = 1 .. Len(q) /\ DOMAIN Append(q, p) = 1 .. Len(q) + 1
  BY AppendProperties, LenProperties
<1>2. In(Append(q, p)) = In(q) \cup {p}
  <2>1. 1 .. Len(q) + 1 = (1 .. Len(q)) \cup {Len(q) + 1}
    BY <1>1
  <2> QED
    BY <1>1, <2>1 DEF In
<1>3. Part(Append(q, p), types) = IF p.type \in types THEN Part(q, types) \cup {p}
                                                      ELSE Part(q, types)
  BY <1>2 DEF Part
<1>4. ASSUME Once(q, types), p.type \in types => \A x \in Part(q, types) : x.id # p.id
      PROVE  Once(Append(q, p), types)
  <2> SUFFICES ASSUME NEW j \in 1 .. Len(q) + 1, NEW k \in 1 .. Len(q) + 1,
                      Append(q, p)[j].type \in types, Append(q, p)[k].type \in types,
                      Append(q, p)[j].id = Append(q, p)[k].id
               PROVE  j = k
    BY <1>1 DEF Once
  <2>1. \A i \in 1 .. Len(q) : q[i].type \in types => q[i] \in Part(q, types)
    BY <1>1 DEF Part, In
  <2>2. CASE j = Len(q) + 1 /\ k # Len(q) + 1
    BY <1>1, <1>4, <2>1, <2>2
  <2>3. CASE j # Len(q) + 1 /\ k = Len(q) + 1
    BY <1>1, <1>4, <2>1, <2>3
  <2>4. CASE j # Len(q) + 1 /\ k # Len(q) + 1
    <3>1. j \in 1 .. Len(q) /\ k \in 1 .. Len(q)
      BY <1>1, <2>4
    <3> QED
      BY <1>1, <1>4, <3>1 DEF Once
  <2> QED
    BY <2>2, <2>3, <2>4
<1> QED
  BY <1>2, <1>3, <1>4

LEMMA PartTail ==
    ASSUME NEW q \in Seq(Packets), q # <<>>, NEW types
    PROVE  /\ Head(q) \in Packets /\ Tail(q) \in Seq(Packets) /\ Head(q) \in In(q)
           /\ Head(q).type \notin types => Part(Tail(q), types) = Part(q, types)
           /\ Head(q).type \in types => Head(q) \in Part(q, types)
           /\ Once(q, types) =>
                /\ Once(Tail(q), types)
                /\ Head(q).type \in types => Part(Tail(q), types) = Part(q, types) \ {Head(q)}
<1>1. /\ Len(q) \in Nat \ {0} /\ DOMAIN q = 1 .. Len(q) /\ Head(q) = q[1]
      /\ Tail(q) \in Seq(Packets) /\ Len(Tail(q)) = Len(q) - 1
      /\ \A k \in 1 .. Len(q) - 1 : Tail(q)[k] = q[k + 1]
      /\ DOMAIN Tail(q) = 1 .. Len(q) - 1
  <2>1. Len(q) \in Nat /\ Len(q) # 0 /\ DOMAIN q = 1 .. Len(q)
    BY EmptySeq, LenProperties
  <2>2. Head(q) = q[1] /\ Tail(q) \in Seq(Packets) /\ Len(Tail(q)) = Len(q) - 1
    BY HeadTailProperties
  <2>3. \A k \in 1 .. Len(q) - 1 : Tail(q)[k] = q[k + 1]
    BY <2>2, HeadTailProperties
  <2> QED
    BY <2>1, <2>2, <2>3, LenProperties
<1>2. q[1] \in Packets /\ q[1] \in In(q)
  BY <1>1 DEF In
<1>3. In(q) = In(Tail(q)) \cup {Head(q)}
  <2>1. ASSUME NEW k \in 1 .. Len(q)
        PROVE  q[k] = Head(q) \/ q[k] \in In(Tail(q))
    <3>1. CASE k = 1
      BY <1>1, <3>1
    <3>2. CASE k # 1
      <4>1. k - 1 \in 1 .. Len(q) - 1 /\ (k - 1) + 1 = k
        BY <1>1, <3>2
      <4>2. q[k] = Tail(q)[k - 1]
        BY <1>1, <4>1
      <4> QED
        BY <1>1, <4>1, <4>2 DEF In
    <3> QED
      BY <3>1, <3>2
  <2>2. ASSUME NEW k \in 1 .. Len(q) - 1
        PROVE  Tail(q)[k] \in In(q)
    <3>1. k + 1 \in 1 .. Len(q)
      BY <1>1
    <3> QED
      BY <1>1, <3>1 DEF In
  <2> QED
    BY <1>1, <1>2, <2>1, <2>2 DEF In
<1>4. ASSUME Once(q, types)
      PROVE  Once(Tail(q), types)
  <2> SUFFICES ASSUME NEW j \in 1 .. Len(q) - 1, NEW k \in 1 .. Len(q) - 1,
                      Tail(q)[j].type \in types, Tail(q)[k].type \in types,
                      Tail(q)[j].id = Tail(q)[k].id
               PROVE  j = k
    BY <1>1 DEF Once
  <2>1. j + 1 \in 1 .. Len(q) /\ k + 1 \in 1 .. Len(q)
    BY <1>1
  <2>2. j + 1 = k + 1
    BY <1>1, <1>4, <2>1 DEF Once
  <2> QED
    BY <2>2
<1>5. ASSUME Once(q, types), Head(q).type \in types
      PROVE  Head(q) \notin In(Tail(q))
  <2> SUFFICES ASSUME NEW k \in 1 .. Len(q) - 1, Tail(q)[k] = Head(q)
               PROVE  FALSE
    BY <1>1 DEF In
  <2>1. k + 1 \in 1 .. Len(q) /\ 1 \in 1 .. Len(q) /\ k + 1 # 1
    BY <1>1
  <2>2. q[k + 1] = q[1]
    BY <1>1
  <2> QED
    BY <1>1, <1>5, <2>1, <2>2 DEF Once
<1> QED
  BY <1>1, <1>2, <1>3, <1>4, <1>5 DEF Part

(* A packet is sent.                                                        *)
LEMMA Sent ==
    ASSUME NEW a \in Seq(Packets), NEW b \in Seq(Packets), Orderly(a, b), NEW p \in Packets
    PROVE  /\ Append(a, p) \in Seq(Packets) /\ Append(b, p) \in Seq(Packets)
           /\ p.type \notin Requests => Orderly(Append(a, p), b) /\ Stream(Append(a, p), b) = Stream(a, b)
           /\ p.type \notin Answers => Orderly(a, Append(b, p)) /\ Stream(a, Append(b, p)) = Stream(a, b)
           /\ (\A x \in Stream(a, b) : x.id # p.id) =>
                /\ p.type \in Requests => /\ Orderly(Append(a, p), b)
                                          /\ Stream(Append(a, p), b) = Stream(a, b) \cup {p}
                /\ p.type \in Answers => /\ Orderly(a, Append(b, p))
                                         /\ Stream(a, Append(b, p)) = Stream(a, b) \cup {p}
<1>1. Append(a, p) \in Seq(Packets) /\ Append(b, p) \in Seq(Packets)
  OBVIOUS
<1>2. /\ Part(Append(a, p), Requests) = IF p.type \in Requests THEN Part(a, Requests) \cup {p}
                                                               ELSE Part(a, Requests)
      /\ Once(a, Requests) /\ (p.type \in Requests => \A x \in Part(a, Requests) : x.id # p.id)
             => Once(Append(a, p), Requests)
  BY PartAppend
<1>3. /\ Part(Append(b, p), Answers) = IF p.type \in Answers THEN Part(b, Answers) \cup {p}
                                                             ELSE Part(b, Answers)
      /\ Once(b, Answers) /\ (p.type \in Answers => \A x \in Part(b, Answers) : x.id # p.id)
             => Once(Append(b, p), Answers)
  BY PartAppend
<1> QED
  BY <1>1, <1>2, <1>3 DEF Orderly, Stream

(* A packet arrives.                                                        *)
LEMMA Arrived ==
    ASSUME NEW a \in Seq(Packets), NEW b \in Seq(Packets), Orderly(a, b)
    PROVE  /\ a # <<>> =>
                /\ Head(a) \in Packets /\ Tail(a) \in Seq(Packets)
                /\ Orderly(Tail(a), b)
                /\ Head(a).type \notin Requests => Stream(Tail(a), b) = Stream(a, b)
                /\ Head(a).type \in Requests =>
                        /\ Head(a) \in Stream(a, b)
                        /\ Stream(Tail(a), b) = Stream(a, b) \ {Head(a)}
           /\ b # <<>> =>
                /\ Head(b) \in Packets /\ Tail(b) \in Seq(Packets)
                /\ Orderly(a, Tail(b))
                /\ Head(b).type \notin Answers => Stream(a, Tail(b)) = Stream(a, b)
                /\ Head(b).type \in Answers =>
                        /\ Head(b) \in Stream(a, b)
                        /\ Stream(a, Tail(b)) = Stream(a, b) \ {Head(b)}
<1>1. Once(a, Requests) /\ Once(b, Answers) /\ Requests \cap Answers = {}
  BY DEF Orderly, Requests, Answers
<1>2. /\ \A p \in Part(a, Requests) : p.type \in Requests
      /\ \A p \in Part(b, Answers) : p.type \in Answers
  BY DEF Part
<1>3. ASSUME a # <<>>
      PROVE  /\ Head(a) \in Packets /\ Tail(a) \in Seq(Packets)
             /\ Orderly(Tail(a), b)
             /\ Head(a).type \notin Requests => Stream(Tail(a), b) = Stream(a, b)
             /\ Head(a).type \in Requests =>
                     /\ Head(a) \in Stream(a, b)
                     /\ Stream(Tail(a), b) = Stream(a, b) \ {Head(a)}
  <2>1. /\ Head(a) \in Packets /\ Tail(a) \in Seq(Packets) /\ Once(Tail(a), Requests)
        /\ Head(a).type \notin Requests => Part(Tail(a), Requests) = Part(a, Requests)
        /\ Head(a).type \in Requests => /\ Part(Tail(a), Requests) = Part(a, Requests) \ {Head(a)}
                                        /\ Head(a) \in Part(a, Requests)
    BY <1>1, <1>3, PartTail
  <2> QED
    BY <1>1, <1>2, <2>1 DEF Orderly, Stream
<1>4. ASSUME b # <<>>
      PROVE  /\ Head(b) \in Packets /\ Tail(b) \in Seq(Packets)
             /\ Orderly(a, Tail(b))
             /\ Head(b).type \notin Answers => Stream(a, Tail(b)) = Stream(a, b)
             /\ Head(b).type \in Answers =>
                     /\ Head(b) \in Stream(a, b)
                     /\ Stream(a, Tail(b)) = Stream(a, b) \ {Head(b)}
  <2>1. /\ Head(b) \in Packets /\ Tail(b) \in Seq(Packets) /\ Once(Tail(b), Answers)
        /\ Head(b).type \notin Answers => Part(Tail(b), Answers) = Part(b, Answers)
        /\ Head(b).type \in Answers => /\ Part(Tail(b), Answers) = Part(b, Answers) \ {Head(b)}
                                       /\ Head(b) \in Part(b, Answers)
    BY <1>1, <1>4, PartTail
  <2> QED
    BY <1>1, <1>2, <2>1 DEF Orderly, Stream
<1> QED
  BY <1>3, <1>4

-----------------------------------------------------------------------------
(* The messages at the broker                                               *)

LEMMA FlightAdded ==
    ASSUME NEW s \in Seq(Flights), Apart(s), NEW m \in Flights,
           \A f \in In(s) : f.id # m.id /\ f.msg # m.msg
    PROVE  Append(s, m) \in Seq(Flights) /\ In(Append(s, m)) = In(s) \cup {m} /\ Apart(Append(s, m))
<1>1. /\ Len(Append(s, m)) = Len(s) + 1 /\ Len(s) \in Nat
      /\ \A k \in 1 .. Len(s) : Append(s, m)[k] = s[k]
      /\ Append(s, m)[Len(s) + 1] = m
      /\ DOMAIN s = 1 .. Len(s) /\ DOMAIN Append(s, m) = 1 .. Len(s) + 1
  BY AppendProperties, LenProperties
<1>2. 1 .. Len(s) + 1 = (1 .. Len(s)) \cup {Len(s) + 1}
  BY <1>1
<1>3. In(Append(s, m)) = In(s) \cup {m}
  BY <1>1, <1>2 DEF In
<1>4. \A k \in 1 .. Len(s) : s[k] \in In(s)
  BY <1>1 DEF In
<1>5. Apart(Append(s, m))
  <2> SUFFICES ASSUME NEW j \in (1 .. Len(s)) \cup {Len(s) + 1}, NEW k \in (1 .. Len(s)) \cup {Len(s) + 1},
                      \/ Append(s, m)[j].id = Append(s, m)[k].id
                      \/ Append(s, m)[j].msg = Append(s, m)[k].msg
               PROVE  j = k
    BY <1>1, <1>2 DEF Apart
  <2>1. CASE j \in 1 .. Len(s) /\ k \in 1 .. Len(s)
    BY <1>1, <2>1 DEF Apart
  <2>2. CASE j = Len(s) + 1 \/ k = Len(s) + 1
    BY <1>1, <1>4, <2>2
  <2> QED
    BY <2>1, <2>2
<1> QED
  BY <1>3, <1>5

Release(f, id) == IF f.id = id THEN [f EXCEPT !.state = "released"] ELSE f
ReleaseAll(flights, id) == {Release(f, id) : f \in flights}
ReleaseIn(s, id) == [k \in DOMAIN s |-> Release(s[k], id)]
LEMMA FlightReleased ==
    ASSUME NEW s \in Seq(Flights), NEW id, NEW r, r = ReleaseIn(s, id)
    PROVE  r \in Seq(Flights) /\ In(r) = ReleaseAll(In(s), id) /\ (Apart(s) => Apart(r))
<1> r = [k \in DOMAIN s |-> Release(s[k], id)]
  BY DEF ReleaseIn
<1>1. \A k \in DOMAIN s : s[k] \in Flights
  OBVIOUS
<1>2. \A f \in Flights : Release(f, id) \in Flights /\ Release(f, id).id = f.id /\ Release(f, id).msg = f.msg
  BY DEF Release, Flights
<1>3. DOMAIN r = DOMAIN s /\ \A k \in DOMAIN s : r[k] = Release(s[k], id)
  OBVIOUS
<1>4. r \in Seq(Flights)
  <2>1. Len(s) \in Nat /\ DOMAIN s = 1 .. Len(s)
    BY LenProperties
  <2> QED
    BY <1>1, <1>2, <2>1
<1>5. In(r) = ReleaseAll(In(s), id)
  BY <1>3 DEF In, ReleaseAll
<1>6. Apart(s) => Apart(r)
  BY <1>1, <1>2, <1>3 DEF Apart
<1> QED
  BY <1>4, <1>5, <1>6

Besides(flights, id) == {f \in flights : f.id # id}
BesidesIn(s, id) == Picked(s, {k \in DOMAIN s : s[k].id # id})
LEMMA FlightOver ==
    ASSUME NEW s \in Seq(Flights), NEW id, NEW r, r = BesidesIn(s, id)
    PROVE  r \in Seq(Flights) /\ In(r) = Besides(In(s), id) /\ (Apart(s) => Apart(r))
<1> r = Picked(s, {k \in DOMAIN s : s[k].id # id})
  BY DEF BesidesIn
<1> DEFINE S == {k \in DOMAIN s : s[k].id # id}
           n == Cardinality(S)
<1>1. PICK e : /\ r \in Seq(Flights) /\ n \in Nat
               /\ Enumerates(e, n, S) /\ Len(r) = n /\ Composed(s, e, r, n)
  BY PickedSeq
<1> HIDE DEF n
<1>2. \A k \in 1 .. n : e[k] \in S /\ s[e[k]] = r[k]
  BY <1>1 DEF Enumerates, Composed
<1>3. \A i \in S : \E k \in 1 .. n : e[k] = i
  BY <1>1 DEF Enumerates
<1>4. \A j, k \in 1 .. n : e[j] = e[k] => j = k
  <2> SUFFICES ASSUME NEW j \in 1 .. n, NEW k \in 1 .. n, e[j] = e[k]
               PROVE  j = k
    OBVIOUS
  <2>1. /\ e[j] \in Nat /\ j \in Nat /\ k \in Nat
        /\ j < k => e[j] < e[k]
        /\ k < j => e[k] < e[j]
    BY <1>1, Visited
  <2> QED
    BY <2>1
<1>5. DOMAIN r = 1 .. n
  BY <1>1, LenProperties
<1>6. In(r) = Besides(In(s), id)
  <2>1. \A k \in 1 .. n : r[k] \in In(s) /\ r[k].id # id
    BY <1>2 DEF In
  <2>2. \A f \in In(s) : f.id # id => \E k \in 1 .. n : r[k] = f
    <3> SUFFICES ASSUME NEW i \in DOMAIN s, s[i].id # id
                 PROVE  \E k \in 1 .. n : r[k] = s[i]
      BY DEF In
    <3>1. PICK k \in 1 .. n : e[k] = i
      BY <1>3
    <3> QED
      BY <1>2, <3>1
  <2>3. In(r) = {r[k] : k \in 1 .. n}
    BY <1>5 DEF In
  <2>4. ASSUME NEW f
        PROVE  f \in In(r) <=> f \in In(s) /\ f.id # id
    BY <2>1, <2>2, <2>3
  <2> QED
    BY <2>4 DEF Besides
<1>7. ASSUME Apart(s)
      PROVE  Apart(r)
  <2> SUFFICES ASSUME NEW j \in 1 .. n, NEW k \in 1 .. n, r[j].id = r[k].id \/ r[j].msg = r[k].msg
               PROVE  j = k
    BY <1>5 DEF Apart
  <2>1. e[j] \in DOMAIN s /\ e[k] \in DOMAIN s /\ s[e[j]] = r[j] /\ s[e[k]] = r[k]
    BY <1>2
  <2>2. e[j] = e[k]
    BY <1>7, <2>1 DEF Apart
  <2> QED
    BY <1>4, <2>2
<1> QED
  BY <1>1, <1>6, <1>7

(* What the broker sends again.                                             *)
Repeated(f) == IF f.state = "sent" THEN PublishPacket(f.id, f) ELSE Packet("PUBREL", f.id)
RepeatAll(flights) == {Repeated(f) : f \in flights}
RepeatIn(s) == [k \in DOMAIN s |-> Repeated(s[k])]
LEMMA Repeating ==
    ASSUME NEW s \in Seq(Flights), NEW r, r = RepeatIn(s)
    PROVE  /\ r \in Seq(Packets) /\ (Apart(s) => Once(r, Requests))
           /\ Part(r, Requests) = RepeatAll(In(s)) /\ Part(r, Answers) = {}
<1> r = [k \in DOMAIN s |-> Repeated(s[k])]
  BY DEF RepeatIn
<1>1. \A k \in DOMAIN s : s[k] \in Flights
  OBVIOUS
<1>2. \A f \in Flights : /\ Repeated(f) \in Packets /\ Repeated(f).id = f.id
                         /\ Repeated(f).type \in Requests /\ Repeated(f).type \notin Answers
  BY MqttAssumption DEF Repeated, Flights, Packets, PublishPacket, Packet, Requests, Answers, Ids
<1>3. DOMAIN r = DOMAIN s /\ \A k \in DOMAIN s : r[k] = Repeated(s[k])
  OBVIOUS
<1>4. r \in Seq(Packets)
  <2>1. Len(s) \in Nat /\ DOMAIN s = 1 .. Len(s)
    BY LenProperties
  <2> QED
    BY <1>1, <1>2, <2>1
<1>5. In(r) = {Repeated(f) : f \in In(s)}
  BY <1>3 DEF In
<1>6. Apart(s) => Once(r, Requests)
  BY <1>1, <1>2, <1>3 DEF Once, Apart
<1>7. \A f \in In(s) : f \in Flights
  BY <1>1 DEF In
<1> QED
  BY <1>2, <1>4, <1>5, <1>6, <1>7 DEF Part, RepeatAll

-----------------------------------------------------------------------------
(* What a step does to the outgoing exchanges                               *)

(* c has for id the record r, and for the others what t has.                *)
Changed(t, c, id, r) ==
    IdsOf(c) = IdsOf(t) \cup {id} /\ At(c, id) = r /\ \A x : x # id => At(c, x) = At(t, x)
Restated(t, c, id, state) == Changed(t, c, id, [At(t, id) EXCEPT !.state = state])
Distinct(packets) == \A p, q \in packets : p.id = q.id => p = q

LEMMA IdsJoined ==
    ASSUME NEW packets, NEW p
    PROVE  IdsIn(packets \cup {p}) = IdsIn(packets) \cup {p.id}
BY DEF IdsIn

(* A new message is taken.                                                  *)
LEMMA PostedFacts ==
    ASSUME NEW t, NEW kept \in [Ids -> Messages], NEW out, out \in Nat, out > 0,
           NEW c, NEW id \in Ids, id \notin IdsOf(t), NEW qos \in {1, 2},
           KeptRight(t, kept, out), \A x \in IdsOf(t) : x \in Ids,
           Changed(t, c, id, Record(id, qos, "PublishSend")),
           NEW kk, kk = [kept EXCEPT ![id] = [qos |-> qos, msg |-> out]]
    PROVE  /\ kk \in [Ids -> Messages] /\ kk[id].qos = qos /\ kk[id].msg = out
           /\ \A x \in Ids : x # id => kk[x] = kept[x]
           /\ kk[id] # NoMessage
           /\ IdsOf(c) = IdsOf(t) \cup {id} /\ \A x \in IdsOf(t) : At(c, x) = At(t, x) /\ x # id /\ kk[x] = kept[x]
           /\ At(c, id).state = "PublishSend" /\ At(c, id).qos = qos
           /\ \A x \in IdsOf(t) : kept[x].msg > out /\ kept[x].msg > out - 1 /\ kept[x].msg # out
<1>1. /\ kk \in [Ids -> Messages] /\ kk[id].qos = qos /\ kk[id].msg = out
      /\ \A x \in Ids : x # id => kk[x] = kept[x]
      /\ kk[id] # NoMessage
  BY DEF Messages, NoMessage
<1>2. /\ IdsOf(c) = IdsOf(t) \cup {id} /\ \A x \in IdsOf(t) : At(c, x) = At(t, x) /\ x # id /\ kk[x] = kept[x]
      /\ At(c, id).state = "PublishSend" /\ At(c, id).qos = qos
  BY <1>1 DEF Changed, Restated, Record
<1>3. \A x \in IdsOf(t) : kept[x].msg > out /\ kept[x].msg > out - 1 /\ kept[x].msg # out
  <2>1. \A x \in IdsOf(t) : kept[x].msg \in Nat /\ kept[x].msg > out
    BY DEF KeptRight, Messages
  <2> QED
    BY <2>1
<1> QED
  BY <1>1, <1>2, <1>3

LEMMA OutPosted ==
    ASSUME NEW t, NEW kept \in [Ids -> Messages], NEW out, out \in Nat, out > 0,
           NEW c, NEW id \in Ids, id \notin IdsOf(t), NEW qos \in {1, 2},
           KeptRight(t, kept, out), \A x \in IdsOf(t) : x \in Ids,
           Changed(t, c, id, Record(id, qos, "PublishSend")),
           NEW kk, kk = [kept EXCEPT ![id] = [qos |-> qos, msg |-> out]]
    PROVE  /\ KeptRight(c, kk, out - 1)
           /\ \A x \in IdsOf(t) : kk[x] = kept[x] /\ kk[x].msg > kk[id].msg
<1>1. /\ kk \in [Ids -> Messages] /\ kk[id].qos = qos /\ kk[id].msg = out
      /\ \A x \in Ids : x # id => kk[x] = kept[x]
      /\ kk[id] # NoMessage
  BY PostedFacts
<1>2. /\ IdsOf(c) = IdsOf(t) \cup {id} /\ \A x \in IdsOf(t) : At(c, x) = At(t, x) /\ x # id /\ kk[x] = kept[x]
      /\ At(c, id).state = "PublishSend" /\ At(c, id).qos = qos
  BY PostedFacts
<1>3. \A x \in IdsOf(t) : kept[x].msg > out /\ kept[x].msg > out - 1 /\ kept[x].msg # out
  BY PostedFacts
<1>4. KeptRight(c, kk, out - 1)
  <2>1. \A x \in Ids : x \in IdsOf(c) <=> kk[x] # NoMessage
    BY <1>1, <1>2 DEF KeptRight
  <2>2. ASSUME NEW x \in IdsOf(c)
        PROVE  /\ kk[x].qos = At(c, x).qos /\ kk[x].msg > out - 1
               /\ At(c, x).state = "PubAckPending" => At(c, x).qos = 1
               /\ At(c, x).state \in {"PubRecPending"} \cup RelStates => At(c, x).qos = 2
    <3>1. CASE x = id
      BY <1>1, <1>2, <3>1 DEF RelStates
    <3>2. CASE x \in IdsOf(t)
      BY <1>2, <1>3, <3>2 DEF KeptRight
    <3> QED
      BY <1>2, <3>1, <3>2
  <2>3. \A i, j \in IdsOf(c) : kk[i].msg = kk[j].msg => i = j
    BY <1>1, <1>2, <1>3 DEF KeptRight
  <2> QED
    BY <2>1, <2>2, <2>3 DEF KeptRight
<1> QED
  BY <1>1, <1>2, <1>3, <1>4

LEMMA OutPostedAgreed ==
    ASSUME NEW t, NEW kept \in [Ids -> Messages], NEW out, out \in Nat, out > 0,
           NEW c, NEW id \in Ids, id \notin IdsOf(t), NEW qos \in {1, 2},
           KeptRight(t, kept, out), \A x \in IdsOf(t) : x \in Ids,
           Changed(t, c, id, Record(id, qos, "PublishSend")),
           NEW kk, kk = [kept EXCEPT ![id] = [qos |-> qos, msg |-> out]],
           NEW held, NEW delivered, NEW session,
           OutAgreed(t, kept, out, held, delivered, session), delivered \subseteq Nat
    PROVE  OutAgreed(c, kk, out - 1, held, delivered, session)
<1>1. /\ kk \in [Ids -> Messages] /\ kk[id].qos = qos /\ kk[id].msg = out
      /\ \A x \in Ids : x # id => kk[x] = kept[x]
      /\ kk[id] # NoMessage
  BY PostedFacts
<1>2. /\ IdsOf(c) = IdsOf(t) \cup {id} /\ \A x \in IdsOf(t) : At(c, x) = At(t, x) /\ x # id /\ kk[x] = kept[x]
      /\ At(c, id).state = "PublishSend" /\ At(c, id).qos = qos
  BY PostedFacts
<1>3. \A x \in IdsOf(t) : kept[x].msg > out /\ kept[x].msg > out - 1 /\ kept[x].msg # out
  BY PostedFacts
<1>4. \A m \in delivered : m > out - 1 /\ m # out
  <2>1. \A m \in delivered : m \in Nat /\ m > out
    BY DEF OutAgreed
  <2> QED
    BY <2>1
<1>5. \A x \in held : x \in IdsOf(t)
  BY DEF OutAgreed
<1>6. ASSUME NEW x \in IdsOf(c)
      PROVE  /\ At(c, x).state \in RelStates => kk[x].msg \in delivered
             /\ At(c, x).state = "PublishSend" => kk[x].msg \notin delivered
             /\ session /\ At(c, x).state = "PubRecPending" /\ kk[x].msg \in delivered => x \in held
  <2>1. CASE x = id
    BY <1>1, <1>2, <1>4, <2>1 DEF RelStates
  <2>2. CASE x \in IdsOf(t)
    BY <1>2, <2>2 DEF OutAgreed
  <2> QED
    BY <1>2, <2>1, <2>2
<1>7. \A x \in held : /\ x \in IdsOf(c) /\ At(c, x).qos = 2 /\ At(c, x).state # "PublishSend"
                      /\ kk[x].msg \in delivered
  BY <1>2, <1>5 DEF OutAgreed
<1> QED
  BY <1>4, <1>6, <1>7 DEF OutAgreed

LEMMA OutPostedPackets ==
    ASSUME NEW t, NEW kept \in [Ids -> Messages], NEW out, out \in Nat, out > 0,
           NEW c, NEW id \in Ids, id \notin IdsOf(t), NEW qos \in {1, 2},
           KeptRight(t, kept, out), \A x \in IdsOf(t) : x \in Ids,
           Changed(t, c, id, Record(id, qos, "PublishSend")),
           NEW kk, kk = [kept EXCEPT ![id] = [qos |-> qos, msg |-> out]],
           NEW held, NEW delivered, NEW sent, NEW packets,
           OutPackets(t, kept, held, delivered, sent, packets)
    PROVE  OutPackets(c, kk, held, delivered, sent, packets)
<1>1. IdsOf(c) = IdsOf(t) \cup {id} /\ \A x \in IdsOf(t) : At(c, x) = At(t, x) /\ x # id /\ kk[x] = kept[x]
  BY PostedFacts
<1> QED
  BY <1>1 DEF OutPackets, OutRight

(* A message is sent, for the first time or again.                          *)
LEMMA OutSent ==
    ASSUME NEW t, NEW kept \in [Ids -> Messages], NEW out,
           NEW c, NEW id \in IdsOf(t), NEW m, KeptRight(t, kept, out), m = kept[id],
           At(t, id) \in Entry(OutStates), At(t, id).state \in PublishStates, At(t, id).qos \in {1, 2},
           Restated(t, c, id, SentState(m.qos))
    PROVE  KeptRight(c, kept, out)
<1>1. IdsOf(c) = IdsOf(t) /\ \A x \in IdsOf(t) : x # id => At(c, x) = At(t, x)
  BY DEF Changed, Restated
<1>2. /\ At(c, id).state = SentState(m.qos) /\ At(c, id).qos = At(t, id).qos /\ m.qos = At(t, id).qos
      /\ SentState(m.qos) = IF m.qos = 1 THEN "PubAckPending" ELSE "PubRecPending"
  BY DEF Changed, Restated, SentState, KeptRight, Entry
<1> QED
  BY <1>1, <1>2 DEF KeptRight, RelStates

LEMMA OutSentAgreed ==
    ASSUME NEW t, NEW kept \in [Ids -> Messages], NEW out,
           NEW c, NEW id \in IdsOf(t), NEW m, KeptRight(t, kept, out), m = kept[id],
           At(t, id) \in Entry(OutStates), At(t, id).state \in PublishStates, At(t, id).qos \in {1, 2},
           Restated(t, c, id, SentState(m.qos)),
           NEW held, NEW delivered, NEW session, OutAgreed(t, kept, out, held, delivered, session)
    PROVE  OutAgreed(c, kept, out, held, delivered, session)
<1>1. IdsOf(c) = IdsOf(t) /\ \A x \in IdsOf(t) : x # id => At(c, x) = At(t, x)
  BY DEF Changed, Restated
<1>2. /\ At(c, id).state = SentState(m.qos) /\ At(c, id).qos = At(t, id).qos /\ m.qos = At(t, id).qos
      /\ SentState(m.qos) = IF m.qos = 1 THEN "PubAckPending" ELSE "PubRecPending"
  BY DEF Changed, Restated, SentState, KeptRight, Entry
<1>3. At(t, id).state = "PubRecPending" \/ At(t, id).state = "PublishSend" \/ m.qos = 1
  BY <1>2 DEF PublishStates, KeptRight
<1>4. session /\ At(c, id).state = "PubRecPending" /\ kept[id].msg \in delivered => id \in held
  BY <1>2, <1>3 DEF OutAgreed
<1>5. At(c, id).state \notin RelStates /\ At(c, id).state # "PublishSend"
  BY <1>2 DEF RelStates
<1> QED
  BY <1>1, <1>2, <1>4, <1>5 DEF OutAgreed

LEMMA OutSentPackets ==
    ASSUME NEW t, NEW kept \in [Ids -> Messages], NEW out,
           NEW c, NEW id \in IdsOf(t), NEW m, KeptRight(t, kept, out), m = kept[id],
           At(t, id) \in Entry(OutStates), At(t, id).state \in PublishStates, At(t, id).qos \in {1, 2},
           Restated(t, c, id, SentState(m.qos)),
           NEW held, NEW delivered, NEW sent, NEW packets,
           OutPackets(t, kept, held, delivered, sent, packets), id \notin sent
    PROVE  /\ OutPackets(c, kept, held, delivered, sent \cup {id}, packets \cup {PublishPacket(id, m)})
           /\ \A p \in packets : p.id # id
<1>1. IdsOf(c) = IdsOf(t) /\ \A x \in IdsOf(t) : x # id => At(c, x) = At(t, x)
  BY DEF Changed, Restated
<1>2. /\ At(c, id).state = SentState(m.qos) /\ At(c, id).qos = At(t, id).qos /\ m.qos = At(t, id).qos
      /\ SentState(m.qos) = IF m.qos = 1 THEN "PubAckPending" ELSE "PubRecPending"
  BY DEF Changed, Restated, SentState, KeptRight, Entry
<1>3. \A p \in packets : p.id # id /\ p.id \in IdsOf(t)
  BY DEF OutPackets, OutRight, IdsIn
<1>4. \A p \in packets : OutRight(c, kept, held, delivered, p)
  BY <1>1, <1>3 DEF OutPackets, OutRight
<1>5. OutRight(c, kept, held, delivered, PublishPacket(id, m))
  BY <1>1, <1>2 DEF OutRight, PublishPacket, Answers
<1>6. IdsIn(packets \cup {PublishPacket(id, m)}) = sent \cup {id}
  <2>1. PublishPacket(id, m).id = id /\ sent = IdsIn(packets)
    BY DEF PublishPacket, OutPackets
  <2> QED
    BY <2>1, IdsJoined
<1> QED
  BY <1>3, <1>4, <1>5, <1>6 DEF OutPackets

(* An exchange is over.                                                     *)
Finishing(t, kept, out, c, id, kk) ==
    /\ kept \in [Ids -> Messages] /\ id \in IdsOf(t) /\ KeptRight(t, kept, out)
    /\ \A x \in IdsOf(t) : x \in Ids
    /\ IdsOf(c) = IdsOf(t) \ {id} /\ \A x : x # id => At(c, x) = At(t, x)
    /\ kk = [kept EXCEPT ![id] = NoMessage]

LEMMA OutDone ==
    ASSUME NEW t, NEW kept, NEW out, NEW c, NEW id, NEW kk, Finishing(t, kept, out, c, id, kk)
    PROVE  /\ KeptRight(c, kk, out) /\ kk \in [Ids -> Messages]
           /\ \A x \in IdsOf(c) : /\ x # id /\ x \in IdsOf(t) /\ x \in Ids
                                  /\ kk[x] = kept[x] /\ At(c, x) = At(t, x)
<1> USE DEF Finishing
<1>1. NoMessage \in Messages
  BY DEF NoMessage, Messages
<1>2. /\ \A x \in Ids : x # id => kk[x] = kept[x]
      /\ kk[id] = NoMessage /\ kk \in [Ids -> Messages]
  BY <1>1
<1>3. \A x \in IdsOf(c) : x # id /\ x \in IdsOf(t) /\ x \in Ids /\ kk[x] = kept[x] /\ At(c, x) = At(t, x)
  BY <1>2
<1>4. KeptRight(c, kk, out)
  BY <1>2, <1>3 DEF KeptRight
<1> QED
  BY <1>2, <1>3, <1>4

LEMMA OutDoneAgreed ==
    ASSUME NEW t, NEW kept, NEW out, NEW c, NEW id, NEW kk, Finishing(t, kept, out, c, id, kk),
           NEW held, NEW delivered, NEW session,
           OutAgreed(t, kept, out, held, delivered, session), id \notin held
    PROVE  OutAgreed(c, kk, out, held, delivered, session)
<1>1. \A x \in IdsOf(c) : x # id /\ x \in IdsOf(t) /\ x \in Ids /\ kk[x] = kept[x] /\ At(c, x) = At(t, x)
  BY OutDone
<1>2. IdsOf(c) = IdsOf(t) \ {id}
  BY DEF Finishing
<1> QED
  BY <1>1, <1>2 DEF OutAgreed

LEMMA OutDonePackets ==
    ASSUME NEW t, NEW kept, NEW out, NEW c, NEW id, NEW kk, Finishing(t, kept, out, c, id, kk),
           NEW held, NEW delivered, NEW sent, NEW packets,
           OutPackets(t, kept, held, delivered, sent, packets), Distinct(packets),
           NEW p, p \in packets, p.id = id
    PROVE  OutPackets(c, kk, held, delivered, sent \ {id}, packets \ {p})
<1>1. \A x \in IdsOf(c) : x # id /\ x \in IdsOf(t) /\ x \in Ids /\ kk[x] = kept[x] /\ At(c, x) = At(t, x)
  BY OutDone
<1>2. IdsOf(c) = IdsOf(t) \ {id}
  BY DEF Finishing
<1>3. \A q \in packets \ {p} : q.id # id /\ q.id \in IdsOf(c)
  BY <1>2 DEF OutPackets, OutRight, Distinct
<1>4. \A q \in packets \ {p} : OutRight(c, kk, held, delivered, q)
  BY <1>1, <1>3 DEF OutPackets, OutRight
<1>5. IdsIn(packets \ {p}) = sent \ {id}
  BY <1>3 DEF OutPackets, IdsIn
<1> QED
  BY <1>4, <1>5 DEF OutPackets

(* A PUBREC moves a message to the PUBRELs.                                 *)
ToPubrels(t, kept, out, c, id, state) ==
    /\ kept \in [Ids -> Messages] /\ id \in IdsOf(t) /\ KeptRight(t, kept, out)
    /\ At(t, id).qos = 2 /\ state \in RelStates
    /\ Changed(t, c, id, Record(id, 2, state))

LEMMA OutPubrec ==
    ASSUME NEW t, NEW kept, NEW out, NEW c, NEW id, NEW state, ToPubrels(t, kept, out, c, id, state)
    PROVE  /\ KeptRight(c, kept, out)
           /\ IdsOf(c) = IdsOf(t) /\ \A x \in IdsOf(t) : x # id => At(c, x) = At(t, x)
           /\ At(c, id).qos = 2 /\ At(c, id).state = state
<1> USE DEF ToPubrels
<1>1. /\ IdsOf(c) = IdsOf(t) /\ \A x \in IdsOf(t) : x # id => At(c, x) = At(t, x)
      /\ At(c, id).qos = 2 /\ At(c, id).state = state /\ state \in {"PubRelSend", "PubCompPending"}
  BY DEF Changed, Restated, Record, RelStates
<1>2. KeptRight(c, kept, out)
  BY <1>1 DEF KeptRight
<1> QED
  BY <1>1, <1>2

LEMMA OutPubrecAgreed ==
    ASSUME NEW t, NEW kept, NEW out, NEW c, NEW id, NEW state, ToPubrels(t, kept, out, c, id, state),
           NEW held, NEW delivered, NEW session,
           OutAgreed(t, kept, out, held, delivered, session), kept[id].msg \in delivered
    PROVE  OutAgreed(c, kept, out, held, delivered, session)
<1>1. /\ IdsOf(c) = IdsOf(t) /\ \A x \in IdsOf(t) : x # id => At(c, x) = At(t, x)
      /\ At(c, id).qos = 2 /\ At(c, id).state = state
  BY OutPubrec
<1>2. state \in {"PubRelSend", "PubCompPending"} /\ id \in IdsOf(t)
  BY DEF ToPubrels, RelStates
<1> QED
  BY <1>1, <1>2 DEF OutAgreed

LEMMA OutPubrecPackets ==
    ASSUME NEW t, NEW kept, NEW out, NEW c, NEW id, ToPubrels(t, kept, out, c, id, "PubCompPending"),
           NEW held, NEW delivered, NEW sent, NEW packets,
           OutPackets(t, kept, held, delivered, sent, packets), Distinct(packets),
           NEW p, p \in packets, p.id = id, NEW q, q = Packet("PUBREL", id)
    PROVE  OutPackets(c, kept, held, delivered, sent, (packets \ {p}) \cup {q})
<1>1. /\ IdsOf(c) = IdsOf(t) /\ \A x \in IdsOf(t) : x # id => At(c, x) = At(t, x)
      /\ At(c, id).qos = 2 /\ At(c, id).state = "PubCompPending"
  BY OutPubrec
<1>2. id \in IdsOf(t)
  BY DEF ToPubrels
<1>3. \A x \in packets \ {p} : x.id # id /\ x.id \in IdsOf(c)
  BY <1>1 DEF OutPackets, OutRight, Distinct
<1>4. \A x \in packets \ {p} : OutRight(c, kept, held, delivered, x)
  BY <1>1, <1>3 DEF OutPackets, OutRight
<1>5. OutRight(c, kept, held, delivered, q)
  BY <1>1, <1>2 DEF OutRight, Packet, Answers
<1>6. IdsIn((packets \ {p}) \cup {q}) = sent
  <2>1. IdsIn(packets \ {p}) \cup {id} = sent
    BY <1>3 DEF OutPackets, IdsIn
  <2>2. q.id = id
    BY DEF Packet
  <2> QED
    BY <2>1, <2>2, IdsJoined
<1> QED
  BY <1>4, <1>5, <1>6 DEF OutPackets

(* A packet takes the place of another of its exchange.                     *)
LEMMA Replaced ==
    ASSUME NEW packets, Distinct(packets), NEW p \in packets, NEW q, q.id = p.id
    PROVE  /\ IdsIn((packets \ {p}) \cup {q}) = IdsIn(packets)
           /\ \A x \in packets \ {p} : x.id # q.id
<1>1. \A x \in packets \ {p} : x.id # q.id
  BY DEF Distinct
<1>2. IdsIn(packets \ {p}) \cup {q.id} = IdsIn(packets)
  BY DEF IdsIn
<1> QED
  BY <1>1, <1>2, IdsJoined

(* The broker takes a message.                                              *)
Storing(t, kept, out, held, delivered, sent, packets, p, q, hh, dd) ==
    /\ kept \in [Ids -> Messages] /\ p \in packets /\ KeptRight(t, kept, out)
    /\ OutAgreed(t, kept, out, held, delivered, TRUE)
    /\ OutPackets(t, kept, held, delivered, sent, packets) /\ Distinct(packets)
    /\ p.type = "PUBLISH" /\ p.qos \in {1, 2}
    /\ q = Packet(IF p.qos = 1 THEN "PUBACK" ELSE "PUBREC", p.id)
    /\ hh = IF p.qos = 2 THEN held \cup {p.id} ELSE held
    /\ dd = IF p.qos = 2 /\ p.id \in held THEN delivered ELSE delivered \cup {p.msg}

LEMMA OutStored ==
    ASSUME NEW t, NEW kept, NEW out, NEW held, NEW delivered, NEW sent, NEW packets, NEW p,
           NEW q, NEW hh, NEW dd,
           Storing(t, kept, out, held, delivered, sent, packets, p, q, hh, dd)
    PROVE  /\ OutAgreed(t, kept, out, hh, dd, TRUE)
           /\ OutPackets(t, kept, hh, dd, sent, (packets \ {p}) \cup {q})
           /\ \A x \in packets \ {p} : x.id # p.id
           /\ ~(p.qos = 2 /\ p.id \notin held /\ p.msg \in delivered)
<1> USE DEF Storing
<1>1. /\ p.id \in IdsOf(t) /\ At(t, p.id).state = SentState(p.qos)
      /\ p.qos = At(t, p.id).qos /\ p.msg = kept[p.id].msg
  BY DEF OutPackets, OutRight
<1>2. SentState(p.qos) = IF p.qos = 1 THEN "PubAckPending" ELSE "PubRecPending"
  BY DEF SentState
<1>3. p.msg \in dd /\ p.msg > out
  <2>1. p.id \in held => p.msg \in delivered
    BY <1>1 DEF OutAgreed
  <2>2. p.msg > out
    BY <1>1 DEF KeptRight
  <2> QED
    BY <2>1, <2>2
<1>4. /\ \A m \in delivered : m \in dd
      /\ \A m \in dd : m \in delivered \/ m = p.msg
      /\ \A x \in held : x \in hh
      /\ \A x \in hh : x \in held \/ (x = p.id /\ p.qos = 2)
      /\ p.qos = 2 => p.id \in hh
  OBVIOUS
<1>5. \A x \in IdsOf(t) : x # p.id => kept[x].msg # p.msg
  BY <1>1 DEF KeptRight
<1>6. OutAgreed(t, kept, out, hh, dd, TRUE)
  <2>1. \A m \in dd : m > out
    BY <1>3, <1>4 DEF OutAgreed
  <2>2. ASSUME NEW x \in IdsOf(t)
        PROVE  /\ At(t, x).state \in RelStates => kept[x].msg \in dd
               /\ At(t, x).state = "PublishSend" => kept[x].msg \notin dd
               /\ At(t, x).state = "PubRecPending" /\ kept[x].msg \in dd => x \in hh
    <3>1. CASE x = p.id
      BY <1>1, <1>2, <1>4, <3>1 DEF RelStates
    <3>2. CASE x # p.id
      BY <1>4, <1>5, <3>2 DEF OutAgreed
    <3> QED
      BY <3>1, <3>2
  <2>3. \A x \in hh : /\ x \in IdsOf(t) /\ At(t, x).qos = 2 /\ At(t, x).state # "PublishSend"
                      /\ kept[x].msg \in dd
    BY <1>1, <1>2, <1>3, <1>4 DEF OutAgreed
  <2> QED
    BY <2>1, <2>2, <2>3 DEF OutAgreed
<1>7. \A x \in packets \ {p} : x.id # p.id
  BY DEF Distinct
<1>8. q.id = p.id /\ q.type = IF p.qos = 1 THEN "PUBACK" ELSE "PUBREC"
  BY DEF Packet
<1>9. OutPackets(t, kept, hh, dd, sent, (packets \ {p}) \cup {q})
  <2>1. \A x \in packets \ {p} : OutRight(t, kept, hh, dd, x)
    BY <1>4, <1>7 DEF OutPackets, OutRight
  <2>2. OutRight(t, kept, hh, dd, q)
    BY <1>1, <1>2, <1>3, <1>4, <1>8 DEF OutRight, Answers
  <2>3. IdsIn((packets \ {p}) \cup {q}) = sent
    BY <1>8, Replaced DEF OutPackets
  <2> QED
    BY <2>1, <2>2, <2>3 DEF OutPackets
<1>10. ~(p.qos = 2 /\ p.id \notin held /\ p.msg \in delivered)
  BY <1>1, <1>2 DEF OutAgreed
<1> QED
  BY <1>6, <1>7, <1>9, <1>10

(* The broker lets a message go.                                            *)
Releasing(t, kept, out, held, delivered, sent, packets, p, q, hh) ==
    /\ p \in packets /\ OutAgreed(t, kept, out, held, delivered, TRUE)
    /\ OutPackets(t, kept, held, delivered, sent, packets) /\ Distinct(packets)
    /\ p.type = "PUBREL" /\ q = Packet("PUBCOMP", p.id) /\ hh = held \ {p.id}

LEMMA OutReleased ==
    ASSUME NEW t, NEW kept, NEW out, NEW held, NEW delivered, NEW sent, NEW packets, NEW p,
           NEW q, NEW hh,
           Releasing(t, kept, out, held, delivered, sent, packets, p, q, hh)
    PROVE  /\ OutAgreed(t, kept, out, hh, delivered, TRUE)
           /\ OutPackets(t, kept, hh, delivered, sent, (packets \ {p}) \cup {q})
           /\ \A x \in packets \ {p} : x.id # p.id
<1> USE DEF Releasing
<1>1. p.id \in IdsOf(t) /\ At(t, p.id).state = "PubCompPending" /\ kept[p.id].msg \in delivered
  BY DEF OutPackets, OutRight, OutAgreed, RelStates
<1>2. OutAgreed(t, kept, out, hh, delivered, TRUE)
  BY <1>1 DEF OutAgreed
<1>3. \A x \in packets \ {p} : x.id # p.id
  BY DEF Distinct
<1>4. q.id = p.id /\ q.type = "PUBCOMP"
  BY DEF Packet
<1>5. \A x \in packets \ {p} : OutRight(t, kept, hh, delivered, x)
  BY <1>3 DEF OutPackets, OutRight
<1>6. OutRight(t, kept, hh, delivered, q)
  BY <1>1, <1>4 DEF OutRight, Answers
<1>7. IdsIn((packets \ {p}) \cup {q}) = sent
  BY <1>4, Replaced DEF OutPackets
<1> QED
  BY <1>2, <1>3, <1>5, <1>6, <1>7 DEF OutPackets

-----------------------------------------------------------------------------
(* What a step does to the incoming exchanges                               *)

(* Nothing depends on the places of the records.                            *)
LEMMA InSame ==
    ASSUME NEW t, NEW c, IdsOf(c) = IdsOf(t), \A id : At(c, id) = At(t, id),
           NEW flights, NEW got, NEW in, NEW session
    PROVE  /\ InAgreed(t, flights, got, in, session) => InAgreed(c, flights, got, in, session)
           /\ \A packets : InPackets(t, flights, got, packets) => InPackets(c, flights, got, packets)
BY DEF InAgreed, InPackets, InRight

(* A new message comes in.                                                  *)
Taking(t, flights, got, in, packets, p, c, gg) ==
    /\ p \in packets /\ InAgreed(t, flights, got, in, TRUE) /\ InPackets(t, flights, got, packets)
    /\ Distinct(packets) /\ p.type = "PUBLISH" /\ p.qos \in {1, 2} /\ p.id \notin IdsOf(t)
    /\ Changed(t, c, p.id, Record(p.id, p.qos, ReceivedState(p.qos))) /\ gg = got \cup {p.msg}

LEMMA InTaken ==
    ASSUME NEW t, NEW flights, NEW got, NEW in, NEW packets, NEW p, NEW c, NEW gg,
           Taking(t, flights, got, in, packets, p, c, gg)
    PROVE  /\ InAgreed(c, flights, gg, in, TRUE) /\ InPackets(c, flights, gg, packets)
           /\ ~(p.qos = 2 /\ p.msg \in got)
<1> USE DEF Taking
<1>1. PICK f \in flights : f.id = p.id /\ f.qos = p.qos /\ f.msg = p.msg /\ f.state = "sent"
  BY DEF InPackets, InRight
<1>2. /\ IdsOf(c) = IdsOf(t) \cup {p.id} /\ \A x : x # p.id => At(c, x) = At(t, x)
      /\ At(c, p.id).id = p.id /\ At(c, p.id).qos = p.qos
      /\ At(c, p.id).state = IF p.qos = 1 THEN "PubAckSend" ELSE "PubRecSend"
  BY DEF Changed, Restated, Record, ReceivedState
<1>3. ~(p.qos = 2 /\ p.msg \in got)
  BY <1>1 DEF InAgreed
<1>4. \A g \in flights : g.msg \in gg => g.msg \in got \/ g = f
  BY <1>1 DEF InAgreed
<1>5. InAgreed(c, flights, gg, in, TRUE)
  <2>1. \A m \in gg : m > in
    BY <1>1 DEF InAgreed
  <2>2. ASSUME NEW g \in flights
        PROVE  /\ g.msg > in
               /\ g.state = "released" => g.qos = 2 /\ g.msg \in gg
               /\ g.state = "sent" /\ g.qos = 2 /\ g.msg \in gg => g.id \in IdsOf(c)
    BY <1>1, <1>2, <1>4 DEF InAgreed
  <2>3. \A id \in IdsOf(t) : \E g \in flights : Fits(At(c, id), g, gg)
    BY <1>2 DEF InAgreed, Fits
  <2>4. Fits(At(c, p.id), f, gg)
    BY <1>1, <1>2 DEF Fits
  <2>5. \A id \in IdsOf(c) : \E g \in flights : Fits(At(c, id), g, gg)
    BY <1>2, <2>3, <2>4
  <2> QED
    BY <2>1, <2>2, <2>5 DEF InAgreed
<1>6. InPackets(c, flights, gg, packets)
  <2>1. IdsOf(c) \subseteq IdsIn(packets)
    BY <1>2 DEF InPackets, IdsIn
  <2>2. ASSUME NEW q \in packets
        PROVE  \E g \in flights : InRight(c, gg, q, g)
    <3>1. PICK g \in flights : InRight(t, got, q, g)
      BY DEF InPackets
    <3>2. CASE q = p
      BY <3>1, <3>2 DEF InRight, Answers
    <3>3. CASE q.id # p.id
      BY <1>2, <3>1, <3>3 DEF InRight
    <3> QED
      BY <3>2, <3>3 DEF Distinct
  <2> QED
    BY <2>1, <2>2 DEF InPackets
<1> QED
  BY <1>3, <1>5, <1>6

(* A packet is left behind.                                                 *)
LEMMA InDropped ==
    ASSUME NEW t, NEW flights, NEW got, NEW packets, NEW p \in packets,
           InPackets(t, flights, got, packets), Distinct(packets), p.id \notin IdsOf(t)
    PROVE  InPackets(t, flights, got, packets \ {p})
BY DEF InPackets, IdsIn, Distinct

(* The acknowledgement of a message follows its record.                     *)
Acking(t, flights, got, in, packets, p, q, c) ==
    /\ p \in packets /\ InAgreed(t, flights, got, in, TRUE) /\ InPackets(t, flights, got, packets)
    /\ Distinct(packets) /\ p.type = "PUBLISH" /\ p.qos \in {1, 2} /\ p.id \in IdsOf(t)
    /\ At(t, p.id).id = p.id /\ q = Packet(IF p.qos = 1 THEN "PUBACK" ELSE "PUBREC", p.id)
    /\ p.qos = 1 => (IdsOf(c) = IdsOf(t) \ {p.id} /\ \A x : x # p.id => At(c, x) = At(t, x))
    /\ p.qos = 2 => Restated(t, c, p.id, "PubRelPending")
    /\ At(t, p.id) \in Entry(InStates)

LEMMA InAcked ==
    ASSUME NEW t, NEW flights, NEW got, NEW in, NEW packets, NEW p, NEW q, NEW c,
           Acking(t, flights, got, in, packets, p, q, c)
    PROVE  /\ InAgreed(c, flights, got, in, TRUE)
           /\ InPackets(c, flights, got, (packets \ {p}) \cup {q})
           /\ \A x \in packets \ {p} : x.id # p.id
<1> USE DEF Acking
<1>1. PICK f \in flights : f.id = p.id /\ f.qos = p.qos /\ f.msg = p.msg /\ f.state = "sent"
  BY DEF InPackets, InRight
<1>2. Fits(At(t, p.id), f, got)
  <2>1. PICK g \in flights : Fits(At(t, p.id), g, got)
    BY DEF InAgreed
  <2>2. g.id = f.id
    BY <1>1, <2>1 DEF Fits
  <2> QED
    BY <2>1, <2>2 DEF InAgreed
<1>3. \A x : x # p.id => At(c, x) = At(t, x)
  BY DEF Changed, Restated
<1>4. /\ p.qos = 2 => /\ IdsOf(c) = IdsOf(t) /\ At(c, p.id).state = "PubRelPending"
                      /\ At(c, p.id).id = p.id /\ At(c, p.id).qos = At(t, p.id).qos
      /\ \A x \in IdsOf(c) : x \in IdsOf(t) /\ (x = p.id => p.qos = 2)
      /\ \A x \in IdsOf(t) : x \in IdsOf(c) \/ (x = p.id /\ p.qos = 1)
  BY DEF Changed, Restated, Entry
<1>5. InAgreed(c, flights, got, in, TRUE)
  <2>1. ASSUME NEW g \in flights, g.state = "sent", g.qos = 2, g.msg \in got
        PROVE  g.id \in IdsOf(c)
    <3>1. g.id \in IdsOf(t)
      BY <2>1 DEF InAgreed
    <3>2. g.id = p.id => g = f
      BY <1>1 DEF InAgreed
    <3> QED
      BY <1>1, <1>4, <2>1, <3>1, <3>2
  <2>2. ASSUME NEW id \in IdsOf(c)
        PROVE  \E g \in flights : Fits(At(c, id), g, got)
    <3>1. CASE id = p.id
      <4>1. Fits(At(c, id), f, got)
        BY <1>1, <1>2, <1>4, <3>1 DEF Fits
      <4> QED
        BY <4>1
    <3>2. CASE id # p.id
      BY <1>3, <1>4, <3>2 DEF InAgreed
    <3> QED
      BY <3>1, <3>2
  <2> QED
    BY <2>1, <2>2 DEF InAgreed
<1>6. \A x \in packets \ {p} : x.id # p.id
  BY DEF Distinct
<1>7. q.id = p.id /\ q.type = IF p.qos = 1 THEN "PUBACK" ELSE "PUBREC"
  BY DEF Packet
<1>8. InPackets(c, flights, got, (packets \ {p}) \cup {q})
  <2>1. IdsOf(c) \subseteq IdsIn((packets \ {p}) \cup {q})
    BY <1>4, <1>7, Replaced DEF InPackets
  <2>2. ASSUME NEW x \in packets \ {p}
        PROVE  \E g \in flights : InRight(c, got, x, g)
    <3>1. PICK g \in flights : InRight(t, got, x, g)
      BY DEF InPackets
    <3>2. x.id \in IdsOf(c) <=> x.id \in IdsOf(t)
      BY <1>4, <1>6
    <3> QED
      BY <1>3, <1>6, <3>1, <3>2 DEF InRight
  <2>3. InRight(c, got, q, f)
    <3>1. p.qos = 1 => p.id \notin IdsOf(c)
      BY <1>4
    <3> QED
      BY <1>1, <1>2, <1>4, <1>7, <3>1 DEF InRight, Fits
  <2> QED
    BY <2>1, <2>2, <2>3 DEF InPackets
<1> QED
  BY <1>5, <1>6, <1>8

(* A PUBREL finds its record, which is marked.                              *)
ForRecord(t, flights, got, in, packets, p) ==
    /\ InAgreed(t, flights, got, in, TRUE) /\ InPackets(t, flights, got, packets) /\ Distinct(packets)
    /\ p \in packets /\ p.type = "PUBREL" /\ p.id \in IdsOf(t) /\ At(t, p.id).id = p.id
    /\ At(t, p.id) \in Entry(InStates)

LEMMA InMarked ==
    ASSUME NEW t, NEW flights, NEW got, NEW in, NEW packets, NEW p,
           ForRecord(t, flights, got, in, packets, p)
    PROVE  /\ At(t, p.id).state \in {"PubRelPending", "PubCompSend"} /\ At(t, p.id).qos = 2
           /\ \A c : Restated(t, c, p.id, "PubCompSend") =>
                InAgreed(c, flights, got, in, TRUE) /\ InPackets(c, flights, got, packets)
<1> USE DEF ForRecord
<1>1. PICK f \in flights : f.id = p.id /\ f.state = "released"
  BY DEF InPackets, InRight
<1>2. Fits(At(t, p.id), f, got)
  <2>1. PICK g \in flights : Fits(At(t, p.id), g, got)
    BY DEF InAgreed
  <2>2. g.id = f.id
    BY <1>1, <2>1 DEF Fits
  <2> QED
    BY <2>1, <2>2 DEF InAgreed
<1>3. At(t, p.id).state \in {"PubRelPending", "PubCompSend"} /\ At(t, p.id).qos = 2
  <2>1. At(t, p.id).state \in InStates /\ At(t, p.id).qos \in {1, 2}
    BY DEF Entry
  <2> QED
    BY <1>1, <1>2, <2>1 DEF Fits, InStates, InAgreed
<1>4. ASSUME NEW c, Restated(t, c, p.id, "PubCompSend")
      PROVE  InAgreed(c, flights, got, in, TRUE) /\ InPackets(c, flights, got, packets)
  <2>1. /\ IdsOf(c) = IdsOf(t) /\ \A x : x # p.id => At(c, x) = At(t, x)
        /\ At(c, p.id).id = p.id /\ At(c, p.id).qos = 2 /\ At(c, p.id).state = "PubCompSend"
    BY <1>3, <1>4 DEF Changed, Restated, Entry
  <2>2. Fits(At(c, p.id), f, got)
    BY <1>1, <1>2, <1>3, <2>1 DEF Fits
  <2>3. \A id \in IdsOf(c) : \E g \in flights : Fits(At(c, id), g, got)
    BY <2>1, <2>2 DEF InAgreed
  <2>4. InAgreed(c, flights, got, in, TRUE)
    BY <2>1, <2>3 DEF InAgreed
  <2>5. ASSUME NEW x \in packets
        PROVE  \E g \in flights : InRight(c, got, x, g)
    <3>1. PICK g \in flights : InRight(t, got, x, g)
      BY DEF InPackets
    <3>2. x.id = p.id => x = p
      BY DEF Distinct
    <3> QED
      BY <2>1, <3>1, <3>2 DEF InRight, Answers
  <2> QED
    BY <2>1, <2>4, <2>5 DEF InPackets
<1> QED
  BY <1>3, <1>4

(* The PUBCOMP follows it.                                                  *)
Completing(t, flights, got, in, packets, p, q, c) ==
    /\ p \in packets /\ InAgreed(t, flights, got, in, TRUE) /\ InPackets(t, flights, got, packets)
    /\ Distinct(packets) /\ p.type = "PUBREL" /\ q = Packet("PUBCOMP", p.id)
    /\ IdsOf(c) = IdsOf(t) \ {p.id} /\ (\A x : x # p.id => At(c, x) = At(t, x))

LEMMA InCompleted ==
    ASSUME NEW t, NEW flights, NEW got, NEW in, NEW packets, NEW p, NEW q, NEW c,
           Completing(t, flights, got, in, packets, p, q, c)
    PROVE  /\ InAgreed(c, flights, got, in, TRUE)
           /\ InPackets(c, flights, got, (packets \ {p}) \cup {q})
           /\ \A x \in packets \ {p} : x.id # p.id
<1> USE DEF Completing
<1>1. PICK f \in flights : f.id = p.id /\ f.state = "released"
  BY DEF InPackets, InRight
<1>2. InAgreed(c, flights, got, in, TRUE)
  <2>1. ASSUME NEW g \in flights, g.state = "sent"
        PROVE  g.id # p.id
    BY <1>1, <2>1 DEF InAgreed
  <2>2. \A id \in IdsOf(c) : \E g \in flights : Fits(At(c, id), g, got)
    BY DEF InAgreed
  <2> QED
    BY <2>1, <2>2 DEF InAgreed
<1>3. \A x \in packets \ {p} : x.id # p.id
  BY DEF Distinct
<1>4. q.id = p.id /\ q.type = "PUBCOMP"
  BY DEF Packet
<1>5. IdsOf(c) \subseteq IdsIn((packets \ {p}) \cup {q})
  BY <1>4, Replaced DEF InPackets
<1>6. ASSUME NEW x \in packets \ {p}
      PROVE  \E g \in flights : InRight(c, got, x, g)
  <2>1. PICK g \in flights : InRight(t, got, x, g)
    BY DEF InPackets
  <2>2. x.id \in IdsOf(c) <=> x.id \in IdsOf(t)
    BY <1>3
  <2> QED
    BY <1>3, <2>1, <2>2 DEF InRight
<1>7. InRight(c, got, q, f)
  BY <1>1, <1>4 DEF InRight, Answers, InAgreed
<1> QED
  BY <1>2, <1>3, <1>5, <1>6, <1>7 DEF InPackets

(* The broker hears of the PUBREC.                                          *)
Confirming(t, flights, got, in, packets, p, q, ff) ==
    /\ \A f \in flights : f \in Flights
    /\ p \in packets /\ InAgreed(t, flights, got, in, TRUE)
    /\ InPackets(t, flights, got, packets) /\ Distinct(packets) /\ p.type = "PUBREC"
    /\ \A x \in IdsOf(t) : At(t, x).id = x
    /\ q = Packet("PUBREL", p.id)
    /\ ff = ReleaseAll(flights, p.id)

LEMMA InReleased ==
    ASSUME NEW t, NEW flights, NEW got, NEW in, NEW packets, NEW p, NEW q, NEW ff,
           Confirming(t, flights, got, in, packets, p, q, ff)
    PROVE  /\ InAgreed(t, ff, got, in, TRUE)
           /\ InPackets(t, ff, got, (packets \ {p}) \cup {q})
           /\ \A x \in packets \ {p} : x.id # p.id
<1> USE DEF Confirming
<1> ff = {Release(f, p.id) : f \in flights}
  BY DEF ReleaseAll
<1>1. PICK f \in flights : /\ f.id = p.id /\ f.qos = 2 /\ f.msg \in got
                           /\ p.id \in IdsOf(t) /\ At(t, p.id).state = "PubRelPending"
  BY DEF InPackets, InRight, Answers
<1>2. \A g \in flights : /\ Release(g, p.id).id = g.id /\ Release(g, p.id).qos = g.qos
                         /\ Release(g, p.id).msg = g.msg
                         /\ g # f => Release(g, p.id) = g
                         /\ g = f => Release(g, p.id).state = "released"
  <2>1. \A g \in flights : g.id = p.id => g = f
    BY <1>1 DEF InAgreed
  <2> QED
    BY <1>1, <2>1 DEF Release, Flights
<1>3. \A h \in ff : \E g \in flights : h = Release(g, p.id)
  OBVIOUS
<1>4. \A g \in flights : Release(g, p.id) \in ff
  OBVIOUS
<1>5. InAgreed(t, ff, got, in, TRUE)
  <2>1. ASSUME NEW h \in ff
        PROVE  /\ h.msg > in
               /\ h.state = "released" => h.qos = 2 /\ h.msg \in got
               /\ h.state = "sent" /\ h.qos = 2 /\ h.msg \in got => h.id \in IdsOf(t)
    <3>1. PICK g \in flights : h = Release(g, p.id)
      BY <1>3
    <3>2. CASE g = f
      BY <1>1, <1>2, <3>1, <3>2 DEF InAgreed
    <3>3. CASE g # f
      BY <1>2, <3>1, <3>3 DEF InAgreed
    <3> QED
      BY <3>2, <3>3
  <2>2. \A h, k \in ff : h.id = k.id \/ h.msg = k.msg => h = k
    <3> SUFFICES ASSUME NEW h \in ff, NEW k \in ff, h.id = k.id \/ h.msg = k.msg
                 PROVE  h = k
      OBVIOUS
    <3>1. PICK g \in flights : h = Release(g, p.id)
      BY <1>3
    <3>2. PICK l \in flights : k = Release(l, p.id)
      BY <1>3
    <3>3. g = l
      BY <1>2, <3>1, <3>2 DEF InAgreed
    <3> QED
      BY <3>1, <3>2, <3>3
  <2>3. ASSUME NEW id \in IdsOf(t)
        PROVE  \E h \in ff : Fits(At(t, id), h, got)
    <3>1. PICK g \in flights : Fits(At(t, id), g, got)
      BY DEF InAgreed
    <3>2. CASE g = f
      <4>1. id = p.id
        BY <1>1, <3>1, <3>2 DEF Fits
      <4> QED
        BY <1>1, <1>2, <1>4, <3>1, <3>2, <4>1 DEF Fits
    <3>3. CASE g # f
      BY <1>2, <1>4, <3>1, <3>3
    <3> QED
      BY <3>2, <3>3
  <2> QED
    BY <2>1, <2>2, <2>3 DEF InAgreed
<1>6. \A x \in packets \ {p} : x.id # p.id
  BY DEF Distinct
<1>7. q.id = p.id /\ q.type = "PUBREL"
  BY DEF Packet
<1>8. InPackets(t, ff, got, (packets \ {p}) \cup {q})
  <2>1. IdsOf(t) \subseteq IdsIn((packets \ {p}) \cup {q})
    BY <1>7, Replaced DEF InPackets
  <2>2. ASSUME NEW x \in packets \ {p}
        PROVE  \E h \in ff : InRight(t, got, x, h)
    <3>1. PICK g \in flights : InRight(t, got, x, g)
      BY DEF InPackets
    <3>2. g # f
      BY <1>1, <1>6, <3>1 DEF InRight
    <3> QED
      BY <1>2, <1>4, <3>1, <3>2
  <2>3. InRight(t, got, q, Release(f, p.id))
    BY <1>1, <1>2, <1>7 DEF InRight, Answers
  <2> QED
    BY <1>4, <2>1, <2>2, <2>3 DEF InPackets
<1> QED
  BY <1>5, <1>6, <1>8

(* An exchange is over for the broker.                                      *)
Closing(t, flights, got, in, packets, p, ff) ==
    /\ p \in packets /\ InAgreed(t, flights, got, in, TRUE) /\ InPackets(t, flights, got, packets)
    /\ Distinct(packets) /\ p.type \in {"PUBACK", "PUBCOMP"}
    /\ \A x \in IdsOf(t) : At(t, x).id = x
    /\ ff = Besides(flights, p.id)

LEMMA InOver ==
    ASSUME NEW t, NEW flights, NEW got, NEW in, NEW packets, NEW p, NEW ff,
           Closing(t, flights, got, in, packets, p, ff)
    PROVE  /\ InAgreed(t, ff, got, in, TRUE)
           /\ InPackets(t, ff, got, packets \ {p})
           /\ \A f \in flights : f.id = p.id => f.msg \in got
<1> USE DEF Closing
<1> ff = {f \in flights : f.id # p.id}
  BY DEF Besides
<1>1. PICK f \in flights : f.id = p.id /\ f.msg \in got /\ p.id \notin IdsOf(t)
  BY DEF InPackets, InRight, Answers
<1>2. \A g \in flights : g.id = p.id => g.msg \in got
  BY <1>1 DEF InAgreed
<1>3. InAgreed(t, ff, got, in, TRUE)
  <2>1. ASSUME NEW id \in IdsOf(t)
        PROVE  \E g \in ff : Fits(At(t, id), g, got)
    <3>1. PICK g \in flights : Fits(At(t, id), g, got)
      BY DEF InAgreed
    <3>2. g.id = id /\ id # p.id
      BY <1>1, <3>1 DEF Fits
    <3> QED
      BY <3>1, <3>2
  <2> QED
    BY <2>1 DEF InAgreed
<1>4. ASSUME NEW x \in packets \ {p}
      PROVE  \E g \in ff : InRight(t, got, x, g)
  <2>1. PICK g \in flights : InRight(t, got, x, g)
    BY DEF InPackets
  <2>2. g.id # p.id
    BY <2>1 DEF InRight, Distinct
  <2> QED
    BY <2>1, <2>2
<1>5. IdsOf(t) \subseteq IdsIn(packets \ {p})
  BY <1>1 DEF InPackets, IdsIn
<1> QED
  BY <1>2, <1>3, <1>4, <1>5 DEF InPackets

(* The broker has a new message m, which the packet p carries.              *)
Announced(t, flights, got, in, less, packets, m, p) ==
    /\ \A f \in flights : f \in Flights
    /\ \A g \in got : g \in Nat
    /\ in \in Nat /\ in > 0 /\ less = in - 1
    /\ InAgreed(t, flights, got, in, TRUE) /\ InPackets(t, flights, got, packets)
    /\ \A x \in IdsOf(t) : At(t, x).id = x
    /\ m \in Flights /\ m.msg = in /\ m.state = "sent" /\ \A f \in flights : f.id # m.id
    /\ p = PublishPacket(m.id, m)

LEMMA InPublished ==
    ASSUME NEW t, NEW flights, NEW got, NEW in, NEW less, NEW packets, NEW m, NEW p,
           Announced(t, flights, got, in, less, packets, m, p)
    PROVE  /\ InAgreed(t, flights \cup {m}, got, less, TRUE)
           /\ InPackets(t, flights \cup {m}, got, packets \cup {p})
           /\ \A x \in packets : x.id # m.id
           /\ \A f \in flights : f.msg # m.msg
<1> USE DEF Announced
<1>0. in \in Nat /\ in > 0 /\ less = in - 1 /\ p = PublishPacket(m.id, m)
  OBVIOUS
<1>1. \A f \in flights : f.msg \in Nat /\ f.msg > in
  BY DEF InAgreed, Flights
<1>2. \A f \in flights : f.msg > less /\ f.msg # m.msg
  BY <1>0, <1>1
<1>3. \A g \in got : g > less /\ g # m.msg
  <2>1. \A g \in got : g \in Nat /\ g > in
    BY DEF InAgreed
  <2> QED
    BY <1>0, <2>1
<1>4. in > less
  BY <1>0
<1>5. InAgreed(t, flights \cup {m}, got, less, TRUE)
  <2>1. ASSUME NEW id \in IdsOf(t)
        PROVE  \E g \in flights \cup {m} : Fits(At(t, id), g, got)
    BY DEF InAgreed
  <2>2. \A f, g \in flights \cup {m} : f.id = g.id \/ f.msg = g.msg => f = g
    BY <1>2 DEF InAgreed
  <2>3. ASSUME NEW f \in flights \cup {m}
        PROVE  /\ f.msg > less
               /\ f.state = "released" => f.qos = 2 /\ f.msg \in got
               /\ f.state = "sent" /\ f.qos = 2 /\ f.msg \in got => f.id \in IdsOf(t)
    <3>1. CASE f \in flights
      BY <1>2, <3>1 DEF InAgreed
    <3>2. CASE f = m
      BY <1>3, <1>4, <3>2
    <3> QED
      BY <3>1, <3>2
  <2> QED
    BY <1>3, <2>1, <2>2, <2>3 DEF InAgreed
<1>6. \A x \in packets : x.id # m.id
  BY DEF InPackets, InRight
<1>7. InRight(t, got, p, m)
  BY <1>0 DEF InRight, PublishPacket, Answers
<1>8. IdsOf(t) \subseteq IdsIn(packets \cup {p})
  <2>1. IdsOf(t) \subseteq IdsIn(packets)
    BY DEF InPackets
  <2>2. IdsIn(packets \cup {p}) = IdsIn(packets) \cup {p.id}
    BY IdsJoined
  <2> QED
    BY <2>1, <2>2
<1>9. \A x \in packets : \E g \in flights \cup {m} : InRight(t, got, x, g)
  BY DEF InPackets
<1> QED
  BY <1>2, <1>5, <1>6, <1>7, <1>8, <1>9 DEF InPackets

(* The broker sends all of its messages again.                              *)
LEMMA InResumed ==
    ASSUME NEW t, NEW flights, \A f \in flights : f \in Flights, NEW got, NEW in,
           InAgreed(t, flights, got, in, TRUE), \A x \in IdsOf(t) : At(t, x).id = x
    PROVE  /\ InPackets(t, flights, got, RepeatAll(flights))
           /\ Distinct(RepeatAll(flights))
<1>1. \A f \in flights : /\ Repeated(f).id = f.id
                         /\ f.state = "sent" => /\ Repeated(f).type = "PUBLISH" /\ Repeated(f).qos = f.qos
                                                /\ Repeated(f).msg = f.msg
                         /\ f.state # "sent" => Repeated(f).type = "PUBREL" /\ f.state = "released"
  BY DEF Repeated, PublishPacket, Packet, Flights
<1>2. \A f \in flights : InRight(t, got, Repeated(f), f)
  BY <1>1 DEF InRight, Answers
<1>3. ASSUME NEW id \in IdsOf(t)
      PROVE  id \in IdsIn(RepeatAll(flights))
  <2>1. PICK f \in flights : Fits(At(t, id), f, got)
    BY DEF InAgreed
  <2>2. f.id = id
    BY <2>1 DEF Fits
  <2> QED
    BY <1>1, <2>2 DEF IdsIn, RepeatAll
<1>4. Distinct(RepeatAll(flights))
  BY <1>1 DEF Distinct, InAgreed, RepeatAll
<1> QED
  BY <1>2, <1>3, <1>4 DEF InPackets, RepeatAll

(* The first of the PUBRELs are sent again.                                 *)
Resent(t, c, sent) ==
    /\ \A id \in sent : id \in IdsOf(t) /\ At(t, id).state \in RelStates
    /\ IdsOf(c) = IdsOf(t)
    /\ \A id \in IdsOf(t) : /\ At(t, id) \in Entry(OutStates)
                            /\ At(c, id) = IF id \in sent THEN [At(t, id) EXCEPT !.state = "PubCompPending"]
                                                          ELSE At(t, id)
PubRels(sent) == {Packet("PUBREL", id) : id \in sent}

LEMMA OutResumed ==
    ASSUME NEW t, NEW kept, NEW out, NEW sent, NEW c, Resent(t, c, sent), KeptRight(t, kept, out)
    PROVE  KeptRight(c, kept, out)
<1>1. \A id \in IdsOf(t) : /\ At(c, id).qos = At(t, id).qos
                           /\ id \notin sent => At(c, id) = At(t, id)
                           /\ id \in sent => At(c, id).state = "PubCompPending"
  BY DEF Entry, Resent
<1>2. \A id \in IdsOf(t) : /\ At(c, id).state \in RelStates <=> At(t, id).state \in RelStates
                           /\ At(c, id).state \in RelStates \/ At(c, id).state = At(t, id).state
  BY <1>1 DEF RelStates, Resent
<1> QED
  BY <1>1, <1>2 DEF KeptRight, RelStates, Resent

LEMMA OutResumedAgreed ==
    ASSUME NEW t, NEW kept, NEW out, NEW sent, NEW c, Resent(t, c, sent), NEW held, NEW delivered,
           NEW session, OutAgreed(t, kept, out, held, delivered, session)
    PROVE  OutAgreed(c, kept, out, held, delivered, session)
<1>1. \A id \in IdsOf(t) : /\ At(c, id).qos = At(t, id).qos
                           /\ id \notin sent => At(c, id) = At(t, id)
                           /\ id \in sent => At(c, id).state = "PubCompPending"
  BY DEF Entry, Resent
<1>2. \A id \in IdsOf(t) : /\ At(c, id).state \in RelStates <=> At(t, id).state \in RelStates
                           /\ At(c, id).state \in RelStates \/ At(c, id).state = At(t, id).state
  BY <1>1 DEF RelStates, Resent
<1>3. ASSUME NEW id \in IdsOf(t)
      PROVE  /\ At(c, id).state \in RelStates => kept[id].msg \in delivered
             /\ At(c, id).state = "PublishSend" => kept[id].msg \notin delivered
             /\ session /\ At(c, id).state = "PubRecPending" /\ kept[id].msg \in delivered => id \in held
  BY <1>2 DEF OutAgreed, RelStates
<1>4. \A id \in held : /\ id \in IdsOf(c) /\ At(c, id).qos = 2 /\ At(c, id).state # "PublishSend"
                       /\ kept[id].msg \in delivered
  BY <1>1, <1>2 DEF OutAgreed, RelStates, Resent
<1> QED
  BY <1>3, <1>4 DEF OutAgreed, Resent

LEMMA OutResumedPackets ==
    ASSUME NEW t, NEW sent, NEW c, Resent(t, c, sent), NEW kept, NEW held, NEW delivered
    PROVE  OutPackets(c, kept, held, delivered, sent, PubRels(sent)) /\ Distinct(PubRels(sent))
<1>1. \A id \in sent : id \in IdsOf(c) /\ At(c, id).state = "PubCompPending"
  BY DEF Entry, Resent
<1>2. \A id \in sent : OutRight(c, kept, held, delivered, Packet("PUBREL", id))
  BY <1>1 DEF OutRight, Packet, Answers
<1>3. IdsIn(PubRels(sent)) = sent
  <2>1. \A id : Packet("PUBREL", id).id = id
    BY DEF Packet
  <2> QED
    BY <2>1 DEF IdsIn, PubRels
<1> QED
  BY <1>2, <1>3 DEF OutPackets, Distinct, Packet, PubRels

-----------------------------------------------------------------------------
(* What an update does to a table                                           *)

LEMMA RankUpTo ==
    ASSUME NEW S, \A i \in S : i \in Nat \ {0}, NEW b \in Nat
    PROVE  Rank(S, b) <= b
<1> DEFINE T == {j \in S : j <= b}
<1>1. T \subseteq 1 .. b
  OBVIOUS
<1>2. IsFiniteSet(1 .. b) /\ Cardinality(1 .. b) = b
  <2>1. 1 \in Int /\ b \in Int /\ (IF 1 > b THEN 0 ELSE b - 1 + 1) = b
    OBVIOUS
  <2> QED
    BY <2>1, FS_Interval
<1>3. T \in SUBSET (1 .. b)
  BY <1>1
<1>4. Cardinality(T) <= Cardinality(1 .. b)
  BY <1>2, <1>3, FS_Subset
<1> QED
  BY <1>2, <1>4 DEF Rank

(* The k-th place in use is not before k.                                   *)
LEMMA NotBefore ==
    ASSUME NEW n \in Nat, NEW t, DOMAIN t = 1 .. n, NEW m \in 0 .. n, NEW g,
           Enumerates(g, m, UsedPlaces(t)), NEW k \in 1 .. m
    PROVE  g[k] \in 1 .. n /\ g[k] >= k
<1>1. g[k] \in UsedPlaces(t) /\ UsedPlaces(t) \subseteq 1 .. n
  BY DEF Enumerates, UsedPlaces
<1>2. g[k] \in 1 .. n
  BY <1>1
<1>3. Rank(UsedPlaces(t), g[k]) = k
  <2>1. m \in Nat /\ k \in 0 .. m /\ k > 0
    OBVIOUS
  <2> QED
    BY <2>1, RankOf
<1>4. Rank(UsedPlaces(t), g[k]) <= g[k]
  <2>1. \A i \in UsedPlaces(t) : i \in Nat \ {0}
    BY DEF UsedPlaces
  <2>2. g[k] \in Nat
    BY <1>2
  <2> QED
    BY <2>1, <2>2, RankUpTo
<1> QED
  BY <1>2, <1>3, <1>4

(* A table whose records moved towards the front at most.                   *)
Forward(t, c) ==
    \A k \in DOMAIN c : c[k].id # 0 => \E j \in DOMAIN t : j >= k /\ c[k] = t[j]

LEMMA AddingForward ==
    ASSUME NEW n \in Nat \ {0}, NEW states, "Null" \notin states, NEW t, IsTable(t, n, states),
           NEW r, Added(t, r).status # "Success"
    PROVE  Forward(t, Added(t, r).table)
<1>1. DOMAIN t = 1 .. n
  BY DEF IsTable
<1>2. Forward(t, t)
  BY <1>1 DEF Forward
<1>3. Forward(t, Compacted(t))
  <2>0. PICK m \in 0 .. n : \E g :
            /\ Enumerates(g, m, UsedPlaces(t))
            /\ Compacted(t) = [i \in 1 .. n |-> IF i <= m THEN t[g[i]] ELSE NoRecord]
    BY CompactedAlong
  <2>1. PICK g : /\ Enumerates(g, m, UsedPlaces(t))
                 /\ Compacted(t) = [i \in 1 .. n |-> IF i <= m THEN t[g[i]] ELSE NoRecord]
    BY <2>0
  <2> SUFFICES ASSUME NEW k \in 1 .. n, Compacted(t)[k].id # 0
               PROVE  \E j \in 1 .. n : j >= k /\ Compacted(t)[k] = t[j]
    BY <1>1, <2>1 DEF Forward
  <2>2. k <= m /\ Compacted(t)[k] = t[g[k]]
    BY <2>1 DEF NoRecord
  <2>3. k \in 1 .. m
    BY <2>2
  <2>4. g[k] \in 1 .. n /\ g[k] >= k
    BY <1>1, <2>1, <2>3, NotBefore
  <2> QED
    BY <2>2, <2>4
<1>4. Added(t, r).table \in {t, Compacted(t)}
  BY DEF Added
<1> QED
  BY <1>2, <1>3, <1>4

(* A publish is sent: its record waits for the acknowledgement.             *)
LEMMA AfterSending ==
    ASSUME NEW n \in Nat \ {0}, NEW t, IsTable(t, n, OutStates), NEW id \in IdsOf(t),
           NEW qos, qos = At(t, id).qos, At(t, id).state \in PublishStates,
           At(t, id).state = "PubAckPending" => qos = 1,
           At(t, id).state = "PubRecPending" => qos = 2,
           NEW c, c = AfterPublish(t, id, qos)
    PROVE  /\ IsTable(c, n, OutStates)
           /\ Restated(t, c, id, SentState(qos))
           /\ \A kept : PubsInOrder(t, kept) => PubsInOrder(c, kept)
           /\ \A recs \in Seq(Ids) : RelsInOrder(t, recs) => RelsInOrder(c, recs)
           /\ DOMAIN c = DOMAIN t /\ \A i \in DOMAIN t : t[i].id # id => c[i] = t[i]
           /\ \A i \in DOMAIN t : c[i].id = t[i].id
<1>1. "Null" \notin OutStates
  BY DEF OutStates, PublishStates, RelStates
<1>2. At(t, id) = RecordOf(t, id) /\ qos \in {1, 2}
  BY <1>1, AtId
<1>3. <<At(t, id).state, SentState(qos)>> \in PublishTransitions
  BY <1>2 DEF PublishStates, SentState, PublishTransitions
<1>4. c = WithState(t, id, SentState(qos))
  BY <1>2, <1>3 DEF AfterPublish
<1>5. SentState(qos) \in OutStates /\ SentState(qos) \in PublishStates /\ SentState(qos) \notin RelStates
      /\ At(t, id).state \notin RelStates
  BY <1>2 DEF SentState, OutStates, PublishStates, RelStates
<1>6. /\ IsTable(c, n, OutStates) /\ IdsOf(c) = IdsOf(t)
      /\ At(c, id) = [At(t, id) EXCEPT !.state = SentState(qos)]
      /\ \A x : x # id => At(c, x) = At(t, x)
      /\ \A kept : PubsInOrder(t, kept) => PubsInOrder(c, kept)
      /\ \A recs \in Seq(Ids) : RelsInOrder(t, recs) => RelsInOrder(c, recs)
  BY <1>1, <1>4, <1>5, Marking
<1>7. DOMAIN c = DOMAIN t /\ \A i \in DOMAIN t : t[i].id # id => c[i] = t[i]
  BY <1>4 DEF WithState
<1>8. \A i \in DOMAIN t : c[i].id = t[i].id
  <2>1. \A i \in DOMAIN t : t[i] = NoRecord \/ t[i] \in Entry(OutStates)
    BY DEF IsTable
  <2> QED
    BY <1>4, <2>1 DEF WithState, NoRecord, Entry
<1> QED
  BY <1>6, <1>7, <1>8 DEF Changed, Restated

LEMMA AckStates ==
    ASSUME NEW qos \in {1, 2}
    PROVE  /\ \A sends \in BOOLEAN :
                /\ AckState("PUBACK", sends, qos) = IF qos = 1 THEN "PublishDone" ELSE "Null"
                /\ AckState("PUBCOMP", sends, qos) = IF qos = 1 THEN "Null" ELSE "PublishDone"
           /\ AckState("PUBREC", TRUE, qos) = IF qos = 1 THEN "Null" ELSE "PubRelPending"
           /\ AckState("PUBREC", FALSE, qos) = IF qos = 1 THEN "Null" ELSE "PubRelSend"
           /\ AckState("PUBREL", TRUE, qos) = IF qos = 1 THEN "Null" ELSE "PubCompPending"
           /\ AckState("PUBREL", FALSE, qos) = IF qos = 1 THEN "Null" ELSE "PubCompSend"
BY DEF AckState

(* An acknowledgement of a publish arrives: nothing comes of it, or the     *)
(* exchange is over, or the record moves to the PUBRELs.                    *)
NotAcked(t, id, type, u) ==
    /\ u.status # "Success" /\ u.state = "Null" /\ u.table = t
    /\ id \in IdsOf(t) =>
          /\ ~(type = "PUBACK" /\ At(t, id).qos = 1 /\ At(t, id).state = "PubAckPending")
          /\ ~(type = "PUBREC" /\ At(t, id).qos = 2 /\ At(t, id).state = "PubRecPending")
          /\ ~(type = "PUBCOMP" /\ At(t, id).qos = 2 /\ At(t, id).state = "PubCompPending")
AckedLast(t, id, type, u) ==
    /\ u.status = "Success" /\ u.state = "PublishDone" /\ u.table = Without(t, id)
    /\ id \in IdsOf(t) /\ type # "PUBREC" /\ (type = "PUBACK" <=> At(t, id).qos = 1)
AckedFirst(t, id, type, u) ==
    /\ u.state = "PubRelSend" /\ id \in IdsOf(t)
    /\ type = "PUBREC" /\ At(t, id).qos = 2 /\ At(t, id).state = "PubRecPending"
    /\ u.status = Added(Without(t, id), Record(id, 2, "PubRelSend")).status
    /\ u.table = Added(Without(t, id), Record(id, 2, "PubRelSend")).table

LEMMA Acknowledging ==
    ASSUME NEW n \in Nat \ {0}, NEW t, IsTable(t, n, OutStates), NEW id \in Ids,
           NEW type \in Answers, NEW u, u = Updated(t, id, type, FALSE)
    PROVE  NotAcked(t, id, type, u) \/ AckedLast(t, id, type, u) \/ AckedFirst(t, id, type, u)
<1> USE DEF NotAcked, AckedLast, AckedFirst
<1>1. "Null" \notin OutStates
  BY DEF OutStates, PublishStates, RelStates
<1>2. CASE id \notin IdsOf(t)
  BY <1>2 DEF Updated
<1>3. CASE id \in IdsOf(t)
  <2> DEFINE r == RecordOf(t, id)
             to == AckState(type, FALSE, r.qos)
  <2>1. /\ r = At(t, id) /\ r.qos \in {1, 2}
        /\ r.state \in {"PublishSend", "PubAckPending", "PubRecPending", "PubRelSend", "PubCompPending"}
    BY <1>1, <1>3, AtId DEF OutStates, PublishStates, RelStates
  <2>2. /\ type = "PUBACK" => to = IF r.qos = 1 THEN "PublishDone" ELSE "Null"
        /\ type = "PUBCOMP" => to = IF r.qos = 1 THEN "Null" ELSE "PublishDone"
        /\ type = "PUBREC" => to = IF r.qos = 1 THEN "Null" ELSE "PubRelSend"
    BY <2>1, AckStates
  <2>3. /\ <<r.state, to>> \in AckTransitions =>
              /\ u.status = Moved(t, id, r.state, to).status
              /\ u.table = Moved(t, id, r.state, to).table
              /\ u.state = to
        /\ <<r.state, to>> \notin AckTransitions =>
              u.status = "IllegalState" /\ u.table = t /\ u.state = "Null"
    BY <1>3 DEF Updated
  <2>4. <<r.state, to>> \in AckTransitions <=>
            \/ to = "PublishDone" /\ r.state \in {"PubAckPending", "PubCompPending"}
            \/ to = "PubRelSend" /\ r.state = "PubRecPending"
    BY <2>1, <2>2 DEF AckTransitions, Answers
  <2> HIDE DEF r, to
  <2>5. CASE to = "PublishDone" /\ r.state \in {"PubAckPending", "PubCompPending"}
    <3>1. Moved(t, id, r.state, to).status = "Success" /\ Moved(t, id, r.state, to).table = Without(t, id)
      BY <2>5 DEF Moved
    <3>2. u.status = "Success" /\ u.state = "PublishDone" /\ u.table = Without(t, id)
      BY <2>3, <2>4, <2>5, <3>1
    <3>3. type # "PUBREC" /\ (type = "PUBACK" <=> r.qos = 1)
      BY <2>1, <2>2, <2>5 DEF Answers
    <3> QED
      BY <1>3, <2>1, <3>2, <3>3
  <2>6. CASE to = "PubRelSend" /\ r.state = "PubRecPending"
    <3>1. Moved(t, id, r.state, to) = Added(Without(t, id), Record(id, 2, to))
      BY <2>6 DEF Moved
    <3>2. /\ u.state = "PubRelSend"
          /\ u.status = Added(Without(t, id), Record(id, 2, "PubRelSend")).status
          /\ u.table = Added(Without(t, id), Record(id, 2, "PubRelSend")).table
      BY <2>3, <2>4, <2>6, <3>1
    <3>3. type = "PUBREC" /\ r.qos = 2 /\ r.state = "PubRecPending"
      BY <2>1, <2>2, <2>6 DEF Answers
    <3> QED
      BY <1>3, <2>1, <3>2, <3>3
  <2>7. CASE <<r.state, to>> \notin AckTransitions
    <3>1. u.status # "Success" /\ u.state = "Null" /\ u.table = t
      BY <2>3, <2>7
    <3>2. /\ ~(type = "PUBACK" /\ r.qos = 1 /\ r.state = "PubAckPending")
          /\ ~(type = "PUBREC" /\ r.qos = 2 /\ r.state = "PubRecPending")
          /\ ~(type = "PUBCOMP" /\ r.qos = 2 /\ r.state = "PubCompPending")
      BY <2>1, <2>2, <2>4, <2>7
    <3> QED
      BY <2>1, <3>1, <3>2
  <2> QED
    BY <2>4, <2>5, <2>6, <2>7
<1> QED
  BY <1>2, <1>3

(* A PUBREL is sent.                                                        *)
LEMMA RelSending ==
    ASSUME NEW n \in Nat \ {0}, NEW t, IsTable(t, n, OutStates), NEW id \in IdsOf(t),
           At(t, id) = Record(id, 2, "PubRelSend")
    PROVE  Updated(t, id, "PUBREL", TRUE).table = WithState(t, id, "PubCompPending")
<1>1. "Null" \notin OutStates
  BY DEF OutStates, PublishStates, RelStates
<1>2. RecordOf(t, id).qos = 2 /\ RecordOf(t, id).state = "PubRelSend"
  BY <1>1, AtId DEF Record
<1>3. AckState("PUBREL", TRUE, 2) = "PubCompPending"
  BY DEF AckState
<1>4. <<"PubRelSend", "PubCompPending">> \in AckTransitions
  BY DEF AckTransitions
<1>5. Moved(t, id, "PubRelSend", "PubCompPending").table = WithState(t, id, "PubCompPending")
  BY DEF Moved
<1> QED
  BY <1>2, <1>3, <1>4, <1>5 DEF Updated

(* A record of an incoming message follows the packet: it stays as it is,   *)
(* or is marked, or taken away.                                             *)
Follows(n, t, id, type, sends, u) ==
    /\ n \in Nat \ {0} /\ IsTable(t, n, InStates) /\ id \in Ids
    /\ (type = "PUBREL" /\ sends = FALSE) \/ (type \in Answers /\ sends = TRUE)
    /\ u = Updated(t, id, type, sends)

Refused(t, id, type, sends, u) ==
    /\ u.status # "Success" /\ u.table = t /\ u.state = "Null"
    /\ id \in IdsOf(t) => <<At(t, id).state, AckState(type, sends, At(t, id).qos)>> \notin AckTransitions
TakenAway(t, id, type, u) ==
    /\ u.status = "Success" /\ u.table = Without(t, id) /\ u.state = "PublishDone"
    /\ id \in IdsOf(t) /\ type \in {"PUBACK", "PUBCOMP"}
Marked(t, id, type, u) ==
    /\ u.status = "Success" /\ id \in IdsOf(t) /\ Restated(t, u.table, id, u.state)
    /\ type \in {"PUBREL", "PUBREC"}
    /\ (type = "PUBREL" => u.state = "PubCompSend") /\ (type # "PUBREL" => u.state = "PubRelPending")

LEMMA Following ==
    ASSUME NEW n, NEW t, NEW id, NEW type, NEW sends, NEW u,
           Follows(n, t, id, type, sends, u)
    PROVE  /\ Refused(t, id, type, sends, u) \/ TakenAway(t, id, type, u) \/ Marked(t, id, type, u)
           /\ IsTable(u.table, n, InStates)
<1> USE DEF Follows, Refused, TakenAway, Marked
<1>1. "Null" \notin InStates
  BY DEF InStates
<1>2. CASE id \notin IdsOf(t)
  BY <1>2 DEF Updated
<1>3. CASE id \in IdsOf(t)
  <2> DEFINE r == RecordOf(t, id)
             to == AckState(type, sends, r.qos)
  <2>1. r = At(t, id) /\ r.qos \in {1, 2} /\ r.state \in InStates /\ r \in Entry(InStates)
    BY <1>1, <1>3, AtId
  <2>2. /\ type = "PUBACK" => to = IF r.qos = 1 THEN "PublishDone" ELSE "Null"
        /\ type = "PUBCOMP" => to = IF r.qos = 1 THEN "Null" ELSE "PublishDone"
        /\ type = "PUBREC" => to = IF r.qos = 1 THEN "Null" ELSE "PubRelPending"
        /\ type = "PUBREL" => to = IF r.qos = 1 THEN "Null" ELSE "PubCompSend"
    BY <2>1, AckStates DEF Answers
  <2>3. /\ <<r.state, to>> \in AckTransitions =>
              /\ u.status = Moved(t, id, r.state, to).status
              /\ u.table = Moved(t, id, r.state, to).table
              /\ u.state = to
        /\ <<r.state, to>> \notin AckTransitions =>
              u.status = "IllegalState" /\ u.table = t /\ u.state = "Null"
    BY <1>3 DEF Updated
  <2>4. type \in {"PUBACK", "PUBREC", "PUBREL", "PUBCOMP"}
    BY DEF Answers
  <2>5. <<r.state, to>> \in AckTransitions => to # "Null"
    BY DEF AckTransitions
  <2> HIDE DEF r, to
  <2>6. CASE <<r.state, to>> \notin AckTransitions
    BY <2>1, <2>3, <2>6 DEF to
  <2>7. CASE <<r.state, to>> \in AckTransitions /\ to = "PublishDone"
    <3>1. r.state # to
      BY <2>1, <2>7 DEF InStates
    <3>2. Moved(t, id, r.state, to).status = "Success" /\ Moved(t, id, r.state, to).table = Without(t, id)
      BY <2>7, <3>1 DEF Moved
    <3>3. u.status = "Success" /\ u.table = Without(t, id) /\ u.state = "PublishDone"
      BY <2>3, <2>7, <3>2
    <3>4. type \in {"PUBACK", "PUBCOMP"}
      BY <2>1, <2>2, <2>4, <2>7
    <3>5. IsTable(u.table, n, InStates)
      BY <1>1, <3>3, Removing
    <3> QED
      BY <1>3, <3>3, <3>4, <3>5
  <2>8. CASE <<r.state, to>> \in AckTransitions /\ to # "PublishDone"
    <3>1. type \in {"PUBREL", "PUBREC"} /\ to = IF type = "PUBREL" THEN "PubCompSend" ELSE "PubRelPending"
      BY <2>1, <2>2, <2>4, <2>5, <2>8
    <3>2. to \in InStates /\ to # "PubRelSend"
      BY <3>1 DEF InStates
    <3>3. CASE r.state = to
      <4>1. Moved(t, id, r.state, to).status = "Success" /\ Moved(t, id, r.state, to).table = t
        BY <3>3 DEF Moved
      <4>2. u.status = "Success" /\ u.table = t /\ u.state = to
        BY <2>3, <2>8, <4>1
      <4>3. [At(t, id) EXCEPT !.state = to] = At(t, id)
        BY <2>1, <3>3 DEF Entry
      <4>4. Restated(t, u.table, id, u.state)
        BY <1>3, <4>2, <4>3 DEF Changed, Restated
      <4> QED
        BY <1>3, <3>1, <4>2, <4>4
    <3>4. CASE r.state # to
      <4>1. /\ Moved(t, id, r.state, to).status = "Success"
            /\ Moved(t, id, r.state, to).table = WithState(t, id, to)
        BY <2>8, <3>2, <3>4 DEF Moved
      <4>2. u.status = "Success" /\ u.table = WithState(t, id, to) /\ u.state = to
        BY <2>3, <2>8, <4>1
      <4>3. /\ IsTable(u.table, n, InStates) /\ IdsOf(u.table) = IdsOf(t)
            /\ At(u.table, id) = [At(t, id) EXCEPT !.state = to]
            /\ \A x : x # id => At(u.table, x) = At(t, x)
        BY <1>1, <1>3, <3>2, <4>2, Marking
      <4>4. Restated(t, u.table, id, u.state)
        BY <1>3, <4>2, <4>3 DEF Changed, Restated
      <4> QED
        BY <1>3, <3>1, <4>2, <4>3, <4>4
    <3> QED
      BY <3>3, <3>4
  <2> QED
    BY <2>6, <2>7, <2>8
<1> QED
  BY <1>2, <1>3

(* The records with a PUBREC in the order of the table.                     *)
LEMMA Rels ==
    ASSUME NEW n \in Nat \ {0}, NEW t, IsTable(t, n, OutStates),
           NEW rels, rels = Picked(t, RelPlaces(t))
    PROVE  /\ Len(rels) \in Nat /\ DOMAIN rels = 1 .. Len(rels)
           /\ \E g : /\ Enumerates(g, Len(rels), RelPlaces(t))
                     /\ \A k \in 1 .. Len(rels) : rels[k] = t[g[k]]
<1>1. RelPlaces(t) \subseteq 1 .. n
  BY DEF RelPlaces, IsTable
<1>2. IsFiniteSet(RelPlaces(t)) /\ \A i \in RelPlaces(t) : i \in Nat
  <2>1. IsFiniteSet(1 .. n)
    BY FS_Interval
  <2> QED
    BY <1>1, <2>1, FS_Subset
<1>3. PICK g : Cardinality(RelPlaces(t)) \in Nat /\ Enumerates(g, Cardinality(RelPlaces(t)), RelPlaces(t))
  BY <1>2, Enumerable
<1>4. /\ DOMAIN rels = 1 .. Cardinality(RelPlaces(t)) /\ Len(rels) = Cardinality(RelPlaces(t))
      /\ \A k \in 1 .. Cardinality(RelPlaces(t)) : rels[k] = t[g[k]]
  BY <1>3, PickedAlong
<1> QED
  BY <1>3, <1>4

(* The PUBRELs of the first m of them are sent.                             *)
FirstIds(rels, m) == {rels[k].id : k \in 1 .. m}
Restarted(t, sent) ==
    [i \in DOMAIN t |-> IF t[i].id \in sent THEN [t[i] EXCEPT !.state = "PubCompPending"] ELSE t[i]]
RelQueue(rels) == [k \in DOMAIN rels |-> Packet("PUBREL", rels[k].id)]
LEMMA RelsSending ==
    ASSUME NEW n \in Nat \ {0}, NEW t, IsTable(t, n, OutStates),
           NEW rels, rels = Picked(t, RelPlaces(t)), NEW m \in Nat, m <= Len(rels),
           NEW sent, sent = FirstIds(rels, m), NEW c, c = Restarted(t, sent)
    PROVE  /\ \A id \in sent : id \in IdsOf(t) /\ At(t, id).state \in RelStates
           /\ IsTable(c, n, OutStates) /\ Resent(t, c, sent)
           /\ \A kept : PubsInOrder(t, kept) => PubsInOrder(c, kept)
           /\ \A recs \in Seq(Ids) : RelsInOrder(t, recs) => RelsInOrder(c, recs)
<1> /\ sent = {rels[k].id : k \in 1 .. m}
    /\ c = [i \in DOMAIN t |-> IF t[i].id \in sent THEN [t[i] EXCEPT !.state = "PubCompPending"] ELSE t[i]]
  BY DEF FirstIds, Restarted
<1>1. "Null" \notin OutStates /\ "PubCompPending" \in OutStates /\ RelStates \subseteq OutStates
      /\ "PubCompPending" \in RelStates /\ RelStates \cap PublishStates = {}
  BY DEF OutStates, PublishStates, RelStates
<1>2. PICK g : /\ Len(rels) \in Nat /\ Enumerates(g, Len(rels), RelPlaces(t))
               /\ \A k \in 1 .. Len(rels) : rels[k] = t[g[k]]
  BY Rels
<1>3. DOMAIN t = 1 .. n
  BY DEF IsTable
<1>4. \A id \in sent : \E i \in 1 .. n : t[i].id = id /\ t[i].state \in RelStates /\ id # 0
  <2> SUFFICES ASSUME NEW k \in 1 .. m
               PROVE  \E i \in 1 .. n : /\ t[i].id = rels[k].id /\ t[i].state \in RelStates
                                        /\ rels[k].id # 0
    OBVIOUS
  <2>1. k \in 1 .. Len(rels)
    BY <1>2
  <2>2. g[k] \in RelPlaces(t) /\ rels[k] = t[g[k]]
    BY <1>2, <2>1 DEF Enumerates
  <2>3. g[k] \in 1 .. n /\ t[g[k]].state \in RelStates
    BY <1>3, <2>2 DEF RelPlaces
  <2>4. t[g[k]].id # 0
    BY <1>1, <2>3, InPlace
  <2> QED
    BY <2>2, <2>3, <2>4
<1>5. \A id \in sent : id \in IdsOf(t) /\ At(t, id).state \in RelStates
  <2> SUFFICES ASSUME NEW id \in sent
               PROVE  id \in IdsOf(t) /\ At(t, id).state \in RelStates
    OBVIOUS
  <2>1. PICK i \in 1 .. n : t[i].id = id /\ t[i].state \in RelStates /\ id # 0
    BY <1>4
  <2> QED
    BY <2>1, AtPlace
<1>6. \A i \in 1 .. n : /\ t[i] = NoRecord \/ t[i] \in Entry(OutStates)
                        /\ t[i].id \in sent => t[i].state \in RelStates /\ t[i] \in Entry(OutStates)
  <2> SUFFICES ASSUME NEW i \in 1 .. n
               PROVE  /\ t[i] = NoRecord \/ t[i] \in Entry(OutStates)
                      /\ t[i].id \in sent => t[i].state \in RelStates /\ t[i] \in Entry(OutStates)
    OBVIOUS
  <2>1. t[i] = NoRecord \/ t[i] \in Entry(OutStates)
    BY <1>1, InPlace
  <2>2. ASSUME t[i].id \in sent
        PROVE  t[i].state \in RelStates /\ t[i] \in Entry(OutStates)
    <3>1. PICK j \in 1 .. n : t[j].id = t[i].id /\ t[j].state \in RelStates /\ t[i].id # 0
      BY <1>4, <2>2
    <3>2. j = i
      BY <3>1 DEF IsTable
    <3> QED
      BY <2>1, <3>1, <3>2 DEF NoRecord
  <2> QED
    BY <2>1, <2>2
<1>7. \A i \in 1 .. n : /\ c[i].id = t[i].id
                        /\ t[i].id \notin sent => c[i] = t[i]
                        /\ t[i].id \in sent => c[i] = [t[i] EXCEPT !.state = "PubCompPending"]
                        /\ c[i] = NoRecord \/ c[i] \in Entry(OutStates)
                        /\ c[i].state \in RelStates <=> t[i].state \in RelStates
                        /\ c[i].state \in PublishStates => c[i] = t[i]
  <2> SUFFICES ASSUME NEW i \in 1 .. n
               PROVE  /\ c[i].id = t[i].id
                      /\ t[i].id \notin sent => c[i] = t[i]
                      /\ t[i].id \in sent => c[i] = [t[i] EXCEPT !.state = "PubCompPending"]
                      /\ c[i] = NoRecord \/ c[i] \in Entry(OutStates)
                      /\ c[i].state \in RelStates <=> t[i].state \in RelStates
                      /\ c[i].state \in PublishStates => c[i] = t[i]
    OBVIOUS
  <2>1. CASE t[i].id \notin sent
    BY <1>3, <1>6, <2>1
  <2>2. CASE t[i].id \in sent
    <3>1. c[i] = [t[i] EXCEPT !.state = "PubCompPending"] /\ t[i] \in Entry(OutStates)
          /\ t[i].state \in RelStates
      BY <1>3, <1>6, <2>2
    <3>2. c[i].id = t[i].id /\ c[i].state = "PubCompPending" /\ c[i] \in Entry(OutStates)
      BY <1>1, <3>1 DEF Entry
    <3> QED
      BY <1>1, <2>2, <3>1, <3>2
  <2> QED
    BY <2>1, <2>2
<1>8. DOMAIN c = 1 .. n
  BY <1>3
<1>9. IsTable(c, n, OutStates)
  <2>1. c \in [1 .. n -> {NoRecord} \cup Entry(OutStates)]
    BY <1>3, <1>7
  <2>2. \A i, j \in 1 .. n : c[i].id # 0 /\ c[i].id = c[j].id => i = j
    BY <1>7 DEF IsTable
  <2> QED
    BY <2>1, <2>2 DEF IsTable
<1>10. IdsOf(c) = IdsOf(t)
  BY <1>3, <1>7, <1>8 DEF IdsOf
<1>11. \A id \in IdsOf(t) : At(c, id) = IF id \in sent THEN [At(t, id) EXCEPT !.state = "PubCompPending"]
                                                       ELSE At(t, id)
  <2> SUFFICES ASSUME NEW id \in IdsOf(t)
               PROVE  At(c, id) = IF id \in sent THEN [At(t, id) EXCEPT !.state = "PubCompPending"]
                                                 ELSE At(t, id)
    OBVIOUS
  <2>1. PICK i \in 1 .. n : t[i].id = id /\ id # 0
    BY AtPlace
  <2>2. At(t, id) = t[i]
    BY <2>1, AtPlace
  <2>3. At(c, id) = c[i]
    <3>1. c[i].id = id /\ c[i].id # 0
      BY <1>7, <2>1
    <3>2. At(c, c[i].id) = c[i]
      <4> HIDE DEF At
      <4> QED
        BY ONLY <1>9, <3>1, AtPlace, i \in 1 .. n, n \in Nat \ {0}
    <3> QED
      BY <3>1, <3>2
  <2> QED
    BY <1>7, <2>1, <2>2, <2>3
<1>12. ASSUME NEW kept, PubsInOrder(t, kept)
       PROVE  PubsInOrder(c, kept)
  BY <1>3, <1>7, <1>8, <1>12 DEF PubsInOrder
<1>13. ASSUME NEW recs \in Seq(Ids), RelsInOrder(t, recs)
       PROVE  RelsInOrder(c, recs)
  <2>1. RelPlaces(c) = RelPlaces(t)
    BY <1>3, <1>7, <1>8 DEF RelPlaces
  <2>2. PICK h : RelsAlong(t, recs, h)
    BY <1>13 DEF RelsInOrder
  <2>3. \A k \in 1 .. Len(recs) : h[k] \in 1 .. n
    BY <1>3, <2>2 DEF RelsAlong, Enumerates, RelPlaces
  <2>4. RelsAlong(c, recs, h)
    BY <1>7, <2>1, <2>2, <2>3 DEF RelsAlong
  <2> QED
    BY <2>4 DEF RelsInOrder
<1>14. Resent(t, c, sent)
  <2>1. \A id \in IdsOf(t) : At(t, id) \in Entry(OutStates)
    BY <1>1, AtId
  <2> QED
    BY <1>5, <1>10, <1>11, <2>1 DEF Resent
<1> QED
  BY <1>5, <1>9, <1>12, <1>13, <1>14

(* The packets that a resumed connection begins with.                       *)
LEMMA RelPackets ==
    ASSUME NEW n \in Nat \ {0}, NEW t, IsTable(t, n, OutStates),
           NEW rels, rels = Picked(t, RelPlaces(t)),
           NEW sent, sent = FirstIds(rels, Len(rels)), NEW q, q = RelQueue(rels)
    PROVE  /\ q \in Seq(Packets) /\ Once(q, Requests) /\ Part(q, Answers) = {}
           /\ Part(q, Requests) = PubRels(sent)
<1> /\ sent = {rels[k].id : k \in 1 .. Len(rels)}
    /\ q = [k \in DOMAIN rels |-> Packet("PUBREL", rels[k].id)]
  BY DEF FirstIds, RelQueue
<1>1. "Null" \notin OutStates /\ RelStates \subseteq OutStates
  BY DEF OutStates, PublishStates, RelStates
<1>2. PICK g : /\ Len(rels) \in Nat /\ DOMAIN rels = 1 .. Len(rels)
               /\ Enumerates(g, Len(rels), RelPlaces(t))
               /\ \A k \in 1 .. Len(rels) : rels[k] = t[g[k]]
  BY Rels
<1>3. DOMAIN t = 1 .. n
  BY DEF IsTable
<1>4. \A k \in 1 .. Len(rels) : g[k] \in 1 .. n /\ rels[k].id = t[g[k]].id /\ rels[k].id # 0 /\ rels[k].id \in Ids
  <2> SUFFICES ASSUME NEW k \in 1 .. Len(rels)
               PROVE  g[k] \in 1 .. n /\ rels[k].id = t[g[k]].id /\ rels[k].id # 0 /\ rels[k].id \in Ids
    OBVIOUS
  <2>1. g[k] \in 1 .. n /\ t[g[k]].state \in RelStates
    BY <1>2, <1>3 DEF Enumerates, RelPlaces
  <2>2. t[g[k]].id # 0 /\ t[g[k]].id \in Ids
    BY <1>1, <2>1, InPlace
  <2> QED
    BY <1>2, <2>1, <2>2
<1>5. \A k, l \in 1 .. Len(rels) : rels[k].id = rels[l].id => k = l
  <2> SUFFICES ASSUME NEW k \in 1 .. Len(rels), NEW l \in 1 .. Len(rels), rels[k].id = rels[l].id
               PROVE  k = l
    OBVIOUS
  <2>1. g[k] = g[l]
    BY <1>4 DEF IsTable
  <2>2. /\ g[k] \in Nat /\ k \in Nat /\ l \in Nat
        /\ k < l => g[k] < g[l]
        /\ l < k => g[l] < g[k]
    BY <1>2, Visited
  <2> QED
    BY <2>1, <2>2
<1>6. \A id : /\ Packet("PUBREL", id).id = id /\ Packet("PUBREL", id).type = "PUBREL"
              /\ id \in Ids => Packet("PUBREL", id) \in Packets
  BY DEF Packet, Packets, Requests
<1>7. DOMAIN q = 1 .. Len(rels) /\ \A k \in 1 .. Len(rels) : q[k] = Packet("PUBREL", rels[k].id)
  BY <1>2
<1>8. q \in Seq(Packets)
  BY <1>2, <1>4, <1>6, <1>7
<1>9. Once(q, Requests)
  BY <1>5, <1>6, <1>7 DEF Once
<1>10. In(q) = {Packet("PUBREL", id) : id \in sent}
  BY <1>7 DEF In
<1>11. \A p \in In(q) : p.type = "PUBREL"
  BY <1>6, <1>10
<1> QED
  BY <1>8, <1>9, <1>10, <1>11 DEF Part, Requests, Answers, PubRels

-----------------------------------------------------------------------------
(* What the tables promise                                                  *)

LEMMA UsedCount ==
    ASSUME NEW n \in Nat \ {0}, NEW states, NEW t, IsTable(t, n, states)
    PROVE  Len(Used(t)) = Cardinality(IdsOf(t))
<1> DEFINE U == UsedPlaces(t)
           f == [i \in U |-> t[i].id]
<1>1. DOMAIN t = 1 .. n /\ U \subseteq 1 .. n
  BY DEF IsTable, UsedPlaces
<1>2. IsFiniteSet(U) /\ \A i \in U : i \in Nat
  <2>1. IsFiniteSet(1 .. n)
    BY FS_Interval
  <2> QED
    BY <1>1, <2>1, FS_Subset
<1>3. PICK g : Cardinality(U) \in Nat /\ Enumerates(g, Cardinality(U), U)
  BY <1>2, Enumerable
<1>4. Len(Used(t)) = Cardinality(U)
  <2>1. Len(Picked(t, U)) = Cardinality(U)
    BY <1>3, PickedAlong
  <2> QED
    BY <2>1 DEF Used, UsedPlaces
<1>5. IdsOf(t) = {t[i].id : i \in U}
  BY DEF IdsOf, UsedPlaces
<1>6. \A i, j \in U : t[i].id = t[j].id => i = j
  BY <1>1 DEF IsTable, UsedPlaces
<1>7. f \in Bijection(U, IdsOf(t))
  <2>1. f \in [U -> IdsOf(t)]
    BY <1>5
  <2>2. \A i, j \in U : f[i] = f[j] => i = j
    BY <1>6
  <2>3. \A x \in IdsOf(t) : \E i \in U : f[i] = x
    BY <1>5
  <2> QED
    BY <2>1, <2>2, <2>3 DEF Bijection, Injection, IsInjective, Surjection
<1>8. Cardinality(IdsOf(t)) = Cardinality(U)
  <2>1. ExistsBijection(U, IdsOf(t))
    BY <1>7 DEF ExistsBijection
  <2> QED
    BY <1>2, <2>1, FS_Bijection
<1> QED
  BY <1>4, <1>8

PubPlaces(t) == {i \in DOMAIN t : t[i].state \in PublishStates}
LEMMA PubsResent ==
    ASSUME NEW n \in Nat \ {0}, NEW t, IsTable(t, n, OutStates), NEW kept, PubsInOrder(t, kept),
           NEW pubs, pubs = Picked(t, PubPlaces(t))
    PROVE  \A j, k \in DOMAIN pubs : j < k => kept[pubs[j].id].msg > kept[pubs[k].id].msg
<1>1. DOMAIN t = 1 .. n /\ PubPlaces(t) \subseteq 1 .. n
  BY DEF IsTable, PubPlaces
<1>2. IsFiniteSet(PubPlaces(t)) /\ \A i \in PubPlaces(t) : i \in Nat
  <2>1. IsFiniteSet(1 .. n)
    BY FS_Interval
  <2> QED
    BY <1>1, <2>1, FS_Subset
<1>3. \E l, g : Enumerates(g, l, PubPlaces(t))
  BY <1>2, Enumerable
<1>4. PICK l, g : Enumerates(g, l, PubPlaces(t))
  BY <1>3
<1>5. DOMAIN pubs = 1 .. l /\ \A k \in 1 .. l : pubs[k] = t[g[k]]
  BY <1>4, PickedAlong
<1> SUFFICES ASSUME NEW j \in 1 .. l, NEW k \in 1 .. l, j < k
             PROVE  kept[pubs[j].id].msg > kept[pubs[k].id].msg
  BY <1>5
<1>6. g[j] \in PubPlaces(t) /\ g[k] \in PubPlaces(t) /\ g[j] < g[k]
  BY <1>4 DEF Enumerates
<1>7. /\ g[j] \in DOMAIN t /\ t[g[j]].state \in PublishStates
      /\ g[k] \in DOMAIN t /\ t[g[k]].state \in PublishStates
  BY <1>6 DEF PubPlaces
<1>8. pubs[j] = t[g[j]] /\ pubs[k] = t[g[k]]
  BY <1>5
<1> QED
  BY <1>6, <1>7, <1>8 DEF PubsInOrder

LEMMA RelsResent ==
    ASSUME NEW t, NEW recs \in Seq(Ids), RelsInOrder(t, recs),
           NEW rels, rels = Picked(t, RelPlaces(t))
    PROVE  [k \in DOMAIN rels |-> rels[k].id] = recs
<1>1. PICK g : /\ Enumerates(g, Len(recs), RelPlaces(t))
               /\ \A k \in 1 .. Len(recs) : t[g[k]].id = recs[k]
  BY DEF RelsInOrder, RelsAlong
<1>2. DOMAIN rels = 1 .. Len(recs) /\ \A k \in 1 .. Len(recs) : rels[k] = t[g[k]]
  BY <1>1, PickedAlong
<1>3. DOMAIN recs = 1 .. Len(recs) /\ recs = [k \in 1 .. Len(recs) |-> recs[k]]
  BY LenProperties
<1> QED
  BY <1>1, <1>2, <1>3

-----------------------------------------------------------------------------
(* The invariant is kept                                                    *)

LEMMA Fields ==
    ASSUME Typed
    PROVE  /\ app.nextId \in Ids /\ app.stage \in {"run", "resend"} /\ app.cursor \in Nat \ {0}
           /\ app.kept \in [Ids -> Messages]
           /\ link.up \in BOOLEAN /\ link.toBroker \in Seq(Packets) /\ link.toClient \in Seq(Packets)
           /\ broker.session \in BOOLEAN /\ broker.held \in SUBSET Ids /\ broker.flight \in Seq(Flights)
           /\ budget.out \in Nat /\ budget.in \in Nat
           /\ seen.delivered \in SUBSET Nat /\ seen.got \in SUBSET Nat /\ seen.finished \in SUBSET Nat
           /\ seen.acked \in SUBSET Nat /\ seen.repeated \in BOOLEAN /\ seen.recs \in Seq(Ids)
           /\ seen.sent \in SUBSET Ids /\ seen.mixed \in BOOLEAN
BY DEF Typed, Apps, Links, Brokers, Allowances, Histories

LEMMA StatesApart ==
    /\ "Null" \notin OutStates /\ "Null" \notin InStates
    /\ PublishStates \subseteq OutStates /\ RelStates \subseteq OutStates
    /\ PublishStates \cap RelStates = {}
BY DEF OutStates, InStates, PublishStates, RelStates

LEMMA Tables ==
    ASSUME Typed
    PROVE  /\ OutMax \in Nat \ {0} /\ InMax \in Nat \ {0}
           /\ IsTable(outgoing, OutMax, OutStates) /\ IsTable(incoming, InMax, InStates)
           /\ DOMAIN outgoing = 1 .. OutMax /\ DOMAIN incoming = 1 .. InMax
           /\ \A id \in IdsOf(outgoing) : /\ id \in Ids /\ At(outgoing, id) \in Entry(OutStates)
                                          /\ At(outgoing, id).id = id /\ At(outgoing, id).qos \in {1, 2}
                                          /\ At(outgoing, id).state \in OutStates
           /\ \A id \in IdsOf(incoming) : /\ id \in Ids /\ At(incoming, id) \in Entry(InStates)
                                          /\ At(incoming, id).id = id /\ At(incoming, id).qos \in {1, 2}
                                          /\ At(incoming, id).state \in InStates
<1>1. /\ OutMax \in Nat \ {0} /\ InMax \in Nat \ {0}
      /\ IsTable(outgoing, OutMax, OutStates) /\ IsTable(incoming, InMax, InStates)
  BY MqttAssumption DEF Typed
<1>2. DOMAIN outgoing = 1 .. OutMax /\ DOMAIN incoming = 1 .. InMax
  BY <1>1 DEF IsTable
<1>3. ASSUME NEW id \in IdsOf(outgoing)
      PROVE  /\ id \in Ids /\ At(outgoing, id) \in Entry(OutStates)
             /\ At(outgoing, id).id = id /\ At(outgoing, id).qos \in {1, 2}
             /\ At(outgoing, id).state \in OutStates
  BY <1>1, StatesApart, AtId
<1>4. ASSUME NEW id \in IdsOf(incoming)
      PROVE  /\ id \in Ids /\ At(incoming, id) \in Entry(InStates)
             /\ At(incoming, id).id = id /\ At(incoming, id).qos \in {1, 2}
             /\ At(incoming, id).state \in InStates
  BY <1>1, StatesApart, AtId
<1> QED
  BY <1>1, <1>2, <1>3, <1>4

(* A step that does not touch one direction.                                *)
LEMMA InStays ==
    ASSUME InExchanges, incoming' = incoming, broker'.flight = broker.flight,
           broker'.session = broker.session, seen'.got = seen.got, budget'.in = budget.in,
           link'.up => /\ link.up
                       /\ Orderly(link.toClient, link.toBroker) => Orderly(link'.toClient, link'.toBroker)
                       /\ Orderly(link.toClient, link.toBroker) =>
                            Stream(link'.toClient, link'.toBroker) = Stream(link.toClient, link.toBroker)
    PROVE  InExchanges'
BY DEF InExchanges

LEMMA OutStays ==
    ASSUME OutExchanges, outgoing' = outgoing, app'.kept = app.kept, budget'.out = budget.out,
           broker'.held = broker.held, broker'.session = broker.session,
           seen'.delivered = seen.delivered, seen'.sent = seen.sent,
           app'.stage = "resend" => app.stage = "resend" /\ app'.cursor = app.cursor,
           link'.up => /\ link.up
                       /\ Orderly(link.toBroker, link.toClient) => Orderly(link'.toBroker, link'.toClient)
                       /\ Orderly(link.toBroker, link.toClient) =>
                            Stream(link'.toBroker, link'.toClient) = Stream(link.toBroker, link.toClient)
    PROVE  OutExchanges'
BY DEF OutExchanges

(* A link that is given up, or that goes on with packets.                   *)
LEMMA LinkKinds ==
    /\ NoLink \in Links
    /\ NoLink.up = FALSE /\ NoLink.toBroker = <<>> /\ NoLink.toClient = <<>>
    /\ \A l \in Links, p \in Packets :
          /\ Sending(l, p) \in Links
          /\ Sending(l, p).up = l.up /\ Sending(l, p).toClient = l.toClient
          /\ Sending(l, p).toBroker = Append(l.toBroker, p)
<1>1. <<>> \in Seq(Packets)
  OBVIOUS
<1>2. \A q \in Seq(Packets), p \in Packets : Append(q, p) \in Seq(Packets)
  OBVIOUS
<1> QED
  BY <1>1, <1>2 DEF NoLink, Sending, Links

(* The order of the publishes depends on the messages of the records only.  *)
LEMMA PubsSame ==
    ASSUME NEW n \in Nat \ {0}, NEW t, IsTable(t, n, OutStates), NEW kept, NEW kk,
           PubsInOrder(t, kept), \A x \in IdsOf(t) : kk[x] = kept[x]
    PROVE  PubsInOrder(t, kk)
<1>1. DOMAIN t = 1 .. n
  BY DEF IsTable
<1>2. ASSUME NEW i \in 1 .. n, t[i].state \in PublishStates
      PROVE  t[i].id \in IdsOf(t)
  <2>1. t[i].id # 0
    BY <1>2, StatesApart, InPlace
  <2> QED
    BY <2>1, AtPlace
<1> QED
  BY <1>1, <1>2 DEF PubsInOrder

(* A message of the table is sent.                                          *)
LEMMA SendingPublish ==
    ASSUME NEW n \in Nat \ {0}, NEW c, IsTable(c, n, OutStates), NEW kept \in [Ids -> Messages], NEW out,
           KeptRight(c, kept, out), PubsInOrder(c, kept), NEW recs \in Seq(Ids), RelsInOrder(c, recs),
           NEW id \in IdsOf(c), At(c, id).state \in PublishStates, NEW m, m = kept[id],
           NEW d, d = AfterPublish(c, id, m.qos)
    PROVE  /\ IsTable(d, n, OutStates)
           /\ KeptRight(d, kept, out) /\ PubsInOrder(d, kept) /\ RelsInOrder(d, recs)
           /\ DOMAIN d = DOMAIN c /\ \A i \in DOMAIN c : d[i].id = c[i].id /\ (c[i].id # id => d[i] = c[i])
           /\ PublishPacket(id, m) \in Packets /\ id \in Ids
           /\ PublishPacket(id, m).type = "PUBLISH" /\ PublishPacket(id, m).id = id
           /\ Restated(c, d, id, SentState(m.qos)) /\ At(c, id) \in Entry(OutStates) /\ At(c, id).qos \in {1, 2}
<1>1. /\ id \in Ids /\ At(c, id) \in Entry(OutStates) /\ At(c, id).qos \in {1, 2}
  BY StatesApart, AtId
<1>2. /\ m \in Messages /\ m.qos = At(c, id).qos
      /\ At(c, id).state = "PubAckPending" => m.qos = 1
      /\ At(c, id).state = "PubRecPending" => m.qos = 2
  BY <1>1 DEF KeptRight
<1>3. /\ IsTable(d, n, OutStates)
      /\ Restated(c, d, id, SentState(m.qos))
      /\ PubsInOrder(d, kept) /\ RelsInOrder(d, recs)
      /\ DOMAIN d = DOMAIN c /\ \A i \in DOMAIN c : c[i].id # id => d[i] = c[i]
      /\ \A i \in DOMAIN c : d[i].id = c[i].id
  BY <1>2, AfterSending
<1>4. PublishPacket(id, m) \in Packets /\ PublishPacket(id, m).type = "PUBLISH" /\ PublishPacket(id, m).id = id
  BY <1>1, <1>2 DEF PublishPacket, Packets, Messages, Requests
<1>5. KeptRight(d, kept, out)
  BY ONLY <1>1, <1>3, OutSent, kept \in [Ids -> Messages], m = kept[id], KeptRight(c, kept, out), id \in IdsOf(c),
          At(c, id).state \in PublishStates
<1>6. \A i \in DOMAIN c : d[i].id = c[i].id /\ (c[i].id # id => d[i] = c[i])
  BY <1>3
<1> QED
  BY <1>1, <1>3, <1>4, <1>5, <1>6

(* Nothing depends on the places of the records, nor on messages to come.   *)
LEMMA OutSame ==
    ASSUME NEW t, NEW c, IdsOf(c) = IdsOf(t), \A id : At(c, id) = At(t, id), NEW kept, NEW out
    PROVE  /\ KeptRight(t, kept, out) => KeptRight(c, kept, out)
           /\ \A held, delivered, session :
                OutAgreed(t, kept, out, held, delivered, session) =>
                    OutAgreed(c, kept, out, held, delivered, session)
           /\ \A held, delivered, sent, packets :
                OutPackets(t, kept, held, delivered, sent, packets) =>
                    OutPackets(c, kept, held, delivered, sent, packets)
BY DEF KeptRight, OutAgreed, OutPackets, OutRight

LEMMA OutLower ==
    ASSUME NEW t, NEW kept \in [Ids -> Messages], NEW out, out \in Nat, NEW held, NEW delivered,
           \A x \in IdsOf(t) : x \in Ids, delivered \subseteq Nat, NEW session
    PROVE  /\ KeptRight(t, kept, out) => KeptRight(t, kept, out - 1)
           /\ OutAgreed(t, kept, out, held, delivered, session) =>
                OutAgreed(t, kept, out - 1, held, delivered, session)
<1>1. \A x \in IdsOf(t) : kept[x].msg \in Nat
  BY DEF Messages
<1>2. \A x \in Nat : x > out => x > out - 1
  OBVIOUS
<1>3. KeptRight(t, kept, out) => KeptRight(t, kept, out - 1)
  BY <1>1, <1>2 DEF KeptRight
<1>4. OutAgreed(t, kept, out, held, delivered, session) =>
                OutAgreed(t, kept, out - 1, held, delivered, session)
  BY <1>2 DEF OutAgreed
<1> QED
  BY <1>3, <1>4

-----------------------------------------------------------------------------
(* The steps keep the invariant                                             *)

LEMMA Keeping ==
    ASSUME ExchangeInv, Typed', Linked', KeptRight(outgoing', app'.kept, budget'.out),
           PubsInOrder(outgoing', app'.kept), RelsInOrder(outgoing', seen'.recs),
           ~seen'.mixed => ~seen.mixed,
           ~seen.mixed /\ OutExchanges /\ InExchanges /\ Promised =>
                OutExchanges' /\ InExchanges' /\ Promised'
    PROVE  ExchangeInv'
BY DEF ExchangeInv, Structure, Ordered

LEMMA Splitting ==
    ASSUME ExchangeInv
    PROVE  /\ Typed /\ Linked /\ KeptRight(outgoing, app.kept, budget.out)
           /\ PubsInOrder(outgoing, app.kept) /\ RelsInOrder(outgoing, seen.recs)
BY DEF ExchangeInv, Structure, Ordered

(* A message is taken but not sent, sent, or refused.                       *)
LEMMA StepPublish ==
    ASSUME ExchangeInv, NEW qos \in {1, 2}, Publish(qos)
    PROVE  ExchangeInv'
<1> DEFINE id == app.nextId
           out == budget.out
           m == [qos |-> qos, msg |-> out]
           e == Record(id, qos, "PublishSend")
           r == Added(outgoing, e)
           p == PublishPacket(id, m)
           kk == [app.kept EXCEPT ![id] = m]
           d == AfterPublish(r.table, id, qos)
           S == Stream(link.toBroker, link.toClient)
<1>1. /\ Typed /\ Linked /\ KeptRight(outgoing, app.kept, out)
      /\ PubsInOrder(outgoing, app.kept) /\ RelsInOrder(outgoing, seen.recs)
  BY Splitting
<1>2. /\ app.stage = "run" /\ out > 0 /\ budget' = [budget EXCEPT !.out = @ - 1]
      /\ app' = [app EXCEPT !.nextId = (id % MaxId) + 1,
                            !.kept[id] = IF r.status = "Success" THEN m ELSE @]
      /\ \/ /\ r.status = "Success" /\ link.up /\ link' = Sending(link, p) /\ outgoing' = d
            /\ seen' = [seen EXCEPT !.sent = @ \cup {id}]
         \/ r.status = "Success" /\ link' = NoLink /\ outgoing' = r.table /\ seen' = seen
         \/ r.status # "Success" /\ outgoing' = r.table /\ link' = link /\ seen' = seen
      /\ incoming' = incoming /\ broker' = broker
  BY DEF Publish, PublishSent
<1>3. /\ e \in Entry(OutStates) /\ id \in Ids
      /\ IsTable(outgoing, OutMax, OutStates) /\ OutMax \in Nat \ {0}
      /\ app.kept \in [Ids -> Messages] /\ out \in Nat /\ seen.recs \in Seq(Ids)
  BY <1>1, Fields, Tables DEF Record, Entry, OutStates, PublishStates
<1>4. /\ IsTable(r.table, OutMax, OutStates)
      /\ r.status # "Success" => Agree(outgoing, r.table)
      /\ r.status = "Success" => id \notin IdsOf(outgoing) /\ Extended(outgoing, r.table, e)
  <2>1. e.id = id
    BY DEF Record
  <2> HIDE DEF e
  <2> QED
    BY <1>3, <2>1, StatesApart, Adding
<1>5. kk \in [Ids -> Messages] /\ kk[id] = m
  BY <1>3 DEF Messages
<1>6. /\ budget' \in Allowances /\ budget'.out = out - 1 /\ budget'.in = budget.in
      /\ out \in Nat /\ out > 0 /\ out - 1 \in Nat
  <2>1. budget \in Allowances /\ out - 1 \in Nat
    BY <1>1, <1>2, <1>3 DEF Typed
  <2> QED
    BY <1>2, <1>3, <2>1 DEF Allowances
<1>7. /\ app' \in Apps /\ app'.stage = "run"
      /\ r.status = "Success" => app'.kept = kk
      /\ r.status # "Success" => app'.kept = app.kept
  <2>1. (id % MaxId) + 1 \in Ids
    BY <1>3, MqttAssumption DEF Ids
  <2>2. app \in Apps
    BY <1>1 DEF Typed
  <2>3. CASE r.status = "Success"
    <3>1. app' = [app EXCEPT !.nextId = (id % MaxId) + 1, !.kept = kk]
      BY <1>2, <2>2, <2>3 DEF Apps
    <3> HIDE DEF kk, r
    <3> QED
      BY <1>2, <1>5, <2>1, <2>2, <2>3, <3>1 DEF Apps
  <2>4. CASE r.status # "Success"
    <3>1. app' = [app EXCEPT !.nextId = (id % MaxId) + 1]
      BY <1>2, <2>2, <2>4 DEF Apps
    <3> HIDE DEF kk, r
    <3> QED
      BY <1>2, <1>5, <2>1, <2>2, <2>4, <3>1 DEF Apps
  <2> QED
    BY <2>3, <2>4
<1>8. /\ \A x \in IdsOf(outgoing) : x \in Ids
      /\ seen.delivered \subseteq Nat /\ link \in Links /\ seen \in Histories
  BY <1>1, Tables, Fields DEF Typed
<1> HIDE DEF m, r, e, p, kk, d
<1>9. CASE r.status # "Success"
  <2>1. /\ Agree(outgoing, outgoing') /\ link' = link /\ seen' = seen /\ app'.kept = app.kept
        /\ outgoing' = r.table /\ app'.stage = "run"
    BY <1>2, <1>4, <1>7, <1>9
  <2>2. IdsOf(outgoing') = IdsOf(outgoing) /\ \A x : At(outgoing', x) = At(outgoing, x)
    BY <2>1 DEF Agree
  <2>3. KeptRight(outgoing, app.kept, out - 1)
    BY <1>1, <1>3, <1>8, OutLower
  <2>4. KeptRight(outgoing', app'.kept, budget'.out)
    BY <1>6, <2>1, <2>2, <2>3, OutSame
  <2>5. PubsInOrder(outgoing', app'.kept) /\ RelsInOrder(outgoing', seen'.recs)
    BY <1>1, <1>3, <2>1 DEF Agree
  <2>6. Typed' /\ Linked'
    BY <1>1, <1>2, <1>4, <1>6, <1>7, <2>1 DEF Typed, Linked
  <2>7. ASSUME OutExchanges, InExchanges, Promised
        PROVE  OutExchanges' /\ InExchanges' /\ Promised'
    <3>1. OutAgreed(outgoing, app.kept, out, broker.held, seen.delivered, broker.session)
      BY <2>7 DEF OutExchanges
    <3>2. OutAgreed(outgoing, app.kept, out - 1, broker.held, seen.delivered, broker.session)
      BY <1>3, <1>8, <3>1, OutLower
    <3>3. OutAgreed(outgoing', app.kept, out - 1, broker.held, seen.delivered, broker.session)
      BY ONLY <2>2, <3>2, OutSame
    <3>4. OutPackets(outgoing, app.kept, broker.held, seen.delivered, seen.sent, S) =>
            OutPackets(outgoing', app.kept, broker.held, seen.delivered, seen.sent, S)
      BY ONLY <2>2, OutSame
    <3>5. OutExchanges'
      BY <1>2, <1>6, <2>1, <2>7, <3>3, <3>4 DEF OutExchanges
    <3>6. InExchanges'
      BY <1>2, <1>6, <2>1, <2>7, InStays
    <3> QED
      BY <2>1, <2>7, <3>5, <3>6 DEF Promised
  <2> QED
    BY <2>1, <2>4, <2>5, <2>6, <2>7, Keeping
<1>10. CASE r.status = "Success"
  <2>1. /\ id \notin IdsOf(outgoing) /\ Changed(outgoing, r.table, id, e)
        /\ KeptRight(r.table, kk, out - 1) /\ PubsInOrder(r.table, kk)
        /\ RelsInOrder(r.table, seen.recs)
    <3>1. id \notin IdsOf(outgoing) /\ Extended(outgoing, r.table, e)
      BY <1>4, <1>10
    <3>2. e.id = id /\ e.state = "PublishSend" /\ e.state \notin RelStates
      BY DEF e, Record, RelStates
    <3>3. Changed(outgoing, r.table, id, e)
      BY <3>1, <3>2 DEF Extended, Changed
    <3>4. KeptRight(r.table, kk, out - 1) /\ \A x \in IdsOf(outgoing) : kk[x] = app.kept[x] /\ kk[x].msg > kk[id].msg
      <4>1. /\ kk = [app.kept EXCEPT ![id] = [qos |-> qos, msg |-> out]] /\ qos \in {1, 2}
            /\ Changed(outgoing, r.table, id, Record(id, qos, "PublishSend"))
        BY <3>3 DEF kk, m, e
      <4> HIDE DEF id, out
      <4> QED
        BY ONLY <1>1, <1>3, <1>6, <1>8, <3>1, <4>1, OutPosted
    <3>5. PubsInOrder(outgoing, kk)
      BY <1>1, <1>3, <3>4, PubsSame
    <3>6. LastPublish(outgoing, e, kk)
      BY <3>2, <3>4 DEF LastPublish
    <3> QED
      BY <1>1, <1>3, <3>1, <3>2, <3>3, <3>4, <3>5, <3>6 DEF Extended
  <2>2. app'.kept = kk
    BY <1>7, <1>10
  <2>3. /\ id \in IdsOf(r.table) /\ At(r.table, id).state \in PublishStates /\ m.qos = qos
    BY <2>1 DEF Changed, e, Record, PublishStates, m
  <2>4. ASSUME OutExchanges
        PROVE  /\ OutAgreed(r.table, kk, out - 1, broker.held, seen.delivered, broker.session)
               /\ link.up => /\ OutPackets(r.table, kk, broker.held, seen.delivered, seen.sent, S)
                             /\ id \notin seen.sent
    <3>1. /\ kk = [app.kept EXCEPT ![id] = [qos |-> qos, msg |-> out]]
          /\ Changed(outgoing, r.table, id, Record(id, qos, "PublishSend"))
          /\ OutAgreed(outgoing, app.kept, out, broker.held, seen.delivered, broker.session)
      BY <2>1, <2>4 DEF kk, m, e, OutExchanges
    <3>2. OutAgreed(r.table, kk, out - 1, broker.held, seen.delivered, broker.session)
      <4> HIDE DEF id, out
      <4>1. qos \in {1, 2}
        OBVIOUS
      <4> QED
        BY ONLY <1>1, <1>3, <1>6, <1>8, <2>1, <3>1, <4>1, OutPostedAgreed
    <3>4. ASSUME OutPackets(outgoing, app.kept, broker.held, seen.delivered, seen.sent, S)
          PROVE  OutPackets(r.table, kk, broker.held, seen.delivered, seen.sent, S)
      <4> HIDE DEF id, out, S
      <4>1. qos \in {1, 2}
        OBVIOUS
      <4> QED
        BY ONLY <1>1, <1>3, <1>6, <1>8, <2>1, <3>1, <3>4, <4>1, OutPostedPackets
    <3>3. link.up => id \notin seen.sent
      BY <2>1, <2>4 DEF OutExchanges, OutPackets, OutRight, IdsIn
    <3> QED
      BY <2>4, <3>2, <3>3, <3>4 DEF OutExchanges
  <2>5. CASE link' = NoLink /\ outgoing' = r.table /\ seen' = seen
    <3>1. Typed' /\ Linked'
      BY <1>1, <1>2, <1>4, <1>6, <1>7, <2>5, LinkKinds DEF Typed, Linked
    <3>2. /\ KeptRight(outgoing', app'.kept, budget'.out)
          /\ PubsInOrder(outgoing', app'.kept) /\ RelsInOrder(outgoing', seen'.recs)
      BY <1>6, <2>1, <2>2, <2>5
    <3>3. ASSUME OutExchanges, InExchanges, Promised
          PROVE  OutExchanges' /\ InExchanges' /\ Promised'
      <4>1. link'.up = FALSE
        BY <2>5, LinkKinds
      <4>2. OutExchanges'
        BY <1>2, <1>6, <2>2, <2>4, <2>5, <3>3, <4>1 DEF OutExchanges
      <4>3. InExchanges'
        BY <1>2, <1>6, <2>5, <3>3, <4>1, InStays
      <4> QED
        BY <2>5, <3>3, <4>2, <4>3 DEF Promised
    <3> QED
      BY <2>5, <3>1, <3>2, <3>3, Keeping
  <2>6. CASE /\ link.up /\ link' = Sending(link, p) /\ outgoing' = d
             /\ seen' = [seen EXCEPT !.sent = @ \cup {id}]
    <3>1. /\ IsTable(d, OutMax, OutStates)
          /\ KeptRight(d, kk, out - 1) /\ PubsInOrder(d, kk) /\ RelsInOrder(d, seen.recs)
          /\ p \in Packets /\ p.type = "PUBLISH" /\ p.id = id
          /\ OutAgreed(r.table, kk, out - 1, broker.held, seen.delivered, broker.session) =>
                OutAgreed(d, kk, out - 1, broker.held, seen.delivered, broker.session)
          /\ OutPackets(r.table, kk, broker.held, seen.delivered, seen.sent, S) /\ id \notin seen.sent =>
                /\ OutPackets(d, kk, broker.held, seen.delivered, seen.sent \cup {id}, S \cup {p})
                /\ \A q \in S : q.id # id
      <4> DEFINE o == out - 1
      <4>1. d = AfterPublish(r.table, id, m.qos) /\ p = PublishPacket(id, m) /\ m = kk[id]
        BY <1>5, <2>3 DEF d, p
      <4>2. KeptRight(r.table, kk, o)
        BY <2>1
      <4> HIDE DEF id, out, S, o
      <4>3. /\ IsTable(d, OutMax, OutStates)
            /\ KeptRight(d, kk, o) /\ PubsInOrder(d, kk) /\ RelsInOrder(d, seen.recs)
            /\ p \in Packets /\ p.type = "PUBLISH" /\ p.id = id
            /\ Restated(r.table, d, id, SentState(m.qos))
            /\ At(r.table, id) \in Entry(OutStates) /\ At(r.table, id).qos \in {1, 2}
        BY ONLY <1>3, <1>4, <1>5, <2>1, <2>3, <4>1, <4>2, SendingPublish
      <4>4. ASSUME OutAgreed(r.table, kk, o, broker.held, seen.delivered, broker.session)
            PROVE  OutAgreed(d, kk, o, broker.held, seen.delivered, broker.session)
        BY ONLY <1>5, <2>3, <4>1, <4>2, <4>3, <4>4, OutSentAgreed
      <4>5. ASSUME OutPackets(r.table, kk, broker.held, seen.delivered, seen.sent, S), id \notin seen.sent
            PROVE  /\ OutPackets(d, kk, broker.held, seen.delivered, seen.sent \cup {id}, S \cup {p})
                   /\ \A q \in S : q.id # id
        <5>1. OutPackets(d, kk, broker.held, seen.delivered, seen.sent \cup {id}, S \cup {PublishPacket(id, m)})
          BY ONLY <1>5, <2>3, <4>1, <4>2, <4>3, <4>5, OutSentPackets
        <5>2. \A q \in S : q.id # id
          BY <4>5 DEF OutPackets, IdsIn
        <5> QED
          BY <4>1, <5>1, <5>2
      <4> QED
        BY <4>3, <4>4, <4>5 DEF o
    <3>2. /\ link'.up /\ link'.toBroker = Append(link.toBroker, p) /\ link'.toClient = link.toClient
          /\ link' \in Links
      BY <1>8, <2>6, <3>1, LinkKinds
    <3>3. /\ seen'.sent = seen.sent \cup {id} /\ seen'.delivered = seen.delivered /\ seen'.got = seen.got
          /\ seen'.finished = seen.finished /\ seen'.acked = seen.acked /\ seen'.repeated = seen.repeated
          /\ seen'.recs = seen.recs /\ seen'.mixed = seen.mixed /\ seen' \in Histories
      BY <1>3, <1>8, <2>6 DEF Histories
    <3>4. Typed' /\ Linked'
      BY <1>1, <1>2, <1>6, <1>7, <2>6, <3>1, <3>2, <3>3 DEF Typed, Linked
    <3>5. /\ KeptRight(outgoing', app'.kept, budget'.out)
          /\ PubsInOrder(outgoing', app'.kept) /\ RelsInOrder(outgoing', seen'.recs)
      BY <1>6, <2>2, <2>6, <3>1, <3>3
    <3>6. ASSUME OutExchanges, InExchanges, Promised
          PROVE  OutExchanges' /\ InExchanges' /\ Promised'
      <4>1. /\ Orderly(link.toBroker, link.toClient) /\ Orderly(link.toClient, link.toBroker)
            /\ link.toBroker \in Seq(Packets) /\ link.toClient \in Seq(Packets)
        BY <1>1, <2>6, <3>6, Fields DEF OutExchanges, InExchanges
      <4>2. p.type \in Requests /\ p.type \notin Answers /\ \A q \in S : q.id # p.id
        BY <2>4, <2>6, <3>1, <3>6 DEF Requests, Answers
      <4>3. /\ Orderly(link'.toBroker, link'.toClient)
            /\ Stream(link'.toBroker, link'.toClient) = S \cup {p}
        BY <3>1, <3>2, <4>1, <4>2, Sent
      <4>4. OutExchanges'
        BY <1>2, <1>6, <1>7, <2>2, <2>4, <2>6, <3>1, <3>2, <3>3, <3>6, <4>3 DEF OutExchanges
      <4>5. /\ Orderly(link'.toClient, link'.toBroker)
            /\ Stream(link'.toClient, link'.toBroker) = Stream(link.toClient, link.toBroker)
        BY <3>1, <3>2, <4>1, <4>2, Sent
      <4>6. InExchanges'
        BY <1>2, <1>6, <2>6, <3>3, <3>6, <4>5, InStays
      <4> QED
        BY <3>3, <3>6, <4>4, <4>6 DEF Promised
    <3> QED
      BY <3>3, <3>4, <3>5, <3>6, Keeping
  <2> QED
    BY <1>2, <1>10, <2>5, <2>6
<1> QED
  BY <1>9, <1>10

(* stateSelect finds the first place from the cursor.                       *)
LEMMA Selecting ==
    ASSUME NEW n \in Nat \ {0}, NEW t, IsTable(t, n, OutStates), NEW from \in Nat \ {0},
           NEW i, i = Selected(t, from, PublishStates), i # 0
    PROVE  i \in 1 .. n /\ i >= from /\ t[i].state \in PublishStates
<1> DEFINE found == {k \in from .. Len(t) : t[k].state \in PublishStates}
<1>1. Len(t) = n
  BY DEF IsTable
<1>2. found # {} /\ i = CHOOSE f \in found : \A g \in found : f <= g
  BY DEF Selected
<1>3. found \in SUBSET Nat
  BY <1>1
<1>4. \A f \in found : f \in 1 .. n /\ f >= from /\ t[f].state \in PublishStates
  BY <1>1
<1> HIDE DEF found
<1>5. \E f \in found : \A g \in found : f <= g
  <2>1. IsFiniteSet(found)
    <3>1. IsFiniteSet(1 .. n)
      BY FS_Interval
    <3>2. found \in SUBSET (1 .. n)
      BY <1>4
    <3> QED
      BY <3>1, <3>2, FS_Subset
  <2>2. PICK e : Cardinality(found) \in Nat /\ Enumerates(e, Cardinality(found), found)
    <3>1. \A x \in found : x \in Nat
      BY <1>3
    <3> QED
      BY <2>1, <3>1, Enumerable
  <2> DEFINE m == Cardinality(found)
  <2>3. m # 0
    BY <1>2, <2>2 DEF Enumerates
  <2>4. 1 \in 1 .. m /\ e[1] \in found /\ e[1] \in Nat
    BY <2>2, <2>3, Visited
  <2>5. ASSUME NEW j \in found
        PROVE  e[1] <= j
    <3>1. PICK k \in 1 .. m : e[k] = j
      BY <2>2 DEF Enumerates
    <3>2. k = 1 \/ 1 < k
      BY <2>2
    <3>3. 1 < k => e[1] < e[k]
      BY <2>2, <2>4, Visited
    <3>4. j \in Nat
      BY <1>3
    <3> QED
      BY <2>4, <3>1, <3>2, <3>3, <3>4
  <2> QED
    BY <2>4, <2>5
<1>6. i \in found
  BY <1>2, <1>5
<1> QED
  BY <1>4, <1>6

(* c and d differ in the record of id only.                                 *)
SameBut(c, d, id) ==
    DOMAIN d = DOMAIN c /\ \A k \in DOMAIN c : d[k].id = c[k].id /\ (c[k].id # id => d[k] = c[k])
(* What is still to be resent, behind the message that is sent.             *)
LEMMA StillToSend ==
    ASSUME NEW n, n \in Nat \ {0}, NEW t, IsTable(t, n, OutStates),
           NEW cursor, cursor \in Nat \ {0}, NEW sent,
           NotYetSent(t, cursor, sent), 0 \notin sent,
           NEW i, i \in 1 .. n, i >= cursor, t[i].state \in PublishStates,
           NEW c, DOMAIN c = 1 .. n, Forward(t, c),
           NEW id, id = t[i].id, NEW d, SameBut(c, d, id), NEW next, next \in Nat, next > i
    PROVE  NotYetSent(d, next, sent \cup {id})
<1>1. DOMAIN t = 1 .. n
  BY DEF IsTable
<1>2. t[i].id \notin sent /\ t[i].id # 0
  <2>1. t[i].id # 0
    BY StatesApart, InPlace
  <2> QED
    BY <1>1, <2>1 DEF NotYetSent
<1> DOMAIN d = 1 .. n /\ \A k \in 1 .. n : d[k].id = c[k].id /\ (c[k].id # t[i].id => d[k] = c[k])
  BY DEF SameBut
<1>3. ASSUME NEW k \in 1 .. n, k >= next, d[k].state \in PublishStates
      PROVE  d[k].id \notin sent \cup {t[i].id}
  <2>1. CASE c[k].id = 0
    <3>1. t[i].id # 0 /\ d[k] = c[k]
      BY <1>2, <2>1
    <3> QED
      BY <1>2, <1>3, <2>1, <3>1
  <2>2. CASE c[k].id # 0
    <3>1. PICK j \in 1 .. n : j >= k /\ c[k] = t[j]
      BY <1>1, <2>2 DEF Forward
    <3>2. j # i /\ j >= cursor
      BY <1>3, <3>1
    <3>3. t[j].id # t[i].id
      BY <1>2, <3>2 DEF IsTable
    <3>4. d[k] = t[j]
      BY <3>1, <3>3
    <3>5. t[j].id \notin sent
      BY <1>1, <1>3, <3>2, <3>4 DEF NotYetSent
    <3> QED
      BY <3>3, <3>4, <3>5
  <2> QED
    BY <2>1, <2>2
<1> QED
  BY <1>2, <1>3 DEF NotYetSent

(* The loop over the publishes ends, sends a message again, or gives up.    *)
LEMMA StepResend ==
    ASSUME ExchangeInv, Resend
    PROVE  ExchangeInv'
<1> DEFINE i == Selected(outgoing, app.cursor, PublishStates)
           id == outgoing[i].id
           out == budget.out
           kept == app.kept
           m == kept[id]
           e == Record(id, outgoing[i].qos, "PublishSend")
           r == Added(outgoing, e)
           p == PublishPacket(id, m)
           d == AfterPublish(r.table, id, m.qos)
           S == Stream(link.toBroker, link.toClient)
<1>1. /\ Typed /\ Linked /\ KeptRight(outgoing, kept, out)
      /\ PubsInOrder(outgoing, kept) /\ RelsInOrder(outgoing, seen.recs)
  BY Splitting
<1>2. /\ app.stage = "resend"
      /\ \/ i = 0 /\ app' = [app EXCEPT !.stage = "run"]
            /\ outgoing' = outgoing /\ link' = link /\ seen' = seen
         \/ /\ i # 0
            /\ \/ /\ link.up /\ link' = Sending(link, p) /\ outgoing' = d
                  /\ seen' = [seen EXCEPT !.sent = @ \cup {id}]
               \/ link' = NoLink /\ outgoing' = r.table /\ seen' = seen
            /\ app' = [app EXCEPT !.cursor = i + 1, !.stage = IF link'.up THEN @ ELSE "run"]
      /\ incoming' = incoming /\ broker' = broker /\ budget' = budget
  BY DEF Resend, PublishSent
<1>3. /\ IsTable(outgoing, OutMax, OutStates) /\ OutMax \in Nat \ {0} /\ DOMAIN outgoing = 1 .. OutMax
      /\ kept \in [Ids -> Messages] /\ out \in Nat /\ seen.recs \in Seq(Ids)
      /\ \A x \in IdsOf(outgoing) : x \in Ids
      /\ app \in Apps /\ link \in Links /\ seen \in Histories
      /\ app.cursor \in Nat \ {0} /\ seen.sent \in SUBSET Ids
  BY <1>1, Fields, Tables DEF Typed
<1> HIDE DEF i
<1>4. CASE i = 0
  <2>1. /\ outgoing' = outgoing /\ link' = link /\ seen' = seen
        /\ app' \in Apps /\ app'.kept = kept /\ app'.stage = "run"
    BY <1>2, <1>3, <1>4 DEF Apps
  <2>2. Typed' /\ Linked'
    BY <1>1, <1>2, <2>1 DEF Typed, Linked
  <2>3. ASSUME OutExchanges, InExchanges, Promised
        PROVE  OutExchanges' /\ InExchanges' /\ Promised'
    <3>1. OutExchanges'
      BY <1>2, <2>1, <2>3, OutStays
    <3>2. InExchanges'
      BY <1>2, <2>1, <2>3, InStays
    <3> QED
      BY <2>1, <2>3, <3>1, <3>2 DEF Promised
  <2> QED
    BY <1>1, <1>2, <2>1, <2>2, <2>3, Keeping
<1>5. CASE i # 0
  <2>1. i \in 1 .. OutMax /\ i >= app.cursor /\ outgoing[i].state \in PublishStates
    BY <1>3, <1>5, Selecting DEF i
  <2>2. /\ id \in IdsOf(outgoing) /\ id \in Ids /\ At(outgoing, id) = outgoing[i]
        /\ outgoing[i].qos \in {1, 2}
    <3>1. outgoing[i].id # 0 /\ outgoing[i].qos \in {1, 2}
      BY <1>3, <2>1, StatesApart, InPlace
    <3> QED
      BY <1>3, <2>1, <3>1, AtPlace
  <2> HIDE DEF id
  <2>3. /\ IsTable(r.table, OutMax, OutStates) /\ r.status # "Success" /\ Agree(outgoing, r.table)
        /\ Forward(outgoing, r.table)
    <3>1. e \in Entry(OutStates) /\ e.id = id
      BY <2>2 DEF Record, Entry, OutStates, PublishStates
    <3> HIDE DEF e
    <3>2. IsTable(r.table, OutMax, OutStates) /\ r.status # "Success" /\ Agree(outgoing, r.table)
      BY <1>3, <2>2, <3>1, StatesApart, Adding
    <3> QED
      BY <1>3, <3>2, StatesApart, AddingForward
  <2>4. IdsOf(r.table) = IdsOf(outgoing) /\ \A x : At(r.table, x) = At(outgoing, x)
    BY <2>3 DEF Agree
  <2>5. /\ id \in IdsOf(r.table) /\ At(r.table, id).state \in PublishStates
        /\ KeptRight(r.table, kept, out)
        /\ PubsInOrder(r.table, kept) /\ RelsInOrder(r.table, seen.recs)
    <3>1. KeptRight(r.table, kept, out)
      BY ONLY <1>1, <2>4, OutSame
    <3> QED
      BY <1>1, <1>3, <2>1, <2>2, <2>3, <2>4, <3>1 DEF Agree
  <2>6. ASSUME OutExchanges
        PROVE  /\ OutAgreed(r.table, kept, out, broker.held, seen.delivered, broker.session)
               /\ link.up => OutPackets(r.table, kept, broker.held, seen.delivered, seen.sent, S)
    <3>1. OutAgreed(outgoing, kept, out, broker.held, seen.delivered, broker.session)
      BY <2>6 DEF OutExchanges
    <3>2. link.up => OutPackets(outgoing, kept, broker.held, seen.delivered, seen.sent, S)
      BY <2>6 DEF OutExchanges
    <3> HIDE DEF r
    <3>3. OutAgreed(r.table, kept, out, broker.held, seen.delivered, broker.session)
      BY ONLY <2>4, <3>1, OutSame
    <3>4. link.up => OutPackets(r.table, kept, broker.held, seen.delivered, seen.sent, S)
      BY ONLY <2>4, <3>2, OutSame
    <3> QED
      BY <3>3, <3>4
  <2> HIDE DEF m, r, e, p, d
  <2>7. CASE link' = NoLink /\ outgoing' = r.table /\ seen' = seen
    <3>1. link'.up = FALSE
      BY <2>7, LinkKinds
    <3>2. app' \in Apps /\ app'.kept = kept
      <4>1. app' = [app EXCEPT !.cursor = i + 1, !.stage = "run"]
        BY <1>2, <1>5, <3>1
      <4>2. i + 1 \in Nat \ {0}
        BY <2>1
      <4> QED
        BY <1>3, <4>1, <4>2 DEF Apps
    <3>3. Typed' /\ Linked'
      BY <1>1, <1>2, <2>3, <2>7, <3>2, LinkKinds DEF Typed, Linked
    <3>4. ASSUME OutExchanges, InExchanges, Promised
          PROVE  OutExchanges' /\ InExchanges' /\ Promised'
      <4>1. OutExchanges'
        BY <1>2, <2>6, <2>7, <3>1, <3>2, <3>4 DEF OutExchanges
      <4>2. InExchanges'
        BY <1>2, <2>7, <3>1, <3>4, InStays
      <4> QED
        BY <2>7, <3>4, <4>1, <4>2 DEF Promised
    <3> QED
      BY <1>2, <2>5, <2>7, <3>2, <3>3, <3>4, Keeping
  <2>8. CASE /\ link.up /\ link' = Sending(link, p) /\ outgoing' = d
             /\ seen' = [seen EXCEPT !.sent = @ \cup {id}]
    <3>1. /\ IsTable(d, OutMax, OutStates)
          /\ KeptRight(d, kept, out) /\ PubsInOrder(d, kept) /\ RelsInOrder(d, seen.recs)
          /\ DOMAIN d = DOMAIN r.table
          /\ \A k \in DOMAIN r.table : d[k].id = r.table[k].id /\ (r.table[k].id # id => d[k] = r.table[k])
          /\ p \in Packets /\ p.type = "PUBLISH" /\ p.id = id
          /\ Restated(r.table, d, id, SentState(m.qos))
          /\ At(r.table, id) \in Entry(OutStates) /\ At(r.table, id).qos \in {1, 2}
      <4>1. d = AfterPublish(r.table, id, m.qos) /\ p = PublishPacket(id, m) /\ m = kept[id]
        BY DEF d, p, m
      <4> HIDE DEF kept, out
      <4> QED
        BY ONLY <1>3, <2>3, <2>5, <4>1, SendingPublish
    <3>2. ASSUME OutExchanges
          PROVE  /\ OutAgreed(d, kept, out, broker.held, seen.delivered, broker.session)
                 /\ id \notin seen.sent
                 /\ OutPackets(d, kept, broker.held, seen.delivered, seen.sent \cup {id}, S \cup {p})
                 /\ \A q \in S : q.id # id
                 /\ NotYetSent(d, i + 1, seen.sent \cup {id})
      <4>1. p = PublishPacket(id, m) /\ m = kept[id]
        BY DEF p, m
      <4>2. OutAgreed(r.table, kept, out, broker.held, seen.delivered, broker.session)
        BY <2>6, <3>2
      <4>3. OutAgreed(d, kept, out, broker.held, seen.delivered, broker.session)
        <5> HIDE DEF kept, out, S
        <5> QED
          BY ONLY <1>3, <2>5, <3>1, <4>1, <4>2, OutSentAgreed
      <4>4. id \notin seen.sent /\ NotYetSent(d, i + 1, seen.sent \cup {id})
        <5>1. NotYetSent(outgoing, app.cursor, seen.sent) /\ 0 \notin seen.sent
          BY <1>2, <1>3, <2>8, <3>2, MqttAssumption DEF OutExchanges, Ids
        <5>2. DOMAIN r.table = 1 .. OutMax /\ id = outgoing[i].id
          BY <2>3 DEF IsTable, id
        <5>3. SameBut(r.table, d, id)
          BY <3>1 DEF SameBut
        <5> DEFINE next == i + 1
        <5>4. next \in Nat /\ next > i
          BY <2>1
        <5> HIDE DEF next
        <5>5. NotYetSent(d, next, seen.sent \cup {id})
          <6> HIDE DEF r, d
          <6>1. /\ OutMax \in Nat \ {0} /\ IsTable(outgoing, OutMax, OutStates)
                /\ app.cursor \in Nat \ {0} /\ i \in 1 .. OutMax /\ i >= app.cursor
                /\ outgoing[i].state \in PublishStates /\ Forward(outgoing, r.table)
            BY <1>3, <2>1, <2>3
          <6> QED
            BY ONLY <6>1, <5>1, <5>2, <5>3, <5>4, StillToSend
        <5>6. id \notin seen.sent
          BY <1>3, <2>1, <5>1, <5>2 DEF NotYetSent
        <5> QED
          BY <5>5, <5>6 DEF next
      <4>5. OutPackets(r.table, kept, broker.held, seen.delivered, seen.sent, S)
        BY <2>6, <2>8, <3>2
      <4>6. OutPackets(d, kept, broker.held, seen.delivered, seen.sent \cup {id}, S \cup {PublishPacket(id, m)})
        <5> HIDE DEF kept, out, S
        <5> QED
          BY ONLY <1>3, <2>5, <3>1, <4>1, <4>4, <4>5, OutSentPackets
      <4>7. \A q \in S : q.id # id
        BY <4>4, <4>5 DEF OutPackets, IdsIn
      <4> QED
        BY <4>1, <4>3, <4>4, <4>6, <4>7
    <3>3. /\ link'.up = TRUE /\ link'.toBroker = Append(link.toBroker, p) /\ link'.toClient = link.toClient
          /\ link' \in Links
      BY <1>3, <2>8, <3>1, LinkKinds
    <3>4. app' \in Apps /\ app'.kept = kept /\ app'.stage = "resend" /\ app'.cursor = i + 1
      <4>1. app' = [app EXCEPT !.cursor = i + 1, !.stage = "resend"]
        BY <1>2, <1>3, <1>5, <3>3 DEF Apps
      <4>2. i + 1 \in Nat \ {0}
        BY <2>1
      <4> QED
        BY <1>3, <4>1, <4>2 DEF Apps
    <3>5. /\ seen'.sent = seen.sent \cup {id} /\ seen'.delivered = seen.delivered /\ seen'.got = seen.got
          /\ seen'.finished = seen.finished /\ seen'.acked = seen.acked /\ seen'.repeated = seen.repeated
          /\ seen'.recs = seen.recs /\ seen'.mixed = seen.mixed /\ seen' \in Histories
      BY <1>3, <2>2, <2>8 DEF Histories
    <3>6. Typed' /\ Linked'
      BY <1>1, <1>2, <2>8, <3>1, <3>3, <3>4, <3>5 DEF Typed, Linked
    <3>7. /\ KeptRight(outgoing', app'.kept, budget'.out)
          /\ PubsInOrder(outgoing', app'.kept) /\ RelsInOrder(outgoing', seen'.recs)
      BY <1>2, <2>8, <3>1, <3>4, <3>5
    <3>8. ASSUME OutExchanges, InExchanges, Promised
          PROVE  OutExchanges' /\ InExchanges' /\ Promised'
      <4>1. /\ Orderly(link.toBroker, link.toClient) /\ Orderly(link.toClient, link.toBroker)
            /\ link.toBroker \in Seq(Packets) /\ link.toClient \in Seq(Packets)
        BY <1>1, <2>8, <3>8, Fields DEF OutExchanges, InExchanges
      <4>2. p.type \in Requests /\ p.type \notin Answers /\ \A q \in S : q.id # p.id
        BY <3>1, <3>2, <3>8 DEF Requests, Answers
      <4>3. /\ Orderly(link'.toBroker, link'.toClient)
            /\ Stream(link'.toBroker, link'.toClient) = S \cup {p}
        BY <3>1, <3>3, <4>1, <4>2, Sent
      <4>4. OutExchanges'
        BY <1>2, <2>8, <3>2, <3>3, <3>4, <3>5, <3>8, <4>3 DEF OutExchanges
      <4>5. /\ Orderly(link'.toClient, link'.toBroker)
            /\ Stream(link'.toClient, link'.toBroker) = Stream(link.toClient, link.toBroker)
        BY <3>1, <3>3, <4>1, <4>2, Sent
      <4>6. InExchanges'
        BY <1>2, <2>8, <3>5, <3>8, <4>5, InStays
      <4> QED
        BY <3>5, <3>8, <4>4, <4>6 DEF Promised
    <3> QED
      BY <3>5, <3>6, <3>7, <3>8, Keeping
  <2> QED
    BY <1>2, <1>5, <2>7, <2>8
<1> QED
  BY <1>4, <1>5

(* A table with no record.                                                  *)
LEMMA ClearedTable ==
    ASSUME NEW n \in Nat \ {0}, NEW states
    PROVE  /\ IsTable(Cleared(n), n, states) /\ IdsOf(Cleared(n)) = {}
           /\ \A kept : PubsInOrder(Cleared(n), kept)
           /\ RelsInOrder(Cleared(n), <<>>)
<1>1. DOMAIN Cleared(n) = 1 .. n /\ \A i \in 1 .. n : Cleared(n)[i] = NoRecord
  BY DEF Cleared
<1>2. NoRecord.id = 0 /\ NoRecord.state \notin PublishStates /\ NoRecord.state \notin RelStates
  BY DEF NoRecord, PublishStates, RelStates
<1>3. IsTable(Cleared(n), n, states)
  <2>1. Cleared(n) \in [1 .. n -> {NoRecord} \cup Entry(states)]
    BY DEF Cleared
  <2> QED
    BY <1>1, <1>2, <2>1 DEF IsTable
<1>4. IdsOf(Cleared(n)) = {}
  BY <1>1, <1>2 DEF IdsOf
<1>5. \A kept : PubsInOrder(Cleared(n), kept)
  BY <1>1, <1>2 DEF PubsInOrder
<1>6. RelsInOrder(Cleared(n), <<>>)
  <2>1. RelPlaces(Cleared(n)) = {}
    BY <1>1, <1>2 DEF RelPlaces
  <2>2. Enumerates([k \in 1 .. 0 |-> 0], 0, {})
    <3>1. 1 .. 0 = {}
      OBVIOUS
    <3>2. [k \in 1 .. 0 |-> 0] \in [1 .. 0 -> {}]
      BY <3>1
    <3> QED
      BY <3>1, <3>2 DEF Enumerates
  <2>3. Len(<<>>) = 0 /\ 1 .. 0 = {}
    OBVIOUS
  <2>4. RelsAlong(Cleared(n), <<>>, [k \in 1 .. 0 |-> 0])
    BY <2>1, <2>2, <2>3 DEF RelsAlong
  <2> QED
    BY <2>4 DEF RelsInOrder
<1> QED
  BY <1>3, <1>4, <1>5, <1>6

(* Nothing is on its way.                                                   *)
LEMMA NothingSent ==
    /\ Orderly(<<>>, <<>>) /\ Stream(<<>>, <<>>) = {} /\ IdsIn({}) = {}
    /\ In(<<>>) = {} /\ Apart(<<>>)
<1>1. DOMAIN <<>> = {}
  OBVIOUS
<1> QED
  BY <1>1 DEF Orderly, Stream, IdsIn, In, Apart, Once, Part

(* Without records there is nothing to agree on but the messages to come.   *)
LEMMA NoneAgreed ==
    ASSUME NEW t, IdsOf(t) = {}, NEW kept, NEW out, NEW delivered, \A m \in delivered : m > out,
           NEW got, NEW in, \A m \in got : m > in, NEW session
    PROVE  /\ OutAgreed(t, kept, out, {}, delivered, session)
           /\ InAgreed(t, {}, got, in, session)
BY DEF OutAgreed, InAgreed

LEMMA NoneRight ==
    ASSUME NEW t, IdsOf(t) = {}, NEW kept, NEW delivered, NEW got
    PROVE  /\ OutPackets(t, kept, {}, delivered, {}, {})
           /\ InPackets(t, {}, got, {})
BY NothingSent DEF OutPackets, InPackets

(* The connection breaks.                                                   *)
LEMMA StepDrop ==
    ASSUME ExchangeInv, Drop
    PROVE  ExchangeInv'
<1>1. /\ Typed /\ Linked /\ KeptRight(outgoing, app.kept, budget.out)
      /\ PubsInOrder(outgoing, app.kept) /\ RelsInOrder(outgoing, seen.recs)
  BY Splitting
<1>2. /\ link' = NoLink /\ outgoing' = outgoing /\ incoming' = incoming /\ app' = app
      /\ broker' = broker /\ budget' = budget /\ seen' = seen
  BY DEF Drop
<1>3. link'.up = FALSE /\ link' \in Links
  BY <1>2, LinkKinds
<1>4. Typed' /\ Linked'
  BY <1>1, <1>2, <1>3 DEF Typed, Linked
<1>5. ASSUME OutExchanges, InExchanges, Promised
      PROVE  OutExchanges' /\ InExchanges' /\ Promised'
  <2>1. OutExchanges'
    BY <1>2, <1>3, <1>5, OutStays
  <2>2. InExchanges'
    BY <1>2, <1>3, <1>5, InStays
  <2> QED
    BY <1>2, <1>5, <2>1, <2>2 DEF Promised
<1> QED
  BY <1>1, <1>2, <1>4, <1>5, Keeping

(* The broker forgets the session.                                          *)
LEMMA StepForget ==
    ASSUME ExchangeInv, Forget
    PROVE  ExchangeInv'
<1>1. /\ Typed /\ Linked /\ KeptRight(outgoing, app.kept, budget.out)
      /\ PubsInOrder(outgoing, app.kept) /\ RelsInOrder(outgoing, seen.recs)
  BY Splitting
<1>2. /\ ~link.up /\ link' = link /\ outgoing' = outgoing /\ incoming' = incoming /\ app' = app
      /\ budget' = budget /\ seen' = seen
  BY DEF Forget
<1>3. broker'.session = FALSE /\ broker'.held = {} /\ broker'.flight = <<>> /\ broker' \in Brokers
  <2>1. broker' = [FreshSession EXCEPT !.session = FALSE]
    BY DEF Forget
  <2>2. FreshSession.held = {} /\ FreshSession.flight = <<>> /\ FreshSession \in Brokers
    <3>1. <<>> \in Seq(Flights)
      OBVIOUS
    <3> QED
      BY <3>1 DEF FreshSession, Brokers
  <2> QED
    BY <2>1, <2>2 DEF Brokers
<1>4. Typed' /\ Linked'
  BY <1>1, <1>2, <1>3 DEF Typed, Linked
<1>5. ASSUME OutExchanges, InExchanges, Promised
      PROVE  OutExchanges' /\ InExchanges' /\ Promised'
  <2>1. OutExchanges'
    BY <1>2, <1>3, <1>5 DEF OutExchanges, OutAgreed
  <2>2. InExchanges'
    BY <1>2, <1>3, <1>5, NothingSent DEF InExchanges, InAgreed
  <2> QED
    BY <1>2, <1>5, <2>1, <2>2 DEF Promised
<1> QED
  BY <1>1, <1>2, <1>4, <1>5, Keeping

(* The answer to a connection is lost.                                      *)
LEMMA StepConnackLost ==
    ASSUME ExchangeInv, ~link.up, ConnackLost, UNCHANGED budget
    PROVE  ExchangeInv'
<1>1. /\ Typed /\ Linked /\ KeptRight(outgoing, app.kept, budget.out)
      /\ PubsInOrder(outgoing, app.kept) /\ RelsInOrder(outgoing, seen.recs)
  BY Splitting
<1>2. /\ ~link.up /\ link' = link /\ outgoing' = outgoing /\ incoming' = incoming /\ app' = app
      /\ budget' = budget
      /\ seen' = [seen EXCEPT !.mixed = @ \/ outgoing # Cleared(OutMax) \/ incoming # Cleared(InMax)]
  BY DEF ConnackLost
<1>3. broker'.session = TRUE /\ broker'.held = {} /\ broker'.flight = <<>> /\ broker' \in Brokers
  BY DEF ConnackLost, FreshSession, Brokers
<1>4. /\ seen'.sent = seen.sent /\ seen'.delivered = seen.delivered /\ seen'.got = seen.got
      /\ seen'.finished = seen.finished /\ seen'.acked = seen.acked /\ seen'.repeated = seen.repeated
      /\ seen'.recs = seen.recs /\ seen' \in Histories
      /\ ~seen'.mixed => ~seen.mixed /\ outgoing = Cleared(OutMax) /\ incoming = Cleared(InMax)
  <2>1. seen \in Histories
    BY <1>1 DEF Typed
  <2> QED
    BY <1>2, <2>1 DEF Histories
<1>5. Typed' /\ Linked'
  BY <1>1, <1>2, <1>3, <1>4 DEF Typed, Linked
<1>6. ASSUME OutExchanges, InExchanges, Promised, ~seen'.mixed
      PROVE  OutExchanges' /\ InExchanges' /\ Promised'
  <2>1. IdsOf(outgoing) = {} /\ IdsOf(incoming) = {}
    BY <1>1, <1>4, <1>6, Tables, ClearedTable
  <2>2. (\A m \in seen.delivered : m > budget.out) /\ (\A m \in seen.got : m > budget.in)
    BY <1>6 DEF OutExchanges, InExchanges, OutAgreed, InAgreed
  <2>3. /\ OutAgreed(outgoing, app.kept, budget.out, {}, seen.delivered, TRUE)
        /\ InAgreed(incoming, {}, seen.got, budget.in, TRUE)
    BY <2>1, <2>2, NoneAgreed
  <2>4. OutExchanges'
    BY <1>2, <1>3, <1>4, <2>3 DEF OutExchanges
  <2>5. InExchanges'
    BY <1>2, <1>3, <1>4, <2>3, NothingSent DEF InExchanges
  <2> QED
    BY <1>4, <1>6, <2>4, <2>5 DEF Promised
<1> QED
  <2>1. ~seen'.mixed => ~seen.mixed /\ (OutExchanges /\ InExchanges /\ Promised =>
                                            OutExchanges' /\ InExchanges' /\ Promised')
    BY <1>4, <1>6
  <2> QED
    BY <1>1, <1>2, <1>4, <1>5, <2>1 DEF ExchangeInv, Structure, Ordered

(* A session begins.                                                        *)
LEMMA StepStarted ==
    ASSUME ExchangeInv, Started, UNCHANGED budget
    PROVE  ExchangeInv'
<1>1. /\ Typed /\ Linked /\ KeptRight(outgoing, app.kept, budget.out)
  BY Splitting
<1>2. /\ outgoing' = Cleared(OutMax) /\ incoming' = Cleared(InMax) /\ budget' = budget
      /\ app' = [app EXCEPT !.stage = "run", !.kept = [id \in Ids |-> NoMessage]]
      /\ link' = [NoLink EXCEPT !.up = TRUE] /\ broker' = FreshSession
      /\ seen' = [seen EXCEPT !.sent = {}, !.recs = <<>>]
  BY DEF Started
<1>3. /\ IsTable(outgoing', OutMax, OutStates) /\ IsTable(incoming', InMax, InStates)
      /\ IdsOf(outgoing') = {} /\ IdsOf(incoming') = {}
      /\ PubsInOrder(outgoing', app'.kept) /\ RelsInOrder(outgoing', <<>>)
  BY <1>1, <1>2, Tables, ClearedTable
<1>4. app' \in Apps /\ app'.stage = "run" /\ app'.kept = [id \in Ids |-> NoMessage]
  <2>1. app \in Apps /\ NoMessage \in Messages
    BY <1>1 DEF Typed, NoMessage, Messages
  <2> QED
    BY <1>2, <2>1 DEF Apps
<1>5. link' \in Links /\ link'.up = TRUE /\ link'.toBroker = <<>> /\ link'.toClient = <<>>
  BY <1>2, LinkKinds DEF Links
<1>6. broker'.session = TRUE /\ broker'.held = {} /\ broker'.flight = <<>> /\ broker' \in Brokers
  BY <1>2 DEF FreshSession, Brokers
<1>7. /\ seen'.sent = {} /\ seen'.delivered = seen.delivered /\ seen'.got = seen.got
      /\ seen'.finished = seen.finished /\ seen'.acked = seen.acked /\ seen'.repeated = seen.repeated
      /\ seen'.recs = <<>> /\ seen' \in Histories /\ seen'.mixed = seen.mixed
  <2>1. seen \in Histories /\ <<>> \in Seq(Ids)
    BY <1>1 DEF Typed
  <2> QED
    BY <1>2, <2>1 DEF Histories
<1>8. Typed' /\ Linked'
  BY <1>1, <1>2, <1>3, <1>4, <1>5, <1>6, <1>7 DEF Typed, Linked
<1>9. KeptRight(outgoing', app'.kept, budget'.out)
  BY <1>3, <1>4 DEF KeptRight
<1>10. ASSUME OutExchanges, InExchanges, Promised
       PROVE  OutExchanges' /\ InExchanges' /\ Promised'
  <2>1. (\A m \in seen.delivered : m > budget.out) /\ (\A m \in seen.got : m > budget.in)
    BY <1>10 DEF OutExchanges, InExchanges, OutAgreed, InAgreed
  <2>2. /\ OutAgreed(outgoing', app'.kept, budget.out, {}, seen.delivered, TRUE)
        /\ InAgreed(incoming', {}, seen.got, budget.in, TRUE)
    BY <1>3, <2>1, NoneAgreed
  <2>3. /\ OutPackets(outgoing', app'.kept, {}, seen.delivered, {}, {})
        /\ InPackets(incoming', {}, seen.got, {})
    BY <1>3, NoneRight
  <2>4. OutExchanges'
    BY <1>2, <1>4, <1>5, <1>6, <1>7, <2>2, <2>3, NothingSent DEF OutExchanges
  <2>5. InExchanges'
    BY <1>2, <1>5, <1>6, <1>7, <2>2, <2>3, NothingSent DEF InExchanges
  <2> QED
    BY <1>7, <1>10, <2>4, <2>5 DEF Promised
<1> QED
  BY <1>3, <1>7, <1>8, <1>9, <1>10, Keeping

(* A direction without such packets.                                        *)
LEMMA NoneOf ==
    ASSUME NEW q, NEW types, Part(q, types) = {}
    PROVE  Once(q, types)
BY DEF Part, In, Once

(* The loop that begins has nothing behind it.                              *)
LEMMA NothingBehind ==
    ASSUME NEW n, n \in Nat \ {0}, NEW c, IsTable(c, n, OutStates), NEW t, NEW sent, Resent(t, c, sent), NEW cursor
    PROVE  NotYetSent(c, cursor, sent)
<1>1. DOMAIN c = 1 .. n
  BY DEF IsTable
<1>2. ASSUME NEW i \in 1 .. n, c[i].state \in PublishStates, c[i].id \in sent
      PROVE  FALSE
  <2>1. c[i].id # 0
    BY <1>2, StatesApart, InPlace
  <2>2. At(c, c[i].id) = c[i]
    BY <2>1, AtPlace
  <2>3. At(c, c[i].id).state = "PubCompPending"
    BY <1>2 DEF Resent, Entry
  <2> QED
    BY <1>2, <2>2, <2>3 DEF PublishStates
<1> QED
  BY <1>1, <1>2 DEF NotYetSent

(* The loop over the publishes begins, or is not entered.                   *)
LEMMA Staging ==
    ASSUME NEW a \in Apps, NEW stage \in {"run", "resend"}
    PROVE  LET b == [[a EXCEPT !.stage = stage] EXCEPT !.cursor = 1]
           IN b \in Apps /\ b.kept = a.kept /\ b.cursor = 1
<1> DEFINE b == [a EXCEPT !.stage = stage]
<1>1. /\ b.nextId = a.nextId /\ b.stage = stage /\ b.cursor = a.cursor /\ b.kept = a.kept
      /\ b \in Apps
  BY DEF Apps
<1>2. 1 \in Nat \ {0}
  OBVIOUS
<1> HIDE DEF b
<1>3. /\ [b EXCEPT !.cursor = 1] \in Apps
      /\ [b EXCEPT !.cursor = 1].kept = b.kept /\ [b EXCEPT !.cursor = 1].cursor = 1
  BY <1>1, <1>2 DEF Apps
<1> QED
  BY <1>1, <1>3 DEF b

(* The session goes on: the PUBRELs are sent, or some of them before the    *)
(* connection is given up.                                                  *)
LEMMA StepResumed ==
    ASSUME ExchangeInv, broker.session, NEW n \in Nat, Resumed(n), UNCHANGED budget
    PROVE  ExchangeInv'
<1> DEFINE rels == Picked(outgoing, RelPlaces(outgoing))
           sent == FirstIds(rels, n)
           c == Restarted(outgoing, sent)
           kept == app.kept
           out == budget.out
           again == RepeatIn(broker.flight)
           q == RelQueue(rels)
<1>1. /\ Typed /\ Linked /\ KeptRight(outgoing, kept, out)
      /\ PubsInOrder(outgoing, kept) /\ RelsInOrder(outgoing, seen.recs)
  BY Splitting
<1>2. /\ n <= Len(rels) /\ outgoing' = c
      /\ link' = IF n < Len(rels) THEN NoLink ELSE [up |-> TRUE, toClient |-> again, toBroker |-> q]
      /\ app' = [app EXCEPT !.stage = IF n < Len(rels) THEN "run" ELSE "resend", !.cursor = 1]
      /\ seen' = [seen EXCEPT !.sent = sent]
      /\ incoming' = incoming /\ broker' = broker /\ budget' = budget
  BY DEF Resumed, RelPlaces, FirstIds, Restarted, RepeatIn, Repeated, Again, RelQueue
<1>3. /\ OutMax \in Nat \ {0} /\ IsTable(outgoing, OutMax, OutStates)
      /\ app \in Apps /\ seen \in Histories /\ seen.recs \in Seq(Ids) /\ broker.flight \in Seq(Flights)
  BY <1>1, Tables, Fields DEF Typed
<1> HIDE DEF rels
<1>4. /\ \A id \in sent : id \in IdsOf(outgoing)
      /\ IsTable(c, OutMax, OutStates) /\ Resent(outgoing, c, sent)
      /\ PubsInOrder(c, kept) /\ RelsInOrder(c, seen.recs)
  <2>1. rels = Picked(outgoing, RelPlaces(outgoing)) /\ n \in Nat /\ n <= Len(rels)
    BY <1>2 DEF rels
  <2> HIDE DEF sent, c
  <2>2. sent = FirstIds(rels, n) /\ c = Restarted(outgoing, sent)
    BY DEF sent, c
  <2>3. /\ \A id \in sent : id \in IdsOf(outgoing)
        /\ IsTable(c, OutMax, OutStates) /\ Resent(outgoing, c, sent)
        /\ \A kp : PubsInOrder(outgoing, kp) => PubsInOrder(c, kp)
        /\ \A recs \in Seq(Ids) : RelsInOrder(outgoing, recs) => RelsInOrder(c, recs)
    BY ONLY <1>3, <2>1, <2>2, RelsSending
  <2> QED
    BY <1>1, <1>3, <2>3
<1> HIDE DEF sent, c, q, again
<1>5. KeptRight(c, kept, out)
  BY <1>1, <1>4, OutResumed
<1>6. sent \in SUBSET Ids
  BY <1>1, <1>4, Tables
<1>7. /\ seen'.sent = sent /\ seen'.delivered = seen.delivered /\ seen'.got = seen.got
      /\ seen'.finished = seen.finished /\ seen'.acked = seen.acked /\ seen'.repeated = seen.repeated
      /\ seen'.recs = seen.recs /\ seen' \in Histories /\ seen'.mixed = seen.mixed
  BY <1>2, <1>3, <1>6 DEF Histories
<1>8. /\ app' \in Apps /\ app'.kept = kept /\ app'.cursor = 1
  <2>1. CASE n < Len(rels)
    <3>1. app' = [[app EXCEPT !.stage = "run"] EXCEPT !.cursor = 1]
      BY <1>2, <2>1
    <3> QED
      BY <1>3, <3>1, Staging
  <2>2. CASE ~(n < Len(rels))
    <3>1. app' = [[app EXCEPT !.stage = "resend"] EXCEPT !.cursor = 1]
      BY <1>2, <2>2
    <3> QED
      BY <1>3, <3>1, Staging
  <2> QED
    BY <2>1, <2>2
<1>9. ASSUME OutExchanges
      PROVE  OutAgreed(c, kept, out, broker.held, seen.delivered, broker.session)
  <2>1. OutAgreed(outgoing, kept, out, broker.held, seen.delivered, broker.session)
    BY <1>9 DEF OutExchanges
  <2> QED
    BY ONLY <1>4, <2>1, OutResumedAgreed
<1>10. CASE n < Len(rels)
  <2>1. link' \in Links /\ link'.up = FALSE
    BY <1>2, <1>10, LinkKinds
  <2>2. Typed' /\ Linked'
    BY <1>1, <1>2, <1>4, <1>7, <1>8, <2>1 DEF Typed, Linked
  <2>3. ASSUME OutExchanges, InExchanges, Promised
        PROVE  OutExchanges' /\ InExchanges' /\ Promised'
    <3>1. OutExchanges'
      BY <1>2, <1>7, <1>8, <1>9, <2>1, <2>3 DEF OutExchanges
    <3>2. InExchanges'
      BY <1>2, <1>7, <2>1, <2>3, InStays
    <3> QED
      BY <1>7, <2>3, <3>1, <3>2 DEF Promised
  <2> QED
    BY <1>2, <1>4, <1>5, <1>7, <1>8, <2>2, <2>3, Keeping
<1>11. CASE ~(n < Len(rels))
  <2>1. /\ rels = Picked(outgoing, RelPlaces(outgoing)) /\ sent = FirstIds(rels, Len(rels)) /\ q = RelQueue(rels)
    <3>1. Len(rels) \in Nat
      BY <1>3, Rels DEF rels
    <3>2. n = Len(rels)
      BY <1>2, <1>11, <3>1
    <3> QED
      BY <3>2 DEF rels, sent, q
  <2>2. q \in Seq(Packets) /\ Once(q, Requests) /\ Part(q, Answers) = {} /\ Part(q, Requests) = PubRels(sent)
    BY ONLY <1>3, <2>1, RelPackets
  <2>3. /\ again \in Seq(Packets) /\ Part(again, Answers) = {}
        /\ Part(again, Requests) = RepeatAll(In(broker.flight))
        /\ Apart(broker.flight) => Once(again, Requests)
    BY <1>3, Repeating DEF again
  <2>4. link'.up = TRUE /\ link'.toClient = again /\ link'.toBroker = q /\ link' \in Links
    BY <1>2, <1>11, <2>2, <2>3 DEF Links
  <2>5. Typed' /\ Linked'
    BY <1>1, <1>2, <1>4, <1>7, <1>8, <2>4 DEF Typed, Linked
  <2>6. ASSUME OutExchanges, InExchanges, Promised
        PROVE  OutExchanges' /\ InExchanges' /\ Promised'
    <3>1. Once(again, Requests)
      BY <2>3, <2>6 DEF InExchanges
    <3>2. /\ OutPackets(c, kept, broker.held, seen.delivered, sent, PubRels(sent)) /\ Distinct(PubRels(sent))
      BY <1>4, OutResumedPackets
    <3>3. /\ InPackets(incoming, In(broker.flight), seen.got, RepeatAll(In(broker.flight)))
          /\ Distinct(RepeatAll(In(broker.flight)))
      <4>1. \A f \in In(broker.flight) : f \in Flights
        BY <1>3 DEF In
      <4>2. \A x \in IdsOf(incoming) : At(incoming, x).id = x
        BY <1>1, Tables
      <4>3. InAgreed(incoming, In(broker.flight), seen.got, budget.in, TRUE)
        BY <1>1, <2>6, Fields DEF InExchanges
      <4> QED
        BY <4>1, <4>2, <4>3, InResumed
    <3>4. Stream(q, again) = PubRels(sent) /\ Stream(again, q) = RepeatAll(In(broker.flight))
      BY <2>2, <2>3 DEF Stream
    <3>5. Orderly(q, again) /\ Orderly(again, q)
      <4>1. Once(again, Answers) /\ Once(q, Answers)
        BY <2>2, <2>3, NoneOf
      <4> QED
        BY <2>2, <3>1, <3>2, <3>3, <3>4, <4>1 DEF Orderly, Distinct
    <3>6. NotYetSent(c, 1, sent)
      BY <1>3, <1>4, NothingBehind
    <3>7. OutExchanges'
      BY <1>2, <1>7, <1>8, <1>9, <2>4, <2>6, <3>2, <3>4, <3>5, <3>6 DEF OutExchanges
    <3>8. InExchanges'
      BY <1>2, <1>7, <2>4, <2>6, <3>3, <3>4, <3>5 DEF InExchanges
    <3> QED
      BY <1>7, <2>6, <3>7, <3>8 DEF Promised
  <2> QED
    BY <1>2, <1>4, <1>5, <1>7, <1>8, <2>5, <2>6, Keeping
<1> QED
  BY <1>10, <1>11

(* A connection is made, or is not, or its answer is lost.                  *)
LEMMA StepConnect ==
    ASSUME ExchangeInv, Connect
    PROVE  ExchangeInv'
<1>1. ~link.up /\ UNCHANGED budget
  BY DEF Connect
<1>2. ASSUME broker.session, NEW n \in 0 .. OutMax, Resumed(n)
      PROVE  ExchangeInv'
  <2>1. n \in Nat
    BY Splitting, Tables
  <2> QED
    BY <1>1, <1>2, <2>1, StepResumed
<1>3. CASE Started
  BY <1>1, <1>3, StepStarted
<1>4. CASE ConnackLost
  BY <1>1, <1>4, StepConnackLost
<1> QED
  BY <1>2, <1>3, <1>4 DEF Connect

(* The broker has a message for the client.                                 *)
LEMMA StepBrokerPublishes ==
    ASSUME ExchangeInv, NEW qos \in {1, 2}, BrokerPublishes(qos)
    PROVE  ExchangeInv'
<1> DEFINE in == budget.in
           flight == broker.flight
<1>1. /\ Typed /\ Linked /\ KeptRight(outgoing, app.kept, budget.out)
      /\ PubsInOrder(outgoing, app.kept) /\ RelsInOrder(outgoing, seen.recs)
  BY Splitting
<1>2. PICK id \in Ids :
        /\ \A k \in DOMAIN flight : flight[k].id # id
        /\ broker' = [broker EXCEPT !.flight = Append(@, [id |-> id, qos |-> qos, msg |-> in, state |-> "sent"])]
        /\ link' = [link EXCEPT !.toClient = Append(@, PublishPacket(id, [id |-> id, qos |-> qos, msg |-> in, state |-> "sent"]))]
  BY DEF BrokerPublishes
<1> DEFINE m == [id |-> id, qos |-> qos, msg |-> in, state |-> "sent"]
           p == PublishPacket(id, m)
<1>3. /\ link.up /\ in > 0 /\ budget' = [budget EXCEPT !.in = @ - 1]
      /\ outgoing' = outgoing /\ incoming' = incoming /\ app' = app /\ seen' = seen
  BY DEF BrokerPublishes
<1>4. /\ in \in Nat /\ flight \in Seq(Flights) /\ link \in Links /\ broker \in Brokers
      /\ budget \in Allowances /\ link.toBroker \in Seq(Packets) /\ link.toClient \in Seq(Packets)
  BY <1>1, Fields DEF Typed
<1>5. m \in Flights /\ m.id = id /\ m.qos = qos /\ m.msg = in /\ m.state = "sent"
  BY <1>4 DEF Flights
<1>6. p \in Packets /\ p.type = "PUBLISH" /\ p.id = id
  BY <1>4, <1>5 DEF PublishPacket, Packets, Requests
<1> DEFINE less == in - 1
<1>15. less = in - 1
  OBVIOUS
<1> HIDE DEF m, p, less
<1>7. /\ broker' = [broker EXCEPT !.flight = Append(flight, m)]
      /\ link' = [link EXCEPT !.toClient = Append(link.toClient, p)]
  BY <1>2 DEF m, p
<1>8. Append(flight, m) \in Seq(Flights) /\ Append(link.toClient, p) \in Seq(Packets)
  BY <1>4, <1>5, <1>6
<1>9. /\ broker' \in Brokers /\ broker'.flight = Append(flight, m)
      /\ broker'.held = broker.held /\ broker'.session = broker.session
  BY <1>4, <1>7, <1>8 DEF Brokers
<1>10. /\ link' \in Links /\ link'.up = link.up /\ link'.toBroker = link.toBroker
       /\ link'.toClient = Append(link.toClient, p)
  BY <1>4, <1>7, <1>8 DEF Links
<1>11. budget' \in Allowances /\ budget'.in = less /\ budget'.out = budget.out
  BY <1>3, <1>4, <1>15 DEF Allowances
<1>12. Typed' /\ Linked'
  BY <1>1, <1>3, <1>9, <1>10, <1>11 DEF Typed, Linked
<1>13. ASSUME OutExchanges, InExchanges, Promised
       PROVE  OutExchanges' /\ InExchanges' /\ Promised'
  <2>1. /\ Orderly(link.toBroker, link.toClient) /\ Orderly(link.toClient, link.toBroker)
        /\ InPackets(incoming, In(flight), seen.got, Stream(link.toClient, link.toBroker))
        /\ Apart(flight) /\ InAgreed(incoming, In(flight), seen.got, in, TRUE)
    BY <1>1, <1>3, <1>4, <1>13, Fields DEF OutExchanges, InExchanges, Linked
  <2>2. p.type \notin Answers /\ p.type \in Requests
    BY <1>6 DEF Requests, Answers
  <2>3. /\ Orderly(link.toBroker, Append(link.toClient, p))
        /\ Stream(link.toBroker, Append(link.toClient, p)) = Stream(link.toBroker, link.toClient)
    BY <1>4, <1>6, <2>1, <2>2, Sent
  <2>4. OutExchanges'
    BY <1>3, <1>9, <1>10, <1>11, <1>13, <2>3, OutStays
  <2>5. \A f \in In(flight) : f \in Flights /\ f.id # id
    BY <1>2, <1>4 DEF In
  <2>6. \A x \in IdsOf(incoming) : At(incoming, x).id = x
    BY <1>1, Tables
  <2>7. seen.got \subseteq Nat
    BY <1>1, Fields
  <2>8. /\ InAgreed(incoming, In(flight) \cup {m}, seen.got, less, TRUE)
        /\ InPackets(incoming, In(flight) \cup {m}, seen.got, Stream(link.toClient, link.toBroker) \cup {p})
        /\ \A x \in Stream(link.toClient, link.toBroker) : x.id # m.id
        /\ \A f \in In(flight) : f.msg # m.msg
    <3> DEFINE got == seen.got
               flights == In(flight)
               packets == Stream(link.toClient, link.toBroker)
               inc == incoming
               was == in
    <3>1. PublishPacket(m.id, m) = p
      BY <1>5 DEF p, m
    <3>2. Announced(inc, flights, got, was, less, packets, m, p)
      BY <1>3, <1>4, <1>5, <1>15, <2>1, <2>5, <2>6, <2>7, <3>1 DEF Announced
    <3> HIDE DEF got, flights, packets, inc, was
    <3>3. /\ InAgreed(inc, flights \cup {m}, got, less, TRUE)
          /\ InPackets(inc, flights \cup {m}, got, packets \cup {p})
          /\ \A x \in packets : x.id # m.id
          /\ \A f \in flights : f.msg # m.msg
      BY ONLY <3>2, InPublished
    <3> QED
      BY <3>3 DEF got, flights, packets, inc
  <2>9. In(Append(flight, m)) = In(flight) \cup {m} /\ Apart(Append(flight, m))
    BY <1>4, <1>5, <2>1, <2>5, <2>8, FlightAdded
  <2>10. /\ Orderly(Append(link.toClient, p), link.toBroker)
         /\ Stream(Append(link.toClient, p), link.toBroker) = Stream(link.toClient, link.toBroker) \cup {p}
    BY <1>4, <1>5, <1>6, <2>1, <2>2, <2>8, Sent
  <2>11. InExchanges'
    BY <1>1, <1>3, <1>4, <1>9, <1>10, <1>11, <2>1, <2>8, <2>9, <2>10, Fields DEF InExchanges, Linked
  <2> QED
    BY <1>3, <1>13, <2>4, <2>11 DEF Promised
<1>14. KeptRight(outgoing', app'.kept, budget'.out)
  BY <1>1, <1>3, <1>11
<1> QED
  BY <1>1, <1>3, <1>12, <1>13, <1>14, Keeping

-----------------------------------------------------------------------------
(* A packet that arrives is answered, or is not.                            *)
Answered(a, b, p, q) ==
    /\ a \in Seq(Packets) /\ b \in Seq(Packets) /\ a # <<>> /\ p = Head(a)
    /\ q \in Packets /\ q.id = p.id
    /\ (p.type \in Requests /\ q.type \in Answers) \/ (p.type \in Answers /\ q.type \in Requests)

LEMMA Trading ==
    ASSUME NEW a, NEW b, NEW p, NEW q, Answered(a, b, p, q)
    PROVE  /\ p \in Packets /\ Tail(a) \in Seq(Packets) /\ Append(b, q) \in Seq(Packets)
           /\ Orderly(a, b) => Orderly(Tail(a), Append(b, q))
           /\ Orderly(b, a) => Orderly(Append(b, q), Tail(a))
           /\ Orderly(a, b) /\ p.type \in Requests =>
                /\ p \in Stream(a, b)
                /\ Stream(Tail(a), Append(b, q)) = (Stream(a, b) \ {p}) \cup {q}
           /\ Orderly(b, a) /\ p.type \in Answers =>
                /\ p \in Stream(b, a)
                /\ Stream(Append(b, q), Tail(a)) = (Stream(b, a) \ {p}) \cup {q}
           /\ Orderly(a, b) /\ p.type \in Answers => Stream(Tail(a), Append(b, q)) = Stream(a, b)
           /\ Orderly(b, a) /\ p.type \in Requests => Stream(Append(b, q), Tail(a)) = Stream(b, a)
<1>1. /\ a \in Seq(Packets) /\ b \in Seq(Packets) /\ a # <<>> /\ p = Head(a)
      /\ q \in Packets /\ q.id = p.id
      /\ (p.type \in Requests /\ q.type \in Answers) \/ (p.type \in Answers /\ q.type \in Requests)
  BY DEF Answered
<1>2. p \in Packets /\ Tail(a) \in Seq(Packets) /\ Append(b, q) \in Seq(Packets)
  BY <1>1, PartTail
<1>3. Requests \cap Answers = {}
  BY DEF Requests, Answers
<1>4. ASSUME Orderly(a, b)
      PROVE  /\ Orderly(Tail(a), Append(b, q))
             /\ p.type \in Requests => /\ p \in Stream(a, b)
                                       /\ Stream(Tail(a), Append(b, q)) = (Stream(a, b) \ {p}) \cup {q}
             /\ p.type \in Answers => Stream(Tail(a), Append(b, q)) = Stream(a, b)
  <2>1. /\ Orderly(Tail(a), b)
        /\ p.type \notin Requests => Stream(Tail(a), b) = Stream(a, b)
        /\ p.type \in Requests => p \in Stream(a, b) /\ Stream(Tail(a), b) = Stream(a, b) \ {p}
    BY <1>1, <1>4, Arrived
  <2>4. Tail(a) \in Seq(Packets) /\ b \in Seq(Packets) /\ q \in Packets /\ Orderly(Tail(a), b)
    BY <1>1, <1>2, <2>1
  <2>2. CASE p.type \in Answers
    <3>1. q.type \notin Answers
      BY <1>1, <1>3, <2>2
    <3>2. /\ Orderly(Tail(a), Append(b, q))
          /\ Stream(Tail(a), Append(b, q)) = Stream(Tail(a), b)
      BY ONLY <2>4, <3>1, Sent
    <3> QED
      BY <1>3, <2>1, <2>2, <3>2
  <2>3. CASE p.type \in Requests
    <3>1. \A x \in Stream(Tail(a), b) : x.id # q.id
      BY <1>1, <1>4, <2>1, <2>3 DEF Orderly
    <3>2. q.type \in Answers /\ p.type \notin Answers
      BY <1>1, <1>3, <2>3
    <3>3. /\ Orderly(Tail(a), Append(b, q))
          /\ Stream(Tail(a), Append(b, q)) = Stream(Tail(a), b) \cup {q}
      BY ONLY <2>4, <3>1, <3>2, Sent
    <3> QED
      BY <1>3, <2>1, <2>3, <3>2, <3>3
  <2> QED
    BY <1>1, <2>2, <2>3
<1>5. ASSUME Orderly(b, a)
      PROVE  /\ Orderly(Append(b, q), Tail(a))
             /\ p.type \in Answers => /\ p \in Stream(b, a)
                                      /\ Stream(Append(b, q), Tail(a)) = (Stream(b, a) \ {p}) \cup {q}
             /\ p.type \in Requests => Stream(Append(b, q), Tail(a)) = Stream(b, a)
  <2>1. /\ Orderly(b, Tail(a))
        /\ p.type \notin Answers => Stream(b, Tail(a)) = Stream(b, a)
        /\ p.type \in Answers => p \in Stream(b, a) /\ Stream(b, Tail(a)) = Stream(b, a) \ {p}
    BY <1>1, <1>5, Arrived
  <2>4. Tail(a) \in Seq(Packets) /\ b \in Seq(Packets) /\ q \in Packets /\ Orderly(b, Tail(a))
    BY <1>1, <1>2, <2>1
  <2>2. CASE p.type \in Requests
    <3>1. q.type \notin Requests
      BY <1>1, <1>3, <2>2
    <3>2. /\ Orderly(Append(b, q), Tail(a))
          /\ Stream(Append(b, q), Tail(a)) = Stream(b, Tail(a))
      BY ONLY <2>4, <3>1, Sent
    <3> QED
      BY <1>3, <2>1, <2>2, <3>2
  <2>3. CASE p.type \in Answers
    <3>1. \A x \in Stream(b, Tail(a)) : x.id # q.id
      BY <1>1, <1>5, <2>1, <2>3 DEF Orderly
    <3>2. q.type \in Requests /\ p.type \notin Requests
      BY <1>1, <1>3, <2>3
    <3>3. /\ Orderly(Append(b, q), Tail(a))
          /\ Stream(Append(b, q), Tail(a)) = Stream(b, Tail(a)) \cup {q}
      BY ONLY <2>4, <3>1, <3>2, Sent
    <3> QED
      BY <1>3, <2>1, <2>3, <3>2, <3>3
  <2> QED
    BY <1>1, <2>2, <2>3
<1> QED
  BY <1>2, <1>4, <1>5

LEMMA Unanswered ==
    ASSUME NEW a \in Seq(Packets), NEW b \in Seq(Packets), a # <<>>, NEW p, p = Head(a)
    PROVE  /\ p \in Packets /\ Tail(a) \in Seq(Packets)
           /\ Orderly(a, b) => Orderly(Tail(a), b)
           /\ Orderly(b, a) => Orderly(b, Tail(a))
           /\ Orderly(a, b) /\ p.type \in Requests =>
                p \in Stream(a, b) /\ Stream(Tail(a), b) = Stream(a, b) \ {p}
           /\ Orderly(b, a) /\ p.type \in Answers =>
                p \in Stream(b, a) /\ Stream(b, Tail(a)) = Stream(b, a) \ {p}
           /\ Orderly(a, b) /\ p.type \in Answers => Stream(Tail(a), b) = Stream(a, b)
           /\ Orderly(b, a) /\ p.type \in Requests => Stream(b, Tail(a)) = Stream(b, a)
<1>1. Requests \cap Answers = {}
  BY DEF Requests, Answers
<1>2. p \in Packets /\ Tail(a) \in Seq(Packets)
  BY PartTail
<1>3. ASSUME Orderly(a, b)
      PROVE  /\ Orderly(Tail(a), b)
             /\ p.type \in Requests => p \in Stream(a, b) /\ Stream(Tail(a), b) = Stream(a, b) \ {p}
             /\ p.type \in Answers => Stream(Tail(a), b) = Stream(a, b)
  BY <1>1, <1>3, Arrived
<1>4. ASSUME Orderly(b, a)
      PROVE  /\ Orderly(b, Tail(a))
             /\ p.type \in Answers => p \in Stream(b, a) /\ Stream(b, Tail(a)) = Stream(b, a) \ {p}
             /\ p.type \in Requests => Stream(b, Tail(a)) = Stream(b, a)
  BY <1>1, <1>4, Arrived
<1> QED
  BY <1>2, <1>3, <1>4

LEMMA OrderlyDistinct ==
    ASSUME NEW a, NEW b, Orderly(a, b)
    PROVE  Distinct(Stream(a, b))
BY DEF Orderly, Distinct

LEMMA AckPacket ==
    ASSUME NEW type \in {"PUBACK", "PUBREC", "PUBREL", "PUBCOMP"}, NEW id \in Ids
    PROVE  Packet(type, id) \in Packets /\ Packet(type, id).type = type /\ Packet(type, id).id = id
BY DEF Packet, Packets, Requests, Answers

(* What the broker does to a packet: the parts of the state that stay.      *)
Receiving(p) ==
    /\ link.up /\ link.toBroker # <<>> /\ p = Head(link.toBroker)
    /\ outgoing' = outgoing /\ incoming' = incoming /\ app' = app /\ budget' = budget
    /\ seen'.recs = seen.recs /\ seen'.sent = seen.sent /\ seen'.mixed = seen.mixed
    /\ seen' \in Histories /\ broker' \in Brokers /\ broker'.session = broker.session
    /\ link' \in Links /\ link'.up = TRUE /\ link'.toBroker = Tail(link.toBroker)

LEMMA ReceivingKeeps ==
    ASSUME ExchangeInv, NEW p, Receiving(p),
           OutExchanges /\ InExchanges /\ Promised => OutExchanges' /\ InExchanges' /\ Promised'
    PROVE  ExchangeInv'
<1>1. /\ Typed /\ Linked /\ KeptRight(outgoing, app.kept, budget.out)
      /\ PubsInOrder(outgoing, app.kept) /\ RelsInOrder(outgoing, seen.recs)
  BY Splitting
<1>2. Typed' /\ Linked'
  BY <1>1 DEF Receiving, Typed, Linked
<1> QED
  BY <1>1, <1>2, Keeping DEF Receiving

(* A packet of the broker's stream, and what it answers.                    *)
LEMMA BrokerTrades ==
    ASSUME Typed, Linked, NEW p, NEW q, link.up, link.toBroker # <<>>, p = Head(link.toBroker),
           q \in Packets, q.id = p.id,
           (p.type \in Requests /\ q.type \in Answers) \/ (p.type \in Answers /\ q.type \in Requests),
           link' = Answering(q)
    PROVE  /\ link' \in Links /\ link'.up = TRUE /\ link'.toBroker = Tail(link.toBroker)
           /\ Answered(link.toBroker, link.toClient, p, q)
           /\ link'.toClient = Append(link.toClient, q)
<1>1. /\ link \in Links /\ link.toBroker \in Seq(Packets) /\ link.toClient \in Seq(Packets)
  BY Fields DEF Typed
<1>2. Answered(link.toBroker, link.toClient, p, q)
  BY <1>1 DEF Answered
<1>3. Tail(link.toBroker) \in Seq(Packets) /\ Append(link.toClient, q) \in Seq(Packets)
  BY <1>2, Trading
<1>4. link' = [link EXCEPT !.toBroker = Tail(link.toBroker), !.toClient = Append(link.toClient, q)]
  BY DEF Answering
<1> QED
  BY <1>1, <1>2, <1>3, <1>4 DEF Links

(* The broker takes a publish.                                              *)
BrokerTakes(p) ==
    /\ p.type = "PUBLISH"
    /\ link' = Answering(Packet(IF p.qos = 1 THEN "PUBACK" ELSE "PUBREC", p.id))
    /\ broker' = [broker EXCEPT !.held = IF p.qos = 2 THEN @ \cup {p.id} ELSE @]
    /\ seen' = [seen EXCEPT
           !.delivered = IF p.qos = 2 /\ p.id \in broker.held THEN @ ELSE @ \cup {p.msg},
           !.repeated = @ \/ (p.qos = 2 /\ ~(p.qos = 2 /\ p.id \in broker.held) /\ p.msg \in seen.delivered)]

LEMMA StepBrokerTakes ==
    ASSUME ExchangeInv, link.up, link.toBroker # <<>>, NEW p, p = Head(link.toBroker), BrokerTakes(p),
           UNCHANGED <<outgoing, incoming, app, budget>>
    PROVE  ExchangeInv'
<1> DEFINE q == Packet(IF p.qos = 1 THEN "PUBACK" ELSE "PUBREC", p.id)
           hh == IF p.qos = 2 THEN broker.held \cup {p.id} ELSE broker.held
           dd == IF p.qos = 2 /\ p.id \in broker.held THEN seen.delivered
                                                     ELSE seen.delivered \cup {p.msg}
           again == p.qos = 2 /\ p.id \notin broker.held /\ p.msg \in seen.delivered
           a == link.toBroker
           b == link.toClient
<1>1. Typed /\ Linked
  BY Splitting
<1>2. /\ a \in Seq(Packets) /\ b \in Seq(Packets) /\ broker \in Brokers /\ seen \in Histories
      /\ broker.held \in SUBSET Ids /\ seen.delivered \in SUBSET Nat
      /\ app.kept \in [Ids -> Messages] /\ broker.session = TRUE
  BY <1>1, Fields DEF Typed, Linked
<1>3. p \in Packets
  BY <1>2, PartTail
<1>4. p.type = "PUBLISH" /\ p.qos \in {1, 2} /\ p.id \in Ids /\ p.msg \in Nat /\ p.type \in Requests
  BY <1>3 DEF BrokerTakes, Packets, Requests
<1>5. q \in Packets /\ q.id = p.id /\ q.type \in Answers
  BY <1>4, AckPacket DEF Answers
<1>6. link' = Answering(q)
  BY DEF BrokerTakes
<1>7. broker' = [broker EXCEPT !.held = hh]
  BY DEF BrokerTakes
<1>8. seen' = [seen EXCEPT !.delivered = dd, !.repeated = (@ \/ again)]
  BY DEF BrokerTakes
<1>9. hh \in SUBSET Ids /\ dd \in SUBSET Nat
  BY <1>2, <1>4
<1> HIDE DEF q
<1>10. /\ link' \in Links /\ link'.up = TRUE /\ link'.toBroker = Tail(a)
       /\ link'.toClient = Append(b, q) /\ Answered(a, b, p, q)
  BY <1>1, <1>4, <1>5, <1>6, BrokerTrades
<1> HIDE DEF hh, dd, again
<1>11. /\ broker' \in Brokers /\ broker'.held = hh /\ broker'.session = broker.session
       /\ broker'.flight = broker.flight
  BY <1>2, <1>7, <1>9 DEF Brokers
<1>12. /\ seen'.delivered = dd /\ (seen'.repeated <=> seen.repeated \/ again) /\ seen'.got = seen.got
       /\ seen'.finished = seen.finished /\ seen'.acked = seen.acked
       /\ seen'.recs = seen.recs /\ seen'.sent = seen.sent /\ seen'.mixed = seen.mixed
  BY <1>2, <1>8 DEF Histories
<1>13. seen' \in Histories
  <2>1. (seen.repeated \/ again) \in BOOLEAN
    OBVIOUS
  <2> QED
    BY <1>2, <1>8, <1>9, <2>1 DEF Histories
<1>14. Receiving(p)
  BY <1>10, <1>11, <1>12, <1>13 DEF Receiving
<1>15. ASSUME OutExchanges, InExchanges, Promised
       PROVE  OutExchanges' /\ InExchanges' /\ Promised'
  <2> DEFINE S == Stream(a, b)
  <2>1. /\ Orderly(a, b) /\ Orderly(b, a)
        /\ OutPackets(outgoing, app.kept, broker.held, seen.delivered, seen.sent, S)
        /\ OutAgreed(outgoing, app.kept, budget.out, broker.held, seen.delivered, TRUE)
    BY <1>2, <1>15 DEF OutExchanges, InExchanges
  <2>2. /\ Orderly(Tail(a), Append(b, q)) /\ Stream(Tail(a), Append(b, q)) = (S \ {p}) \cup {q}
        /\ Orderly(Append(b, q), Tail(a)) /\ Stream(Append(b, q), Tail(a)) = Stream(b, a)
        /\ p \in S
    BY <1>4, <1>10, <2>1, Trading
  <2>3. Distinct(S)
    BY <2>1, OrderlyDistinct
  <2>4. KeptRight(outgoing, app.kept, budget.out)
    BY Splitting
  <2>5. Storing(outgoing, app.kept, budget.out, broker.held, seen.delivered, seen.sent, S, p, q, hh, dd)
    BY <1>2, <1>4, <2>1, <2>2, <2>3, <2>4 DEF Storing, q, hh, dd
  <2> HIDE DEF S
  <2>6. /\ OutAgreed(outgoing, app.kept, budget.out, hh, dd, TRUE)
        /\ OutPackets(outgoing, app.kept, hh, dd, seen.sent, (S \ {p}) \cup {q})
        /\ ~again
    <3>1. OutAgreed(outgoing, app.kept, budget.out, hh, dd, TRUE)
      BY ONLY <2>5, OutStored
    <3>2. OutPackets(outgoing, app.kept, hh, dd, seen.sent, (S \ {p}) \cup {q})
      BY ONLY <2>5, OutStored
    <3>3. ~(p.qos = 2 /\ p.id \notin broker.held /\ p.msg \in seen.delivered)
      BY ONLY <2>5, OutStored
    <3> QED
      BY <3>1, <3>2, <3>3 DEF again
  <2>7. OutExchanges'
    BY <1>2, <1>10, <1>11, <1>12, <1>15, <2>2, <2>6 DEF OutExchanges
  <2>8. InExchanges'
    BY <1>10, <1>11, <1>12, <1>15, <2>2, InStays
  <2>9. seen.delivered \subseteq dd
    BY DEF dd
  <2> QED
    BY <1>12, <1>15, <2>6, <2>7, <2>8, <2>9 DEF Promised
<1> QED
  BY <1>14, <1>15, ReceivingKeeps

(* The broker takes a PUBREL.                                               *)
BrokerReleases(p) ==
    /\ p.type = "PUBREL"
    /\ link' = Answering(Packet("PUBCOMP", p.id))
    /\ broker' = [broker EXCEPT !.held = @ \ {p.id}]
    /\ UNCHANGED seen

LEMMA StepBrokerReleases ==
    ASSUME ExchangeInv, link.up, link.toBroker # <<>>, NEW p, p = Head(link.toBroker), BrokerReleases(p),
           UNCHANGED <<outgoing, incoming, app, budget>>
    PROVE  ExchangeInv'
<1> DEFINE q == Packet("PUBCOMP", p.id)
           hh == broker.held \ {p.id}
           a == link.toBroker
           b == link.toClient
<1>1. Typed /\ Linked
  BY Splitting
<1>2. /\ a \in Seq(Packets) /\ b \in Seq(Packets) /\ broker \in Brokers /\ seen \in Histories
      /\ broker.held \in SUBSET Ids /\ broker.session = TRUE
  BY <1>1, Fields DEF Typed, Linked
<1>3. p \in Packets
  BY <1>2, PartTail
<1>4. p.type = "PUBREL" /\ p.id \in Ids /\ p.type \in Requests
  BY <1>3 DEF BrokerReleases, Packets, Requests
<1>5. q \in Packets /\ q.id = p.id /\ q.type \in Answers
  BY <1>4, AckPacket DEF Answers
<1>6. link' = Answering(q) /\ broker' = [broker EXCEPT !.held = hh] /\ seen' = seen /\ hh \in SUBSET Ids
  BY <1>2 DEF BrokerReleases
<1> HIDE DEF q, hh
<1>7. /\ link' \in Links /\ link'.up = TRUE /\ link'.toBroker = Tail(a)
      /\ link'.toClient = Append(b, q) /\ Answered(a, b, p, q)
  BY <1>1, <1>4, <1>5, <1>6, BrokerTrades
<1>8. /\ broker' \in Brokers /\ broker'.held = hh /\ broker'.session = broker.session
      /\ broker'.flight = broker.flight
  BY <1>2, <1>6 DEF Brokers
<1>9. Receiving(p)
  BY <1>2, <1>6, <1>7, <1>8 DEF Receiving
<1>10. ASSUME OutExchanges, InExchanges, Promised
       PROVE  OutExchanges' /\ InExchanges' /\ Promised'
  <2> DEFINE S == Stream(a, b)
  <2>1. /\ Orderly(a, b) /\ Orderly(b, a)
        /\ OutPackets(outgoing, app.kept, broker.held, seen.delivered, seen.sent, S)
        /\ OutAgreed(outgoing, app.kept, budget.out, broker.held, seen.delivered, TRUE)
    BY <1>2, <1>10 DEF OutExchanges, InExchanges
  <2>2. /\ Orderly(Tail(a), Append(b, q)) /\ Stream(Tail(a), Append(b, q)) = (S \ {p}) \cup {q}
        /\ Orderly(Append(b, q), Tail(a)) /\ Stream(Append(b, q), Tail(a)) = Stream(b, a)
        /\ p \in S
    BY <1>4, <1>7, <2>1, Trading
  <2>3. Distinct(S)
    BY <2>1, OrderlyDistinct
  <2>4. Releasing(outgoing, app.kept, budget.out, broker.held, seen.delivered, seen.sent, S, p, q, hh)
    BY <1>4, <2>1, <2>2, <2>3 DEF Releasing, q, hh
  <2> HIDE DEF S
  <2>5. OutAgreed(outgoing, app.kept, budget.out, hh, seen.delivered, TRUE)
    BY ONLY <2>4, OutReleased
  <2>6. OutPackets(outgoing, app.kept, hh, seen.delivered, seen.sent, (S \ {p}) \cup {q})
    BY ONLY <2>4, OutReleased
  <2>7. OutExchanges'
    BY <1>2, <1>6, <1>7, <1>8, <1>10, <2>2, <2>5, <2>6 DEF OutExchanges
  <2>8. InExchanges'
    BY <1>6, <1>7, <1>8, <1>10, <2>2, InStays
  <2> QED
    BY <1>6, <1>10, <2>7, <2>8 DEF Promised
<1> QED
  BY <1>9, <1>10, ReceivingKeeps

(* The broker takes a PUBREC.                                               *)
BrokerConfirms(p) ==
    /\ p.type = "PUBREC"
    /\ link' = Answering(Packet("PUBREL", p.id))
    /\ broker' = [broker EXCEPT !.flight = ReleaseIn(broker.flight, p.id)]
    /\ UNCHANGED seen

LEMMA StepBrokerConfirms ==
    ASSUME ExchangeInv, link.up, link.toBroker # <<>>, NEW p, p = Head(link.toBroker), BrokerConfirms(p),
           UNCHANGED <<outgoing, incoming, app, budget>>
    PROVE  ExchangeInv'
<1> DEFINE q == Packet("PUBREL", p.id)
           s == broker.flight
           r == ReleaseIn(s, p.id)
           ff == ReleaseAll(In(s), p.id)
           a == link.toBroker
           b == link.toClient
<1>1. Typed /\ Linked
  BY Splitting
<1>2. /\ a \in Seq(Packets) /\ b \in Seq(Packets) /\ broker \in Brokers /\ seen \in Histories
      /\ s \in Seq(Flights) /\ broker.session = TRUE
  BY <1>1, Fields DEF Typed, Linked
<1>3. p \in Packets
  BY <1>2, PartTail
<1>4. p.type = "PUBREC" /\ p.id \in Ids /\ p.type \in Answers
  BY <1>3 DEF BrokerConfirms, Packets, Answers
<1>5. q \in Packets /\ q.id = p.id /\ q.type \in Requests
  BY <1>4, AckPacket DEF Requests
<1>6. link' = Answering(q) /\ broker' = [broker EXCEPT !.flight = r] /\ seen' = seen
  BY DEF BrokerConfirms
<1> HIDE DEF q, r, ff
<1>7. r \in Seq(Flights) /\ In(r) = ff /\ (Apart(s) => Apart(r))
  BY <1>2, FlightReleased DEF r, ff
<1>8. /\ link' \in Links /\ link'.up = TRUE /\ link'.toBroker = Tail(a)
      /\ link'.toClient = Append(b, q) /\ Answered(a, b, p, q)
  BY <1>1, <1>4, <1>5, <1>6, BrokerTrades
<1>9. /\ broker' \in Brokers /\ broker'.held = broker.held /\ broker'.session = broker.session
      /\ broker'.flight = r
  BY <1>2, <1>6, <1>7 DEF Brokers
<1>10. Receiving(p)
  BY <1>2, <1>6, <1>8, <1>9 DEF Receiving
<1>11. ASSUME OutExchanges, InExchanges, Promised
       PROVE  OutExchanges' /\ InExchanges' /\ Promised'
  <2> DEFINE S == Stream(b, a)
  <2>1. /\ Orderly(a, b) /\ Orderly(b, a) /\ Apart(s)
        /\ InPackets(incoming, In(s), seen.got, S) /\ InAgreed(incoming, In(s), seen.got, budget.in, TRUE)
    BY <1>2, <1>11 DEF OutExchanges, InExchanges
  <2>2. /\ Orderly(Tail(a), Append(b, q)) /\ Stream(Tail(a), Append(b, q)) = Stream(a, b)
        /\ Orderly(Append(b, q), Tail(a)) /\ Stream(Append(b, q), Tail(a)) = (S \ {p}) \cup {q}
        /\ p \in S
    BY <1>4, <1>8, <2>1, Trading
  <2>3. Distinct(S)
    BY <2>1, OrderlyDistinct
  <2>4. /\ \A f \in In(s) : f \in Flights
        /\ \A x \in IdsOf(incoming) : At(incoming, x).id = x
    BY <1>1, <1>2, Tables DEF In
  <2>5. Confirming(incoming, In(s), seen.got, budget.in, S, p, q, ff)
    BY <1>4, <2>1, <2>2, <2>3, <2>4 DEF Confirming, q, ff
  <2> HIDE DEF S
  <2>6. InAgreed(incoming, ff, seen.got, budget.in, TRUE)
    BY ONLY <2>5, InReleased
  <2>7. InPackets(incoming, ff, seen.got, (S \ {p}) \cup {q})
    BY ONLY <2>5, InReleased
  <2>8. InExchanges'
    BY <1>2, <1>6, <1>7, <1>8, <1>9, <1>11, <2>1, <2>2, <2>6, <2>7 DEF InExchanges
  <2>9. OutExchanges'
    BY <1>6, <1>8, <1>9, <1>11, <2>2, OutStays
  <2> QED
    BY <1>6, <1>11, <2>8, <2>9 DEF Promised
<1> QED
  BY <1>10, <1>11, ReceivingKeeps

(* The broker takes the last packet of an exchange.                         *)
BrokerCloses(p) ==
    /\ p.type \in {"PUBACK", "PUBCOMP"}
    /\ link' = [link EXCEPT !.toBroker = Tail(@)]
    /\ broker' = [broker EXCEPT !.flight = BesidesIn(broker.flight, p.id)]
    /\ seen' = [seen EXCEPT !.acked = @ \cup {f.msg : f \in {g \in In(broker.flight) : g.id = p.id}}]

LEMMA StepBrokerCloses ==
    ASSUME ExchangeInv, link.up, link.toBroker # <<>>, NEW p, p = Head(link.toBroker), BrokerCloses(p),
           UNCHANGED <<outgoing, incoming, app, budget>>
    PROVE  ExchangeInv'
<1> DEFINE s == broker.flight
           r == BesidesIn(s, p.id)
           ff == Besides(In(s), p.id)
           done == {f.msg : f \in {g \in In(s) : g.id = p.id}}
           a == link.toBroker
           b == link.toClient
<1>1. Typed /\ Linked
  BY Splitting
<1>2. /\ a \in Seq(Packets) /\ b \in Seq(Packets) /\ broker \in Brokers /\ seen \in Histories
      /\ s \in Seq(Flights) /\ broker.session = TRUE /\ link \in Links /\ seen.acked \in SUBSET Nat
  BY <1>1, Fields DEF Typed, Linked
<1>3. p \in Packets /\ Tail(a) \in Seq(Packets)
  BY <1>2, PartTail
<1>4. p.type \in {"PUBACK", "PUBCOMP"} /\ p.id \in Ids /\ p.type \in Answers
  BY <1>3 DEF BrokerCloses, Packets, Answers
<1>5. /\ link' = [link EXCEPT !.toBroker = Tail(a)] /\ broker' = [broker EXCEPT !.flight = r]
      /\ seen' = [seen EXCEPT !.acked = seen.acked \cup done]
  BY DEF BrokerCloses
<1>6. \A f \in In(s) : f \in Flights
  BY <1>2 DEF In
<1>7. seen.acked \cup done \in SUBSET Nat
  BY <1>2, <1>6 DEF Flights
<1> HIDE DEF r, ff, done
<1>8. r \in Seq(Flights) /\ In(r) = ff /\ (Apart(s) => Apart(r))
  BY <1>2, FlightOver DEF r, ff
<1>9. /\ link' \in Links /\ link'.up = TRUE /\ link'.toBroker = Tail(a) /\ link'.toClient = b
  BY <1>2, <1>3, <1>5 DEF Links
<1>10. /\ broker' \in Brokers /\ broker'.held = broker.held /\ broker'.session = broker.session
       /\ broker'.flight = r
  BY <1>2, <1>5, <1>8 DEF Brokers
<1>11. /\ seen' \in Histories /\ seen'.delivered = seen.delivered /\ seen'.repeated = seen.repeated
       /\ seen'.got = seen.got /\ seen'.finished = seen.finished /\ seen'.acked = seen.acked \cup done
       /\ seen'.recs = seen.recs /\ seen'.sent = seen.sent /\ seen'.mixed = seen.mixed
  BY <1>2, <1>5, <1>7 DEF Histories
<1>12. Receiving(p)
  BY <1>9, <1>10, <1>11 DEF Receiving
<1>13. ASSUME OutExchanges, InExchanges, Promised
       PROVE  OutExchanges' /\ InExchanges' /\ Promised'
  <2> DEFINE S == Stream(b, a)
  <2>1. /\ Orderly(a, b) /\ Orderly(b, a) /\ Apart(s)
        /\ InPackets(incoming, In(s), seen.got, S) /\ InAgreed(incoming, In(s), seen.got, budget.in, TRUE)
    BY <1>2, <1>13 DEF OutExchanges, InExchanges
  <2>2. /\ Orderly(Tail(a), b) /\ Stream(Tail(a), b) = Stream(a, b)
        /\ Orderly(b, Tail(a)) /\ Stream(b, Tail(a)) = S \ {p}
        /\ p \in S
    BY <1>2, <1>4, <2>1, Unanswered
  <2>3. Distinct(S)
    BY <2>1, OrderlyDistinct
  <2>4. \A x \in IdsOf(incoming) : At(incoming, x).id = x
    BY <1>1, Tables
  <2>5. Closing(incoming, In(s), seen.got, budget.in, S, p, ff)
    BY <1>4, <2>1, <2>2, <2>3, <2>4 DEF Closing, ff
  <2>6. \A f \in In(s) : f.id = p.id => f.msg \in seen.got
    <3>1. PICK f \in In(s) : InRight(incoming, seen.got, p, f)
      BY <2>1, <2>2 DEF InPackets
    <3>2. f.id = p.id /\ f.msg \in seen.got
      BY <1>4, <3>1 DEF InRight
    <3> QED
      BY <2>1, <3>1, <3>2 DEF InAgreed
  <2>7. done \subseteq seen.got
    BY <2>6 DEF done
  <2> HIDE DEF S
  <2>8. InAgreed(incoming, ff, seen.got, budget.in, TRUE)
    BY ONLY <2>5, InOver
  <2>9. InPackets(incoming, ff, seen.got, S \ {p})
    BY ONLY <2>5, InOver
  <2>10. InExchanges'
    BY <1>2, <1>8, <1>9, <1>10, <1>11, <1>13, <2>1, <2>2, <2>8, <2>9 DEF InExchanges
  <2>11. OutExchanges'
    BY <1>9, <1>10, <1>11, <1>13, <2>2, OutStays
  <2> QED
    BY <1>11, <1>13, <2>7, <2>10, <2>11 DEF Promised
<1> QED
  BY <1>12, <1>13, ReceivingKeeps

(* The broker takes a packet.                                               *)
LEMMA StepBrokerReceives ==
    ASSUME ExchangeInv, BrokerReceives
    PROVE  ExchangeInv'
<1> DEFINE p == Head(link.toBroker)
<1>1. /\ link.up /\ link.toBroker # <<>> /\ UNCHANGED <<outgoing, incoming, app, budget>>
  BY DEF BrokerReceives
<1>2. {broker.flight[k].msg : k \in {j \in DOMAIN broker.flight : broker.flight[j].id = p.id}}
        = {f.msg : f \in {g \in In(broker.flight) : g.id = p.id}}
  BY DEF In
<1>3. BrokerTakes(p) \/ BrokerReleases(p) \/ BrokerConfirms(p) \/ BrokerCloses(p)
  BY <1>2 DEF BrokerReceives, BrokerTakes, BrokerReleases, BrokerConfirms, BrokerCloses, ReleaseIn, Release,
              BesidesIn, FlightWithout
<1> QED
  BY <1>1, <1>3, StepBrokerTakes, StepBrokerReleases, StepBrokerConfirms, StepBrokerCloses

-----------------------------------------------------------------------------
(* What the client does to a packet                                         *)

(* The parts of the state that stay.                                        *)
Handling(p) ==
    /\ link.up /\ link.toClient # <<>> /\ p = Head(link.toClient)
    /\ broker' = broker /\ budget' = budget

(* The link goes on without the packet, with an answer, or is given up.     *)
Quiet == link' = [link EXCEPT !.toClient = Tail(@)]
Replying(q) == link' = Sending([link EXCEPT !.toClient = Tail(@)], q)

LEMMA ClientQuiet ==
    ASSUME Typed, Linked, NEW p, Handling(p), Quiet
    PROVE  /\ link' \in Links /\ link'.up = TRUE /\ link'.toClient = Tail(link.toClient)
           /\ link'.toBroker = link.toBroker
<1>1. /\ link \in Links /\ link.toClient \in Seq(Packets)
  BY Fields DEF Typed
<1>2. Tail(link.toClient) \in Seq(Packets) /\ link.up = TRUE
  BY <1>1, PartTail DEF Handling, Links
<1> QED
  BY <1>1, <1>2 DEF Quiet, Links

LEMMA ClientTrades ==
    ASSUME Typed, Linked, NEW p, NEW q, Handling(p), q \in Packets, q.id = p.id,
           (p.type \in Requests /\ q.type \in Answers) \/ (p.type \in Answers /\ q.type \in Requests),
           Replying(q)
    PROVE  /\ link' \in Links /\ link'.up = TRUE /\ link'.toClient = Tail(link.toClient)
           /\ Answered(link.toClient, link.toBroker, p, q)
           /\ link'.toBroker = Append(link.toBroker, q)
<1>1. /\ link \in Links /\ link.toBroker \in Seq(Packets) /\ link.toClient \in Seq(Packets)
  BY Fields DEF Typed
<1>2. Answered(link.toClient, link.toBroker, p, q)
  BY <1>1 DEF Answered, Handling
<1> DEFINE rest == [link EXCEPT !.toClient = Tail(link.toClient)]
<1>3. Tail(link.toClient) \in Seq(Packets) /\ link.up = TRUE
  BY <1>1, PartTail DEF Handling, Links
<1>4. /\ rest \in Links /\ rest.up = TRUE /\ rest.toClient = Tail(link.toClient)
      /\ rest.toBroker = link.toBroker
  BY <1>1, <1>3 DEF Links
<1> HIDE DEF rest
<1>5. link' = Sending(rest, q)
  BY DEF Replying, rest
<1> QED
  BY <1>2, <1>4, <1>5, LinkKinds

(* addRecord for a message that comes in.                                   *)
Admitting(n, t, p, r) ==
    /\ n \in Nat \ {0} /\ IsTable(t, n, InStates)
    /\ p \in Packets /\ p.type = "PUBLISH"
    /\ r = Added(t, Record(p.id, p.qos, ReceivedState(p.qos)))

LEMMA Admitted ==
    ASSUME NEW n, NEW t, NEW p, NEW r, Admitting(n, t, p, r)
    PROVE  /\ p.id \in Ids /\ p.qos \in {1, 2} /\ p.msg \in Nat
           /\ r.status \in {"Success", "NoMemory", "StateCollision"} /\ IsTable(r.table, n, InStates)
           /\ r.status = "NoMemory" => p.id \notin IdsOf(t)
           /\ r.status = "StateCollision" => p.id \in IdsOf(t)
           /\ r.status # "Success" => IdsOf(r.table) = IdsOf(t) /\ \A id : At(r.table, id) = At(t, id)
           /\ r.status = "Success" =>
                /\ p.id \notin IdsOf(t)
                /\ Changed(t, r.table, p.id, Record(p.id, p.qos, ReceivedState(p.qos)))
<1> DEFINE rec == Record(p.id, p.qos, ReceivedState(p.qos))
<1>1. p.id \in Ids /\ p.qos \in {1, 2} /\ p.msg \in Nat
  BY DEF Admitting, Packets
<1>2. rec \in Entry(InStates) /\ rec.id = p.id
  BY <1>1 DEF Record, ReceivedState, Entry, InStates
<1> HIDE DEF rec
<1>3. r = Added(t, rec)
  BY DEF Admitting, rec
<1>4. /\ r.status \in {"Success", "NoMemory", "StateCollision"}
      /\ r.status = "StateCollision" <=> rec.id \in IdsOf(t)
      /\ IsTable(r.table, n, InStates)
      /\ r.status # "Success" => Agree(t, r.table)
      /\ r.status = "Success" => Extended(t, r.table, rec)
  BY <1>2, <1>3, StatesApart, Adding DEF Admitting
<1> QED
  BY <1>1, <1>2, <1>4 DEF Agree, Extended, Changed, rec

(* The record follows the acknowledgement of a message.                     *)
AckOf(p) == IF p.qos = 1 THEN "PUBACK" ELSE "PUBREC"
Acknowledged(n, c, p, d) ==
    /\ n \in Nat \ {0} /\ IsTable(c, n, InStates)
    /\ p.id \in Ids /\ p.qos \in {1, 2} /\ p.type = "PUBLISH"
    /\ d = Updated(c, p.id, AckOf(p), TRUE).table
InPlaceOf(c, flights, got, in, packets, p) ==
    /\ InAgreed(c, flights, got, in, TRUE) /\ InPackets(c, flights, got, packets)
    /\ p \in packets /\ p.id \in IdsOf(c)

LEMMA AcknowledgedTable ==
    ASSUME NEW n, NEW c, NEW p, NEW d, Acknowledged(n, c, p, d)
    PROVE  IsTable(d, n, InStates)
<1>1. AckOf(p) \in Answers
  BY DEF AckOf, Answers
<1> DEFINE u == Updated(c, p.id, AckOf(p), TRUE)
<1>2. Follows(n, c, p.id, AckOf(p), TRUE, u) /\ d = u.table
  BY <1>1 DEF Acknowledged, Follows
<1> HIDE DEF u
<1> QED
  BY <1>2, Following

LEMMA AcknowledgedRecord ==
    ASSUME NEW n, NEW c, NEW p, NEW d, Acknowledged(n, c, p, d),
           NEW flights, NEW got, NEW in, NEW packets, InPlaceOf(c, flights, got, in, packets, p)
    PROVE  /\ p.qos = 1 => IdsOf(d) = IdsOf(c) \ {p.id} /\ \A x : x # p.id => At(d, x) = At(c, x)
           /\ p.qos = 2 => Restated(c, d, p.id, "PubRelPending")
           /\ At(c, p.id).id = p.id /\ At(c, p.id) \in Entry(InStates)
<1> DEFINE u == Updated(c, p.id, AckOf(p), TRUE)
           rec == At(c, p.id)
<1>1. /\ n \in Nat \ {0} /\ IsTable(c, n, InStates) /\ p.id \in Ids /\ p.qos \in {1, 2}
      /\ p.type = "PUBLISH" /\ d = u.table /\ p.id \in IdsOf(c)
  BY DEF Acknowledged, InPlaceOf
<1>2. rec.id = p.id /\ rec \in Entry(InStates) /\ rec.state \in InStates /\ rec.qos \in {1, 2}
  BY <1>1, AtId, StatesApart
<1>3. PICK f \in flights : InRight(c, got, p, f)
  BY DEF InPlaceOf, InPackets
<1>4. f.id = p.id /\ f.qos = p.qos /\ f.state = "sent"
  BY <1>1, <1>3 DEF InRight
<1>5. PICK g \in flights : Fits(rec, g, got)
  BY <1>1 DEF InPlaceOf, InAgreed
<1>6. g = f
  BY <1>2, <1>4, <1>5 DEF InPlaceOf, InAgreed, Fits
<1>7. /\ rec.qos = p.qos
      /\ p.qos = 1 => rec.state = "PubAckSend"
      /\ p.qos = 2 => rec.state \in {"PubRecSend", "PubRelPending"}
  BY <1>2, <1>4, <1>5, <1>6 DEF Fits, InStates
<1>8. AckOf(p) \in Answers /\ (p.qos = 1 => AckOf(p) = "PUBACK") /\ (p.qos = 2 => AckOf(p) = "PUBREC")
  BY DEF AckOf, Answers
<1>9. /\ p.qos = 1 => AckState(AckOf(p), TRUE, rec.qos) = "PublishDone"
      /\ p.qos = 2 => AckState(AckOf(p), TRUE, rec.qos) = "PubRelPending"
  BY <1>2, <1>7, <1>8, AckStates
<1>10. <<rec.state, AckState(AckOf(p), TRUE, rec.qos)>> \in AckTransitions
  BY <1>1, <1>7, <1>9 DEF AckTransitions
<1>14. Follows(n, c, p.id, AckOf(p), TRUE, u)
  BY <1>1, <1>8 DEF Follows
<1> HIDE DEF u, rec
<1>11. /\ Refused(c, p.id, AckOf(p), TRUE, u) \/ TakenAway(c, p.id, AckOf(p), u) \/ Marked(c, p.id, AckOf(p), u)
  BY ONLY <1>14, Following
<1>12. CASE p.qos = 1
  <2>1. d = Without(c, p.id)
    BY <1>1, <1>8, <1>10, <1>11, <1>12 DEF rec, Refused, TakenAway, Marked
  <2>2. Reduced(c, d, p.id)
    BY <1>1, <2>1, StatesApart, Removing
  <2> QED
    BY <1>2, <1>12, <2>2 DEF Reduced, rec
<1>13. CASE p.qos = 2
  <2>1. Restated(c, d, p.id, "PubRelPending")
    BY <1>1, <1>8, <1>10, <1>11, <1>13 DEF rec, Refused, TakenAway, Marked
  <2> QED
    BY <1>2, <1>13, <2>1 DEF rec
<1> QED
  BY <1>1, <1>12, <1>13

(* The invariant behind a packet about an incoming message.                 *)
Incoming(p) ==
    /\ Handling(p) /\ outgoing' = outgoing /\ app' = app
    /\ IsTable(incoming', InMax, InStates) /\ link' \in Links
    /\ seen' \in Histories /\ seen'.recs = seen.recs /\ seen'.sent = seen.sent
    /\ seen'.mixed = seen.mixed /\ seen'.delivered = seen.delivered

LEMMA IncomingKeeps ==
    ASSUME ExchangeInv, NEW p, Incoming(p),
           OutExchanges /\ InExchanges /\ Promised => OutExchanges' /\ InExchanges' /\ Promised'
    PROVE  ExchangeInv'
<1>1. /\ Typed /\ Linked /\ KeptRight(outgoing, app.kept, budget.out)
      /\ PubsInOrder(outgoing, app.kept) /\ RelsInOrder(outgoing, seen.recs)
  BY Splitting
<1>2. Typed'
  BY <1>1 DEF Incoming, Handling, Typed
<1>3. Linked'
  BY <1>1 DEF Incoming, Handling, Linked
<1> QED
  BY <1>1, <1>2, <1>3, Keeping DEF Incoming, Handling

(* The record of a message that comes in, new or again.                     *)
Recorded(t, c, p, r, got, gg) ==
    /\ r.status # "NoMemory" /\ c = r.table
    /\ gg = IF r.status = "Success" THEN got \cup {p.msg} ELSE got

LEMMA InRecorded ==
    ASSUME NEW n, NEW t, NEW p, NEW r, Admitting(n, t, p, r),
           NEW c, NEW got, NEW gg, Recorded(t, c, p, r, got, gg),
           NEW flights, NEW in, NEW packets, InAgreed(t, flights, got, in, TRUE),
           InPackets(t, flights, got, packets), Distinct(packets), p \in packets
    PROVE  /\ InAgreed(c, flights, gg, in, TRUE) /\ InPackets(c, flights, gg, packets)
           /\ p.id \in IdsOf(c) /\ ~(r.status = "Success" /\ p.qos = 2 /\ p.msg \in got)
<1>1. /\ p.id \in Ids /\ p.qos \in {1, 2}
      /\ r.status \in {"Success", "NoMemory", "StateCollision"}
      /\ r.status = "StateCollision" => p.id \in IdsOf(t)
      /\ r.status # "Success" => IdsOf(r.table) = IdsOf(t) /\ \A id : At(r.table, id) = At(t, id)
      /\ r.status = "Success" =>
                /\ p.id \notin IdsOf(t)
                /\ Changed(t, r.table, p.id, Record(p.id, p.qos, ReceivedState(p.qos)))
  BY Admitted
<1>2. CASE r.status = "Success"
  <2>1. Taking(t, flights, got, in, packets, p, c, gg)
    BY <1>1, <1>2 DEF Recorded, Admitting, Taking
  <2>2. /\ InAgreed(c, flights, gg, in, TRUE) /\ InPackets(c, flights, gg, packets)
        /\ ~(p.qos = 2 /\ p.msg \in got)
    BY ONLY <2>1, InTaken
  <2>3. p.id \in IdsOf(c)
    BY <1>1, <1>2 DEF Recorded, Changed
  <2> QED
    BY <2>2, <2>3
<1>3. CASE r.status # "Success"
  <2>1. c = r.table /\ gg = got /\ p.id \in IdsOf(c)
    BY <1>1, <1>3 DEF Recorded
  <2>2. InAgreed(c, flights, got, in, TRUE)
    BY <1>1, <1>3, <2>1, InSame
  <2>3. InPackets(c, flights, got, packets)
    BY <1>1, <1>3, <2>1, InSame
  <2> QED
    BY <1>3, <2>1, <2>2, <2>3
<1> QED
  BY <1>2, <1>3

LEMMA StepReceivePublish ==
    ASSUME ExchangeInv, ReceivePublish
    PROVE  ExchangeInv'
<1> DEFINE p == Head(link.toClient)
           r == Added(incoming, Record(p.id, p.qos, ReceivedState(p.qos)))
           c == r.table
           q == Packet(AckOf(p), p.id)
           d == Updated(c, p.id, AckOf(p), TRUE).table
           gg == IF r.status = "Success" THEN seen.got \cup {p.msg} ELSE seen.got
           again == r.status = "Success" /\ p.qos = 2 /\ p.msg \in seen.got
           a == link.toClient
           b == link.toBroker
           flights == In(broker.flight)
           S == Stream(a, b)
<1>1. Typed /\ Linked
  BY Splitting
<1>2. /\ Handling(p) /\ app' = app /\ p.type = "PUBLISH"
  BY DEF ReceivePublish, Processing, Handling
<1>3. /\ InMax \in Nat \ {0} /\ IsTable(incoming, InMax, InStates)
      /\ a \in Seq(Packets) /\ b \in Seq(Packets) /\ seen \in Histories /\ seen.got \in SUBSET Nat
      /\ broker.session = TRUE /\ a # <<>>
  BY <1>1, <1>2, Tables, Fields DEF Typed, Linked, Handling
<1>4. Admitting(InMax, incoming, p, r)
  BY <1>2, <1>3, PartTail DEF Admitting
<1>5. /\ p.id \in Ids /\ p.qos \in {1, 2} /\ p.msg \in Nat
      /\ r.status \in {"Success", "NoMemory", "StateCollision"} /\ IsTable(c, InMax, InStates)
      /\ r.status = "NoMemory" => p.id \notin IdsOf(incoming)
      /\ r.status # "Success" => IdsOf(c) = IdsOf(incoming) /\ \A id : At(c, id) = At(incoming, id)
  <2> HIDE DEF p, r
  <2> QED
    BY <1>4, Admitted
<1>6. /\ AckOf(p) \in {"PUBACK", "PUBREC"} /\ AckToSend(ReceivedState(p.qos)) = AckOf(p)
      /\ AckToSend("Null") = "none"
  BY <1>5 DEF AckOf, AckToSend, ReceivedState
<1>7. /\ q \in Packets /\ q.id = p.id /\ q.type \in Answers /\ p.type \in Requests
  BY <1>2, <1>5, <1>6, AckPacket DEF Answers, Requests
<1>8. seen' = [seen EXCEPT !.got = gg, !.repeated = (@ \/ again)]
  BY DEF ReceivePublish
<1>9. /\ outgoing' = outgoing
      /\ \/ r.status = "NoMemory" /\ Quiet /\ incoming' = c
         \/ r.status # "NoMemory" /\ Replying(q) /\ incoming' = d
         \/ r.status # "NoMemory" /\ link' = NoLink /\ incoming' = c
  <2>1. AckSent(outgoing, c, p.id, IF r.status = "NoMemory" THEN "Null" ELSE ReceivedState(p.qos))
    BY DEF ReceivePublish
  <2> HIDE DEF p, r, c
  <2>2. CASE r.status = "NoMemory"
    BY <1>6, <2>1, <2>2 DEF AckSent, Quiet
  <2>3. CASE r.status # "NoMemory"
    <3>1. AckSent(outgoing, c, p.id, ReceivedState(p.qos))
      BY <2>1, <2>3
    <3> QED
      BY <1>6, <2>3, <3>1 DEF AckSent, Replying, c
  <2> QED
    BY <2>2, <2>3
<1> HIDE DEF r, q
<1>10. Acknowledged(InMax, c, p, d)
  BY <1>2, <1>3, <1>5 DEF Acknowledged
<1>11. IsTable(d, InMax, InStates)
  <2> HIDE DEF c, d, p
  <2> QED
    BY <1>10, AcknowledgedTable
<1>12. gg \in SUBSET Nat
  BY <1>3, <1>5
<1> HIDE DEF p, c, d, gg, again
<1>13. /\ seen'.got = gg /\ (seen'.repeated <=> seen.repeated \/ again) /\ seen'.delivered = seen.delivered
       /\ seen'.finished = seen.finished /\ seen'.acked = seen.acked
       /\ seen'.recs = seen.recs /\ seen'.sent = seen.sent /\ seen'.mixed = seen.mixed
  BY <1>3, <1>8 DEF Histories
<1>14. seen' \in Histories
  <2>1. (seen.repeated \/ again) \in BOOLEAN
    OBVIOUS
  <2> QED
    BY <1>3, <1>8, <1>12, <2>1 DEF Histories
<1>15. CASE r.status = "NoMemory"
  <2>1. /\ link' \in Links /\ link'.up = TRUE /\ link'.toClient = Tail(a) /\ link'.toBroker = b
    BY <1>1, <1>2, <1>9, <1>15, ClientQuiet
  <2>2. Incoming(p) /\ incoming' = c
    BY <1>2, <1>5, <1>9, <1>13, <1>14, <1>15, <2>1 DEF Incoming
  <2>3. ASSUME OutExchanges, InExchanges, Promised
        PROVE  OutExchanges' /\ InExchanges' /\ Promised'
    <3>1. /\ Orderly(a, b) /\ Orderly(b, a) /\ Apart(broker.flight)
          /\ InPackets(incoming, flights, seen.got, S) /\ InAgreed(incoming, flights, seen.got, budget.in, TRUE)
      BY <1>2, <1>3, <2>3 DEF OutExchanges, InExchanges, Handling
    <3>2. /\ Orderly(Tail(a), b) /\ Stream(Tail(a), b) = S \ {p} /\ p \in S
          /\ Orderly(b, Tail(a)) /\ Stream(b, Tail(a)) = Stream(b, a)
      BY <1>2, <1>3, <1>7, <3>1, Unanswered DEF Handling
    <3>3. Distinct(S)
      BY <3>1, OrderlyDistinct
    <3> HIDE DEF S, flights
    <3>4. InPackets(incoming, flights, seen.got, S \ {p})
      BY <1>5, <1>15, <3>1, <3>2, <3>3, InDropped
    <3>5. /\ IdsOf(c) = IdsOf(incoming) /\ \A id : At(c, id) = At(incoming, id)
      BY <1>5, <1>15
    <3>6. InAgreed(c, flights, seen.got, budget.in, TRUE)
      BY <3>1, <3>5, InSame
    <3>7. InPackets(c, flights, seen.got, S \ {p})
      BY <3>4, <3>5, InSame
    <3>8. gg = seen.got /\ ~again
      BY <1>15 DEF gg, again
    <3>9. InExchanges'
      BY <1>2, <1>3, <1>13, <2>1, <2>2, <3>1, <3>2, <3>6, <3>7, <3>8 DEF InExchanges, Handling, flights
    <3>10. OutExchanges'
      BY <1>2, <1>9, <1>13, <2>1, <2>3, <3>2, OutStays DEF Handling
    <3> QED
      BY <1>13, <2>3, <3>8, <3>9, <3>10 DEF Promised
  <2> QED
    BY <2>2, <2>3, IncomingKeeps
<1>16. ASSUME r.status # "NoMemory", OutExchanges, InExchanges, Promised
       PROVE  /\ Orderly(a, b) /\ Orderly(b, a) /\ Apart(broker.flight) /\ p \in S /\ Distinct(S)
              /\ InAgreed(c, flights, gg, budget.in, TRUE) /\ InPackets(c, flights, gg, S)
              /\ p.id \in IdsOf(c) /\ Promised' /\ OutPackets(outgoing, app.kept, broker.held,
                    seen.delivered, seen.sent, Stream(b, a))
  <2>1. /\ Orderly(a, b) /\ Orderly(b, a) /\ Apart(broker.flight)
        /\ InPackets(incoming, flights, seen.got, S) /\ InAgreed(incoming, flights, seen.got, budget.in, TRUE)
        /\ OutPackets(outgoing, app.kept, broker.held, seen.delivered, seen.sent, Stream(b, a))
    BY <1>2, <1>3, <1>16 DEF OutExchanges, InExchanges, Handling
  <2>2. p \in S /\ Distinct(S)
    BY <1>2, <1>3, <1>7, <2>1, Unanswered, OrderlyDistinct DEF Handling
  <2>3. Recorded(incoming, c, p, r, seen.got, gg)
    BY <1>16 DEF Recorded, c, gg
  <2> HIDE DEF S, flights
  <2>4. /\ InAgreed(c, flights, gg, budget.in, TRUE) /\ InPackets(c, flights, gg, S)
        /\ p.id \in IdsOf(c) /\ ~(r.status = "Success" /\ p.qos = 2 /\ p.msg \in seen.got)
    BY ONLY <1>4, <2>1, <2>2, <2>3, InRecorded
  <2>5. seen.got \subseteq gg
    BY DEF gg
  <2>6. Promised'
    BY <1>13, <1>16, <2>4, <2>5 DEF Promised, again
  <2> QED
    BY <2>1, <2>2, <2>4, <2>6
<1>17. CASE r.status # "NoMemory" /\ link' = NoLink /\ incoming' = c
  <2>1. link' \in Links /\ link'.up = FALSE
    BY <1>17, LinkKinds
  <2>2. Incoming(p)
    BY <1>2, <1>5, <1>9, <1>13, <1>14, <1>17, <2>1 DEF Incoming
  <2>3. ASSUME OutExchanges, InExchanges, Promised
        PROVE  OutExchanges' /\ InExchanges' /\ Promised'
    <3>1. InExchanges'
      BY <1>2, <1>3, <1>13, <1>16, <1>17, <2>1, <2>3 DEF InExchanges, Handling
    <3>2. OutExchanges'
      BY <1>2, <1>9, <1>13, <2>1, <2>3, OutStays DEF Handling
    <3> QED
      BY <1>16, <1>17, <2>3, <3>1, <3>2
  <2> QED
    BY <2>2, <2>3, IncomingKeeps
<1>18. CASE r.status # "NoMemory" /\ Replying(q) /\ incoming' = d
  <2>1. /\ link' \in Links /\ link'.up = TRUE /\ link'.toClient = Tail(a) /\ link'.toBroker = Append(b, q)
        /\ Answered(a, b, p, q)
    BY <1>1, <1>2, <1>7, <1>18, ClientTrades
  <2>2. Incoming(p)
    BY <1>2, <1>9, <1>11, <1>13, <1>14, <1>18, <2>1 DEF Incoming
  <2>3. ASSUME OutExchanges, InExchanges, Promised
        PROVE  OutExchanges' /\ InExchanges' /\ Promised'
    <3>1. /\ Orderly(a, b) /\ Orderly(b, a) /\ Apart(broker.flight) /\ p \in S /\ Distinct(S)
          /\ InAgreed(c, flights, gg, budget.in, TRUE) /\ InPackets(c, flights, gg, S)
          /\ p.id \in IdsOf(c) /\ Promised'
      BY <1>16, <1>18, <2>3
    <3>2. /\ Orderly(Tail(a), Append(b, q)) /\ Stream(Tail(a), Append(b, q)) = (S \ {p}) \cup {q}
          /\ Orderly(Append(b, q), Tail(a)) /\ Stream(Append(b, q), Tail(a)) = Stream(b, a)
      BY <1>7, <2>1, <3>1, Trading
    <3> HIDE DEF S, flights
    <3>3. InPlaceOf(c, flights, gg, budget.in, S, p)
      BY <3>1 DEF InPlaceOf
    <3>4. /\ p.qos = 1 => IdsOf(d) = IdsOf(c) \ {p.id} /\ \A x : x # p.id => At(d, x) = At(c, x)
          /\ p.qos = 2 => Restated(c, d, p.id, "PubRelPending")
          /\ At(c, p.id).id = p.id /\ At(c, p.id) \in Entry(InStates)
      BY ONLY <1>10, <3>3, AcknowledgedRecord
    <3>5. Acking(c, flights, gg, budget.in, S, p, q, d)
      BY <1>2, <1>5, <3>1, <3>4 DEF Acking, q, AckOf
    <3>6. InAgreed(d, flights, gg, budget.in, TRUE)
      BY ONLY <3>5, InAcked
    <3>7. InPackets(d, flights, gg, (S \ {p}) \cup {q})
      BY ONLY <3>5, InAcked
    <3>8. InExchanges'
      BY <1>2, <1>3, <1>13, <1>18, <2>1, <3>1, <3>2, <3>6, <3>7 DEF InExchanges, Handling, flights
    <3>9. OutExchanges'
      BY <1>2, <1>9, <1>13, <2>1, <2>3, <3>2, OutStays DEF Handling
    <3> QED
      BY <3>1, <3>8, <3>9
  <2> QED
    BY <2>2, <2>3, IncomingKeeps
<1> QED
  BY <1>9, <1>15, <1>17, <1>18

(* A PUBREL arrives: its record is marked, the PUBCOMP goes out, and the    *)
(* record is taken away.                                                    *)
LEMMA StepReceiveRel ==
    ASSUME ExchangeInv, ReceiveAck, Head(link.toClient).type = "PUBREL"
    PROVE  ExchangeInv'
<1> DEFINE p == Head(link.toClient)
           u == Updated(incoming, p.id, "PUBREL", FALSE)
           c == u.table
           q == Packet("PUBCOMP", p.id)
           v == Updated(c, p.id, "PUBCOMP", TRUE)
           d == v.table
           a == link.toClient
           b == link.toBroker
           flights == In(broker.flight)
           S == Stream(a, b)
<1>1. Typed /\ Linked
  BY Splitting
<1>2. Handling(p) /\ p.type = "PUBREL"
  BY DEF ReceiveAck, Processing, Handling
<1>3. /\ InMax \in Nat \ {0} /\ IsTable(incoming, InMax, InStates)
      /\ a \in Seq(Packets) /\ b \in Seq(Packets) /\ seen \in Histories /\ app \in Apps
      /\ broker.session = TRUE /\ a # <<>>
  BY <1>1, <1>2, Tables, Fields DEF Typed, Linked, Handling
<1>4. p \in Packets /\ p.id \in Ids
  BY <1>3, PartTail DEF Packets
<1>5. q \in Packets /\ q.id = p.id /\ q.type \in Answers /\ p.type \in Requests
  BY <1>2, <1>4, AckPacket DEF Answers, Requests
<1>6. /\ app' = [app EXCEPT !.kept = [app.kept EXCEPT ![p.id] = app.kept[p.id]]]
      /\ AckSent(outgoing, c, p.id, IF u.status = "Success" THEN u.state ELSE "Null")
      /\ seen' = [seen EXCEPT !.finished = seen.finished, !.sent = seen.sent,
                              !.recs = IF u.state = "PubRelSend" THEN Append(@, p.id) ELSE @]
  <2> DEFINE w == Updated(IF p.type = "PUBREL" THEN incoming ELSE outgoing, p.id, p.type, FALSE)
  <2>1. w = u
    BY <1>2
  <2>2. app' = [app EXCEPT !.kept[p.id] = IF p.type # "PUBREL" /\ w.state = "PublishDone"
                                          THEN NoMessage ELSE @]
    BY DEF ReceiveAck
  <2>3. AckSent(IF p.type = "PUBREL" THEN outgoing ELSE w.table,
                IF p.type = "PUBREL" THEN w.table ELSE incoming, p.id,
                IF w.status = "Success" THEN w.state ELSE "Null")
    BY DEF ReceiveAck
  <2>4. LET done == p.type # "PUBREL" /\ w.state = "PublishDone"
        IN seen' = [seen EXCEPT
                !.finished = IF done THEN @ \cup {app.kept[p.id].msg} ELSE @,
                !.sent = IF done THEN @ \ {p.id} ELSE @,
                !.recs = CASE w.state = "PubRelSend" -> Append(@, p.id)
                           [] done -> Picked(@, {k \in DOMAIN @ : @[k] # p.id})
                           [] OTHER -> @]
    BY DEF ReceiveAck
  <2> HIDE DEF p, u, w
  <2>5. app' = [app EXCEPT !.kept = [app.kept EXCEPT ![p.id] = app.kept[p.id]]]
    BY <1>2, <2>2
  <2>6. AckSent(outgoing, c, p.id, IF u.status = "Success" THEN u.state ELSE "Null")
    BY <1>2, <2>1, <2>3
  <2>7. CASE u.state = "PubRelSend"
    BY <1>2, <2>1, <2>4, <2>5, <2>6, <2>7
  <2>8. CASE u.state # "PubRelSend"
    BY <1>2, <2>1, <2>4, <2>5, <2>6, <2>8
  <2> QED
    BY <2>7, <2>8
<1>7. Follows(InMax, incoming, p.id, "PUBREL", FALSE, u)
  BY <1>3, <1>4 DEF Follows
<1> HIDE DEF p, u, q
<1>8. /\ Refused(incoming, p.id, "PUBREL", FALSE, u) \/ Marked(incoming, p.id, "PUBREL", u)
      /\ IsTable(c, InMax, InStates)
  <2>1. ~TakenAway(incoming, p.id, "PUBREL", u)
    BY DEF TakenAway
  <2> QED
    BY <1>7, <2>1, Following
<1>9. u.state # "PubRelSend"
  BY <1>8 DEF Refused, Marked
<1>10. app' = app
  <2>1. app.kept \in [Ids -> Messages]
    BY <1>1, Fields
  <2>2. [app.kept EXCEPT ![p.id] = app.kept[p.id]] = app.kept
    BY <2>1
  <2> QED
    BY <1>3, <1>6, <2>2 DEF Apps
<1>11. /\ seen'.got = seen.got /\ seen'.repeated = seen.repeated /\ seen'.delivered = seen.delivered
       /\ seen'.finished = seen.finished /\ seen'.acked = seen.acked
       /\ seen'.recs = seen.recs /\ seen'.sent = seen.sent /\ seen'.mixed = seen.mixed
       /\ seen' \in Histories
  <2>1. seen' = [seen EXCEPT !.finished = seen.finished, !.sent = seen.sent, !.recs = seen.recs]
    BY <1>6, <1>9
  <2> QED
    BY <1>3, <2>1 DEF Histories
<1>12. Follows(InMax, c, p.id, "PUBCOMP", TRUE, v)
  BY <1>3, <1>4, <1>8 DEF Follows, Answers
<1>13. /\ IsTable(d, InMax, InStates)
       /\ Refused(c, p.id, "PUBCOMP", TRUE, v) \/ TakenAway(c, p.id, "PUBCOMP", v)
  <2> HIDE DEF v, c
  <2>1. ~Marked(c, p.id, "PUBCOMP", v)
    BY DEF Marked
  <2> QED
    BY <1>12, <2>1, Following
<1>14. CASE Refused(incoming, p.id, "PUBREL", FALSE, u)
  <2>1. Quiet /\ outgoing' = outgoing /\ incoming' = incoming
    <3>1. u.status # "Success" /\ c = incoming
      BY <1>14 DEF Refused
    <3>2. AckSent(outgoing, incoming, p.id, "Null")
      BY <1>6, <3>1
    <3>3. AckToSend("Null") = "none"
      BY DEF AckToSend
    <3> QED
      BY <3>2, <3>3 DEF AckSent, Quiet
  <2>2. /\ link' \in Links /\ link'.up = TRUE /\ link'.toClient = Tail(a) /\ link'.toBroker = b
    BY <1>1, <1>2, <2>1, ClientQuiet
  <2>3. Incoming(p)
    BY <1>2, <1>3, <1>10, <1>11, <2>1, <2>2 DEF Incoming
  <2>4. ASSUME OutExchanges, InExchanges, Promised
        PROVE  OutExchanges' /\ InExchanges' /\ Promised'
    <3>1. /\ Orderly(a, b) /\ Orderly(b, a) /\ Apart(broker.flight)
          /\ InPackets(incoming, flights, seen.got, S) /\ InAgreed(incoming, flights, seen.got, budget.in, TRUE)
      BY <1>2, <1>3, <2>4 DEF OutExchanges, InExchanges, Handling
    <3>2. /\ Orderly(Tail(a), b) /\ Stream(Tail(a), b) = S \ {p} /\ p \in S
          /\ Orderly(b, Tail(a)) /\ Stream(b, Tail(a)) = Stream(b, a)
      BY <1>2, <1>3, <1>5, <3>1, Unanswered DEF Handling
    <3>3. Distinct(S)
      BY <3>1, OrderlyDistinct
    <3> HIDE DEF S, flights
    <3>4. p.id \notin IdsOf(incoming)
      <4> SUFFICES ASSUME p.id \in IdsOf(incoming)
                   PROVE  FALSE
        OBVIOUS
      <4>1. /\ At(incoming, p.id).id = p.id /\ At(incoming, p.id) \in Entry(InStates)
        BY <1>1, Tables
      <4>2. ForRecord(incoming, flights, seen.got, budget.in, S, p)
        BY <1>2, <3>1, <3>2, <3>3, <4>1 DEF ForRecord
      <4>3. At(incoming, p.id).state \in {"PubRelPending", "PubCompSend"} /\ At(incoming, p.id).qos = 2
        BY ONLY <4>2, InMarked
      <4>4. AckState("PUBREL", FALSE, 2) = "PubCompSend"
        BY DEF AckState
      <4> QED
        BY <1>14, <4>3, <4>4 DEF Refused, AckTransitions
    <3>5. InPackets(incoming, flights, seen.got, S \ {p})
      BY <3>1, <3>2, <3>3, <3>4, InDropped
    <3>6. InExchanges'
      BY <1>2, <1>3, <1>11, <2>1, <2>2, <3>1, <3>2, <3>5 DEF InExchanges, Handling, flights
    <3>7. OutExchanges'
      BY <1>2, <1>10, <1>11, <2>1, <2>2, <2>4, <3>2, OutStays DEF Handling
    <3> QED
      BY <1>11, <2>4, <3>6, <3>7 DEF Promised
  <2> QED
    BY <2>3, <2>4, IncomingKeeps
<1>15. ASSUME Marked(incoming, p.id, "PUBREL", u)
       PROVE  /\ outgoing' = outgoing
              /\ \/ Replying(q) /\ incoming' = d
                 \/ link' = NoLink /\ incoming' = c
  <2>1. AckSent(outgoing, c, p.id, "PubCompSend")
    BY <1>6, <1>15 DEF Marked
  <2>2. AckToSend("PubCompSend") = "PUBCOMP"
    BY DEF AckToSend
  <2> HIDE DEF c
  <2> QED
    BY <2>1, <2>2 DEF AckSent, Replying, q, d, v
<1>16. ASSUME Marked(incoming, p.id, "PUBREL", u), OutExchanges, InExchanges, Promised
       PROVE  /\ Orderly(a, b) /\ Orderly(b, a) /\ Apart(broker.flight) /\ p \in S /\ Distinct(S)
              /\ InAgreed(c, flights, seen.got, budget.in, TRUE) /\ InPackets(c, flights, seen.got, S)
              /\ IdsOf(d) = IdsOf(c) \ {p.id} /\ \A x : x # p.id => At(d, x) = At(c, x)
  <2>1. /\ Orderly(a, b) /\ Orderly(b, a) /\ Apart(broker.flight)
        /\ InPackets(incoming, flights, seen.got, S) /\ InAgreed(incoming, flights, seen.got, budget.in, TRUE)
    BY <1>2, <1>3, <1>16 DEF OutExchanges, InExchanges, Handling
  <2>2. p \in S /\ Distinct(S)
    BY <1>2, <1>3, <1>5, <2>1, Unanswered, OrderlyDistinct DEF Handling
  <2> HIDE DEF S, flights
  <2>3. Restated(incoming, c, p.id, "PubCompSend") /\ p.id \in IdsOf(incoming)
    BY <1>16 DEF Marked
  <2>4. /\ At(incoming, p.id).id = p.id /\ At(incoming, p.id) \in Entry(InStates)
    BY <1>1, <2>3, Tables
  <2>5. ForRecord(incoming, flights, seen.got, budget.in, S, p)
    BY <1>2, <2>1, <2>2, <2>3, <2>4 DEF ForRecord
  <2> HIDE DEF c
  <2>6. At(incoming, p.id).qos = 2
    BY ONLY <2>5, InMarked
  <2>7. InAgreed(c, flights, seen.got, budget.in, TRUE) /\ InPackets(c, flights, seen.got, S)
    BY ONLY <2>3, <2>5, InMarked
  <2>8. At(c, p.id).state = "PubCompSend" /\ At(c, p.id).qos = 2
    BY <2>3, <2>4, <2>6 DEF Restated, Changed, Entry
  <2>9. AckState("PUBCOMP", TRUE, 2) = "PublishDone"
    BY DEF AckState
  <2>10. ~Refused(c, p.id, "PUBCOMP", TRUE, v)
    <3>1. p.id \in IdsOf(c)
      BY <2>3 DEF Restated, Changed
    <3> QED
      BY <2>8, <2>9, <3>1 DEF Refused, AckTransitions
  <2>11. d = Without(c, p.id)
    BY <1>13, <2>10 DEF TakenAway
  <2>12. Reduced(c, d, p.id)
    BY <1>3, <1>4, <1>8, <2>11, StatesApart, Removing DEF c
  <2> QED
    BY <2>1, <2>2, <2>7, <2>12 DEF Reduced
<1> HIDE DEF c, d, v
<1>17. CASE Marked(incoming, p.id, "PUBREL", u) /\ link' = NoLink /\ incoming' = c
  <2>1. link' \in Links /\ link'.up = FALSE
    BY <1>17, LinkKinds
  <2>2. Incoming(p)
    BY <1>2, <1>8, <1>10, <1>11, <1>15, <1>17, <2>1 DEF Incoming
  <2>3. ASSUME OutExchanges, InExchanges, Promised
        PROVE  OutExchanges' /\ InExchanges' /\ Promised'
    <3>1. InExchanges'
      BY <1>2, <1>3, <1>11, <1>16, <1>17, <2>1, <2>3 DEF InExchanges, Handling
    <3>2. OutExchanges'
      BY <1>2, <1>10, <1>11, <1>15, <1>17, <2>1, <2>3, OutStays DEF Handling
    <3> QED
      BY <1>11, <2>3, <3>1, <3>2 DEF Promised
  <2> QED
    BY <2>2, <2>3, IncomingKeeps
<1>18. CASE Marked(incoming, p.id, "PUBREL", u) /\ Replying(q) /\ incoming' = d
  <2>1. /\ link' \in Links /\ link'.up = TRUE /\ link'.toClient = Tail(a) /\ link'.toBroker = Append(b, q)
        /\ Answered(a, b, p, q)
    BY <1>1, <1>2, <1>5, <1>18, ClientTrades
  <2>2. Incoming(p)
    BY <1>2, <1>10, <1>11, <1>13, <1>15, <1>18, <2>1 DEF Incoming
  <2>3. ASSUME OutExchanges, InExchanges, Promised
        PROVE  OutExchanges' /\ InExchanges' /\ Promised'
    <3>1. /\ Orderly(a, b) /\ Orderly(b, a) /\ Apart(broker.flight) /\ p \in S /\ Distinct(S)
          /\ InAgreed(c, flights, seen.got, budget.in, TRUE) /\ InPackets(c, flights, seen.got, S)
          /\ IdsOf(d) = IdsOf(c) \ {p.id} /\ \A x : x # p.id => At(d, x) = At(c, x)
      BY <1>16, <1>18, <2>3
    <3>2. /\ Orderly(Tail(a), Append(b, q)) /\ Stream(Tail(a), Append(b, q)) = (S \ {p}) \cup {q}
          /\ Orderly(Append(b, q), Tail(a)) /\ Stream(Append(b, q), Tail(a)) = Stream(b, a)
      BY <1>5, <2>1, <3>1, Trading
    <3> HIDE DEF S, flights
    <3>3. Completing(c, flights, seen.got, budget.in, S, p, q, d)
      BY <1>2, <3>1 DEF Completing, q
    <3>4. InAgreed(d, flights, seen.got, budget.in, TRUE)
      BY ONLY <3>3, InCompleted
    <3>5. InPackets(d, flights, seen.got, (S \ {p}) \cup {q})
      BY ONLY <3>3, InCompleted
    <3>6. InExchanges'
      BY <1>2, <1>3, <1>11, <1>18, <2>1, <3>1, <3>2, <3>4, <3>5 DEF InExchanges, Handling, flights
    <3>7. OutExchanges'
      BY <1>2, <1>10, <1>11, <1>15, <1>18, <2>1, <2>3, <3>2, OutStays DEF Handling
    <3> QED
      BY <1>11, <2>3, <3>6, <3>7 DEF Promised
  <2> QED
    BY <2>2, <2>3, IncomingKeeps
<1> QED
  BY <1>8, <1>14, <1>15, <1>17, <1>18

(* What an acknowledgement does to the application's side.                  *)
AckEffect(p, u) ==
    /\ u.state = "PublishDone" =>
        /\ app' = [app EXCEPT !.kept = [app.kept EXCEPT ![p.id] = NoMessage]]
        /\ seen' = [seen EXCEPT !.finished = seen.finished \cup {app.kept[p.id].msg},
                                !.sent = seen.sent \ {p.id}, !.recs = Others(seen.recs, p.id)]
    /\ u.state = "PubRelSend" =>
        /\ app' = [app EXCEPT !.kept = [app.kept EXCEPT ![p.id] = app.kept[p.id]]]
        /\ seen' = [seen EXCEPT !.finished = seen.finished, !.sent = seen.sent,
                                !.recs = Append(seen.recs, p.id)]
    /\ u.state = "Null" =>
        /\ app' = [app EXCEPT !.kept = [app.kept EXCEPT ![p.id] = app.kept[p.id]]]
        /\ seen' = [seen EXCEPT !.finished = seen.finished, !.sent = seen.sent,
                                !.recs = seen.recs]

LEMMA AckEffects ==
    ASSUME ReceiveAck, NEW p, p = Head(link.toClient), p.type \in Answers,
           NEW u, u = Updated(outgoing, p.id, p.type, FALSE)
    PROVE  /\ Handling(p) /\ app.stage = "run"
           /\ AckSent(u.table, incoming, p.id, IF u.status = "Success" THEN u.state ELSE "Null")
           /\ AckEffect(p, u)
<1>1. Handling(p) /\ app.stage = "run"
  BY DEF ReceiveAck, Processing, Handling
<1>2. p.type # "PUBREL"
  BY DEF Answers
<1> DEFINE w == Updated(IF p.type = "PUBREL" THEN incoming ELSE outgoing, p.id, p.type, FALSE)
<1>3. w = u
  BY <1>2
<1>4. app' = [app EXCEPT !.kept[p.id] = IF p.type # "PUBREL" /\ w.state = "PublishDone"
                                        THEN NoMessage ELSE @]
  BY DEF ReceiveAck
<1>5. AckSent(IF p.type = "PUBREL" THEN outgoing ELSE w.table,
              IF p.type = "PUBREL" THEN w.table ELSE incoming, p.id,
              IF w.status = "Success" THEN w.state ELSE "Null")
  BY DEF ReceiveAck
<1>6. LET done == p.type # "PUBREL" /\ w.state = "PublishDone"
      IN seen' = [seen EXCEPT
              !.finished = IF done THEN @ \cup {app.kept[p.id].msg} ELSE @,
              !.sent = IF done THEN @ \ {p.id} ELSE @,
              !.recs = CASE w.state = "PubRelSend" -> Append(@, p.id)
                         [] done -> Picked(@, {k \in DOMAIN @ : @[k] # p.id})
                         [] OTHER -> @]
  BY DEF ReceiveAck
<1> HIDE DEF w
<1>7. AckSent(u.table, incoming, p.id, IF u.status = "Success" THEN u.state ELSE "Null")
  BY <1>2, <1>3, <1>5
<1>8. CASE u.state = "PublishDone"
  <2>1. app' = [app EXCEPT !.kept = [app.kept EXCEPT ![p.id] = NoMessage]]
    BY <1>2, <1>3, <1>4, <1>8
  <2>2. seen' = [seen EXCEPT !.finished = seen.finished \cup {app.kept[p.id].msg},
                             !.sent = seen.sent \ {p.id}, !.recs = Others(seen.recs, p.id)]
    BY <1>2, <1>3, <1>6, <1>8 DEF Others
  <2> QED
    BY <1>1, <1>7, <1>8, <2>1, <2>2 DEF AckEffect
<1>9. CASE u.state # "PublishDone"
  <2>1. app' = [app EXCEPT !.kept = [app.kept EXCEPT ![p.id] = app.kept[p.id]]]
    BY <1>2, <1>3, <1>4, <1>9
  <2>2. u.state = "PubRelSend" =>
            seen' = [seen EXCEPT !.finished = seen.finished, !.sent = seen.sent,
                                 !.recs = Append(seen.recs, p.id)]
    BY <1>2, <1>3, <1>6, <1>9
  <2>3. u.state = "Null" =>
            seen' = [seen EXCEPT !.finished = seen.finished, !.sent = seen.sent, !.recs = seen.recs]
    BY <1>2, <1>3, <1>6, <1>9
  <2> QED
    BY <1>1, <1>7, <1>9, <2>1, <2>2, <2>3 DEF AckEffect
<1> QED
  BY <1>8, <1>9

LEMMA KeptSame ==
    ASSUME Typed, NEW id \in Ids, app' = [app EXCEPT !.kept = [app.kept EXCEPT ![id] = app.kept[id]]]
    PROVE  app' = app
<1>1. app.kept \in [Ids -> Messages] /\ app \in Apps
  BY Fields DEF Typed
<1>2. [app.kept EXCEPT ![id] = app.kept[id]] = app.kept
  BY <1>1
<1> QED
  BY <1>1, <1>2 DEF Apps

(* The invariant behind a packet about an outgoing message.                 *)
Outgoing(p) ==
    /\ Handling(p) /\ incoming' = incoming /\ IsTable(outgoing', OutMax, OutStates)
    /\ app' \in Apps /\ app'.stage = "run" /\ link' \in Links /\ seen' \in Histories
    /\ seen'.got = seen.got /\ seen'.acked = seen.acked /\ seen'.repeated = seen.repeated
    /\ seen'.mixed = seen.mixed /\ seen'.delivered = seen.delivered
    /\ KeptRight(outgoing', app'.kept, budget.out)
    /\ PubsInOrder(outgoing', app'.kept) /\ RelsInOrder(outgoing', seen'.recs)

LEMMA OutgoingKeeps ==
    ASSUME ExchangeInv, NEW p, Outgoing(p),
           OutExchanges /\ InExchanges /\ Promised => OutExchanges' /\ InExchanges' /\ Promised'
    PROVE  ExchangeInv'
<1>1. Typed /\ Linked
  BY Splitting
<1>2. Typed'
  BY <1>1 DEF Outgoing, Handling, Typed
<1>3. Linked'
  BY <1>1 DEF Outgoing, Handling, Linked
<1> QED
  BY <1>2, <1>3, Keeping DEF Outgoing, Handling

(* The answer to what the client sent and the record fit together.          *)
Fitting(p) ==
    LET r == At(outgoing, p.id)
    IN /\ p.id \in IdsOf(outgoing) /\ app.kept[p.id].msg \in seen.delivered
       /\ p.type = "PUBACK" => r.state = "PubAckPending" /\ r.qos = 1
       /\ p.type = "PUBREC" => r.state = "PubRecPending" /\ r.qos = 2
       /\ p.type = "PUBCOMP" => r.state = "PubCompPending" /\ r.qos = 2 /\ p.id \notin broker.held
       /\ r.qos = 1 => p.id \notin broker.held

LEMMA AckFits ==
    ASSUME ExchangeInv, NEW p, Handling(p), p.type \in Answers, OutExchanges, InExchanges
    PROVE  /\ Orderly(link.toClient, link.toBroker) /\ Orderly(link.toBroker, link.toClient)
           /\ OutPackets(outgoing, app.kept, broker.held, seen.delivered, seen.sent,
                         Stream(link.toBroker, link.toClient))
           /\ OutAgreed(outgoing, app.kept, budget.out, broker.held, seen.delivered, broker.session)
           /\ p \in Stream(link.toBroker, link.toClient) /\ Distinct(Stream(link.toBroker, link.toClient))
           /\ Fitting(p)
<1> DEFINE a == link.toClient
           b == link.toBroker
           S == Stream(b, a)
<1>1. /\ Typed /\ Linked /\ KeptRight(outgoing, app.kept, budget.out)
  BY Splitting
<1>2. a \in Seq(Packets) /\ b \in Seq(Packets)
  BY <1>1, Fields
<1>3. /\ Orderly(a, b) /\ Orderly(b, a)
      /\ OutPackets(outgoing, app.kept, broker.held, seen.delivered, seen.sent, S)
      /\ OutAgreed(outgoing, app.kept, budget.out, broker.held, seen.delivered, broker.session)
  BY DEF OutExchanges, InExchanges, Handling
<1>4. p \in S /\ Distinct(S)
  BY <1>2, <1>3, Unanswered, OrderlyDistinct DEF Handling
<1>5. OutRight(outgoing, app.kept, broker.held, seen.delivered, p)
  BY <1>3, <1>4 DEF OutPackets
<1>6. p.id \in IdsOf(outgoing) /\ app.kept[p.id].msg \in seen.delivered
  BY <1>5 DEF OutRight
<1>7. /\ At(outgoing, p.id).state = "PubAckPending" => At(outgoing, p.id).qos = 1
      /\ At(outgoing, p.id).state \in {"PubRecPending", "PubRelSend", "PubCompPending"} => At(outgoing, p.id).qos = 2
  BY <1>1, <1>6 DEF KeptRight, RelStates
<1>8. At(outgoing, p.id).qos = 1 => p.id \notin broker.held
  BY <1>3 DEF OutAgreed
<1>9. Fitting(p)
  BY <1>5, <1>6, <1>7, <1>8 DEF Fitting, OutRight
<1> QED
  BY <1>3, <1>4, <1>9

(* The packet is gone, and nothing else of the incoming messages changes.   *)
LEMMA InQuiet ==
    ASSUME ExchangeInv, NEW p, Outgoing(p), p.type \in Answers, InExchanges, OutExchanges,
           link'.up => \/ link'.toClient = Tail(link.toClient) /\ link'.toBroker = link.toBroker
                       \/ \E q : /\ Answered(link.toClient, link.toBroker, p, q)
                                 /\ link'.toClient = Tail(link.toClient)
                                 /\ link'.toBroker = Append(link.toBroker, q)
    PROVE  InExchanges'
<1> DEFINE a == link.toClient
           b == link.toBroker
<1>1. Typed
  BY Splitting
<1>2. a \in Seq(Packets) /\ b \in Seq(Packets) /\ a # <<>> /\ p = Head(a) /\ link.up
  BY <1>1, Fields DEF Outgoing, Handling
<1>3. Orderly(a, b)
  BY <1>2 DEF InExchanges
<1>4. Orderly(Tail(a), b) /\ Stream(Tail(a), b) = Stream(a, b)
  BY <1>2, <1>3, Unanswered
<1>5. ASSUME NEW q, Answered(a, b, p, q)
      PROVE  Orderly(Tail(a), Append(b, q)) /\ Stream(Tail(a), Append(b, q)) = Stream(a, b)
  BY <1>3, <1>5, Trading
<1> HIDE DEF a, b
<1>6. link'.up => /\ Orderly(link'.toClient, link'.toBroker)
                  /\ Stream(link'.toClient, link'.toBroker) = Stream(a, b)
  <2> SUFFICES ASSUME link'.up
               PROVE  /\ Orderly(link'.toClient, link'.toBroker)
                      /\ Stream(link'.toClient, link'.toBroker) = Stream(a, b)
    OBVIOUS
  <2>1. CASE link'.toClient = Tail(link.toClient) /\ link'.toBroker = link.toBroker
    BY <1>4, <2>1 DEF a, b
  <2>2. CASE \E q : /\ Answered(link.toClient, link.toBroker, p, q)
                    /\ link'.toClient = Tail(link.toClient)
                    /\ link'.toBroker = Append(link.toBroker, q)
    <3>1. PICK q : /\ Answered(a, b, p, q)
                   /\ link'.toClient = Tail(a) /\ link'.toBroker = Append(b, q)
      BY <2>2 DEF a, b
    <3>2. Orderly(Tail(a), Append(b, q)) /\ Stream(Tail(a), Append(b, q)) = Stream(a, b)
      BY ONLY <1>5, <3>1
    <3> QED
      BY <3>1, <3>2
  <2> QED
    BY <2>1, <2>2
<1> QED
  BY <1>2, <1>6, InStays DEF Outgoing, Handling, a, b

(* What ReceiveAck does to an answer of the broker.                         *)
Acked(p, u) ==
    /\ Handling(p) /\ app.stage = "run" /\ p.type \in Answers /\ AckEffect(p, u)
    /\ AckSent(u.table, incoming, p.id, IF u.status = "Success" THEN u.state ELSE "Null")

LEMMA AckIds ==
    ASSUME Typed, NEW p, Handling(p)
    PROVE  p \in Packets /\ p.id \in Ids
<1>1. link.toClient \in Seq(Packets)
  BY Fields
<1>2. p \in Packets
  BY <1>1, PartTail DEF Handling
<1> QED
  BY <1>2 DEF Packets

(* Nothing comes of it; it cannot be while the sides agree.                 *)
LEMMA StepAckNothing ==
    ASSUME ExchangeInv, NEW p, NEW u, Acked(p, u), NotAcked(outgoing, p.id, p.type, u)
    PROVE  ExchangeInv'
<1>1. /\ Typed /\ Linked /\ KeptRight(outgoing, app.kept, budget.out)
      /\ PubsInOrder(outgoing, app.kept) /\ RelsInOrder(outgoing, seen.recs)
  BY Splitting
<1>2. /\ Handling(p) /\ app.stage = "run" /\ p.type \in Answers /\ AckEffect(p, u)
      /\ AckSent(u.table, incoming, p.id, IF u.status = "Success" THEN u.state ELSE "Null")
  BY DEF Acked
<1>3. p.id \in Ids
  BY <1>1, <1>2, AckIds
<1>4. u.status # "Success" /\ u.state = "Null" /\ u.table = outgoing
  BY DEF NotAcked
<1>5. Quiet /\ outgoing' = outgoing /\ incoming' = incoming
  <2>1. AckSent(outgoing, incoming, p.id, "Null")
    BY <1>2, <1>4
  <2>2. AckToSend("Null") = "none"
    BY DEF AckToSend
  <2> QED
    BY <2>1, <2>2 DEF AckSent, Quiet
<1>6. app' = app
  BY <1>1, <1>2, <1>3, <1>4, KeptSame DEF AckEffect
<1>7. seen' = seen
  <2>1. seen' = [seen EXCEPT !.finished = seen.finished, !.sent = seen.sent, !.recs = seen.recs]
    BY <1>2, <1>4 DEF AckEffect
  <2> QED
    BY <1>1, <2>1 DEF Typed, Histories
<1>8. /\ link' \in Links /\ link'.up = TRUE /\ link'.toClient = Tail(link.toClient)
      /\ link'.toBroker = link.toBroker
  BY <1>1, <1>2, <1>5, ClientQuiet
<1>9. Outgoing(p)
  BY <1>1, <1>2, <1>5, <1>6, <1>7, <1>8 DEF Outgoing, Typed
<1>10. ASSUME OutExchanges, InExchanges
       PROVE  FALSE
  <2>1. Fitting(p)
    BY <1>2, <1>10, AckFits
  <2>2. p.type \in {"PUBACK", "PUBREC", "PUBCOMP"}
    BY <1>2 DEF Answers
  <2> QED
    BY <2>1, <2>2 DEF Fitting, NotAcked
<1> QED
  BY <1>9, <1>10, OutgoingKeeps

(* The exchange is over.                                                    *)
LEMMA StepAckLast ==
    ASSUME ExchangeInv, NEW p, NEW u, Acked(p, u), AckedLast(outgoing, p.id, p.type, u)
    PROVE  ExchangeInv'
<1> DEFINE a == link.toClient
           b == link.toBroker
           S == Stream(b, a)
           kk == [app.kept EXCEPT ![p.id] = NoMessage]
           c == Without(outgoing, p.id)
<1>1. /\ Typed /\ Linked /\ KeptRight(outgoing, app.kept, budget.out)
      /\ PubsInOrder(outgoing, app.kept) /\ RelsInOrder(outgoing, seen.recs)
  BY Splitting
<1>2. /\ Handling(p) /\ app.stage = "run" /\ p.type \in Answers /\ AckEffect(p, u)
      /\ AckSent(u.table, incoming, p.id, IF u.status = "Success" THEN u.state ELSE "Null")
  BY DEF Acked
<1>3. p \in Packets /\ p.id \in Ids
  BY <1>1, <1>2, AckIds
<1>4. /\ u.status = "Success" /\ u.state = "PublishDone" /\ u.table = c
      /\ p.id \in IdsOf(outgoing) /\ p.type # "PUBREC"
      /\ p.type = "PUBACK" <=> At(outgoing, p.id).qos = 1
  BY DEF AckedLast
<1>5. /\ OutMax \in Nat \ {0} /\ IsTable(outgoing, OutMax, OutStates)
      /\ \A x \in IdsOf(outgoing) : x \in Ids
      /\ a \in Seq(Packets) /\ b \in Seq(Packets) /\ seen \in Histories /\ app \in Apps
      /\ app.kept \in [Ids -> Messages] /\ seen.recs \in Seq(Ids) /\ a # <<>>
      /\ seen.delivered \in SUBSET Nat /\ seen.finished \in SUBSET Nat /\ seen.sent \in SUBSET Ids
  BY <1>1, <1>2, Tables, Fields DEF Typed, Handling
<1>6. IsTable(c, OutMax, OutStates) /\ Reduced(outgoing, c, p.id)
  BY <1>3, <1>5, StatesApart, Removing
<1>7. Finishing(outgoing, app.kept, budget.out, c, p.id, kk)
  BY <1>1, <1>4, <1>5, <1>6 DEF Finishing, Reduced
<1>8. Others(seen.recs, p.id) \in Seq(Ids)
  BY <1>5, PickedSeq DEF Others
<1>9. Quiet /\ outgoing' = c /\ incoming' = incoming
  <2>1. AckSent(c, incoming, p.id, "PublishDone")
    BY <1>2, <1>4
  <2>2. AckToSend("PublishDone") = "none"
    BY DEF AckToSend
  <2> HIDE DEF c
  <2> QED
    BY <2>1, <2>2 DEF AckSent, Quiet
<1>10. /\ link' \in Links /\ link'.up = TRUE /\ link'.toClient = Tail(a) /\ link'.toBroker = b
  BY <1>1, <1>2, <1>9, ClientQuiet
<1> HIDE DEF kk, c
<1>11. KeptRight(c, kk, budget.out) /\ kk \in [Ids -> Messages]
  BY ONLY <1>7, OutDone
<1>12. \A x \in IdsOf(c) : kk[x] = app.kept[x]
  BY ONLY <1>7, OutDone
<1>13. /\ app'.kept = kk /\ app'.stage = "run" /\ app' \in Apps
  <2>1. app' = [app EXCEPT !.kept = kk]
    BY <1>2, <1>4 DEF AckEffect, kk
  <2> QED
    BY <1>2, <1>5, <1>11, <2>1 DEF Apps
<1>14. app.kept[p.id].msg \in Nat
  BY <1>3, <1>5 DEF Messages
<1>15. /\ seen' \in Histories /\ seen'.got = seen.got /\ seen'.acked = seen.acked
       /\ seen'.repeated = seen.repeated /\ seen'.mixed = seen.mixed
       /\ seen'.delivered = seen.delivered /\ seen'.recs = Others(seen.recs, p.id)
       /\ seen'.sent = seen.sent \ {p.id}
       /\ seen'.finished = seen.finished \cup {app.kept[p.id].msg}
  <2> DEFINE ff == seen.finished \cup {app.kept[p.id].msg}
             ss == seen.sent \ {p.id}
             rr == Others(seen.recs, p.id)
  <2>1. seen' = [seen EXCEPT !.finished = ff, !.sent = ss, !.recs = rr]
    BY <1>2, <1>4 DEF AckEffect
  <2>2. ff \in SUBSET Nat /\ ss \in SUBSET Ids /\ rr \in Seq(Ids)
    BY <1>5, <1>8, <1>14
  <2> HIDE DEF ff, ss, rr
  <2>3. /\ seen' \in Histories /\ seen'.got = seen.got /\ seen'.acked = seen.acked
        /\ seen'.repeated = seen.repeated /\ seen'.mixed = seen.mixed
        /\ seen'.delivered = seen.delivered /\ seen'.recs = rr /\ seen'.sent = ss /\ seen'.finished = ff
    BY <1>5, <2>1, <2>2 DEF Histories
  <2> QED
    BY <2>3 DEF ff, ss, rr
<1>16. PubsInOrder(c, kk) /\ RelsInOrder(c, seen'.recs)
  <2>1. PubsInOrder(c, app.kept) /\ RelsInOrder(c, Others(seen.recs, p.id))
    BY <1>1, <1>5, <1>6 DEF Reduced
  <2>2. PubsInOrder(c, kk)
    BY <1>5, <1>6, <1>12, <2>1, PubsSame
  <2> QED
    BY <1>15, <2>1, <2>2
<1>17. Outgoing(p)
  BY <1>2, <1>6, <1>9, <1>10, <1>11, <1>13, <1>15, <1>16 DEF Outgoing
<1>18. ASSUME OutExchanges, InExchanges, Promised
       PROVE  OutExchanges' /\ InExchanges' /\ Promised'
  <2>1. /\ Orderly(a, b) /\ Orderly(b, a)
        /\ OutPackets(outgoing, app.kept, broker.held, seen.delivered, seen.sent, S)
        /\ OutAgreed(outgoing, app.kept, budget.out, broker.held, seen.delivered, broker.session)
        /\ p \in S /\ Distinct(S) /\ Fitting(p)
    BY <1>2, <1>18, AckFits
  <2>2. Orderly(b, Tail(a)) /\ Stream(b, Tail(a)) = S \ {p}
    BY <1>2, <1>5, <2>1, Unanswered DEF Handling
  <2> HIDE DEF S
  <2>3. p.id \notin broker.held
    BY <1>2, <1>4, <2>1 DEF Fitting, Answers
  <2>4. OutAgreed(c, kk, budget.out, broker.held, seen.delivered, broker.session)
    BY ONLY <1>7, <2>1, <2>3, OutDoneAgreed
  <2>5. OutPackets(c, kk, broker.held, seen.delivered, seen.sent \ {p.id}, S \ {p})
    BY ONLY <1>7, <2>1, OutDonePackets
  <2>6. OutExchanges'
    BY <1>2, <1>9, <1>10, <1>13, <1>15, <2>2, <2>4, <2>5 DEF OutExchanges, Handling
  <2>7. InExchanges'
    BY <1>2, <1>10, <1>17, <1>18, InQuiet
  <2>8. Promised'
    BY <1>15, <1>18, <2>1 DEF Promised, Fitting
  <2> QED
    BY <2>6, <2>7, <2>8
<1> QED
  BY <1>17, <1>18, OutgoingKeeps

(* The record of a PUBREC moves behind the others, and its PUBREL is sent.  *)
Queued(n, t, id, c, d) ==
    /\ n \in Nat \ {0} /\ IsTable(t, n, OutStates) /\ id \in IdsOf(t)
    /\ At(t, id).state = "PubRecPending"
    /\ c = Added(Without(t, id), Record(id, 2, "PubRelSend")).table
    /\ d = Updated(c, id, "PUBREL", TRUE).table

LEMMA Queueing ==
    ASSUME NEW n, NEW t, NEW id, NEW c, NEW d, Queued(n, t, id, c, d)
    PROVE  /\ Added(Without(t, id), Record(id, 2, "PubRelSend")).status = "Success"
           /\ IsTable(c, n, OutStates) /\ Changed(t, c, id, Record(id, 2, "PubRelSend"))
           /\ IsTable(d, n, OutStates) /\ Changed(t, d, id, Record(id, 2, "PubCompPending"))
           /\ \A kept : PubsInOrder(t, kept) => PubsInOrder(c, kept) /\ PubsInOrder(d, kept)
           /\ \A recs \in Seq(Ids) : RelsInOrder(t, recs) =>
                RelsInOrder(c, Append(recs, id)) /\ RelsInOrder(d, Append(recs, id))
<1> DEFINE w == Without(t, id)
           r == Record(id, 2, "PubRelSend")
           e == Record(id, 2, "PubCompPending")
           a == Added(w, r)
<1>1. /\ n \in Nat \ {0} /\ IsTable(t, n, OutStates) /\ id \in IdsOf(t)
      /\ At(t, id).state = "PubRecPending" /\ c = a.table /\ d = Updated(c, id, "PUBREL", TRUE).table
  BY DEF Queued
<1>2. "Null" \notin OutStates /\ id \in Ids
  BY <1>1, StatesApart, AtId
<1>3. /\ "PubRecPending" \notin RelStates /\ "PubRelSend" \in RelStates /\ "PubRelSend" \notin PublishStates
      /\ "PubCompPending" \in RelStates /\ "PubCompPending" \notin PublishStates
      /\ "PubRelSend" \in OutStates /\ "PubCompPending" \in OutStates
  BY DEF RelStates, PublishStates, OutStates
<1>4. r \in Entry(OutStates) /\ r.id = id /\ r.state = "PubRelSend"
      /\ [r EXCEPT !.state = "PubCompPending"] = e
  BY <1>2, <1>3 DEF Record, Entry
<1>5. /\ IsTable(w, n, OutStates) /\ Reduced(t, w, id) /\ \E i \in 1 .. n : w[i].id = 0
  BY <1>1, <1>2, Removing
<1>6. r.id \notin IdsOf(w)
  BY <1>4, <1>5 DEF Reduced
<1> HIDE DEF r, e, w, a
<1>7. a = Added(w, r)
  BY DEF a
<1>8. /\ a.status = "Success" /\ IsTable(c, n, OutStates) /\ Extended(w, c, r)
  <2>1. /\ a.status \in {"Success", "NoMemory", "StateCollision"}
        /\ a.status = "StateCollision" <=> r.id \in IdsOf(w)
        /\ IsTable(a.table, n, OutStates)
        /\ a.status = "Success" => Extended(w, a.table, r)
        /\ (\E i \in 1 .. n : w[i].id = 0) => a.status # "NoMemory"
    BY <1>1, <1>2, <1>4, <1>5, <1>7, Adding
  <2> QED
    BY <1>1, <1>5, <1>6, <2>1
<1>9. /\ IdsOf(c) = IdsOf(t) \cup {id} /\ At(c, id) = r
      /\ \A x : x # id => At(c, x) = At(t, x)
  BY <1>1, <1>4, <1>5, <1>8 DEF Extended, Reduced
<1>10. \A kept : PubsInOrder(t, kept) => PubsInOrder(c, kept)
  BY <1>3, <1>4, <1>5, <1>8 DEF Extended, Reduced, LastPublish
<1>11. \A recs \in Seq(Ids) : RelsInOrder(t, recs) => RelsInOrder(c, Append(recs, id))
  BY <1>1, <1>3, <1>4, <1>5, <1>8 DEF Extended, Reduced
<1>12. d = WithState(c, id, "PubCompPending")
  BY <1>1, <1>8, <1>9, RelSending DEF r
<1>13. id \in IdsOf(c) /\ "PubCompPending" \in OutStates
  BY <1>3, <1>9
<1>14. /\ IsTable(d, n, OutStates) /\ IdsOf(d) = IdsOf(c)
       /\ At(d, id) = [At(c, id) EXCEPT !.state = "PubCompPending"]
       /\ \A x : x # id => At(d, x) = At(c, x)
       /\ \A kept : PubsInOrder(c, kept) => PubsInOrder(d, kept)
       /\ \A recs \in Seq(Ids) : RelsInOrder(c, recs) => RelsInOrder(d, recs)
  <2>1. n \in Nat \ {0} /\ "Null" \notin OutStates /\ IsTable(c, n, OutStates)
    BY <1>1, <1>2, <1>8
  <2>2. At(c, id).state \in RelStates
    BY <1>3, <1>4, <1>9
  <2>3. /\ IsTable(d, n, OutStates) /\ IdsOf(d) = IdsOf(c)
        /\ At(d, id) = [At(c, id) EXCEPT !.state = "PubCompPending"]
        /\ \A x : x # id => At(d, x) = At(c, x)
    BY ONLY <1>12, <1>13, <2>1, Marking
  <2>4. \A kept : PubsInOrder(c, kept) => PubsInOrder(d, kept)
    BY ONLY <1>3, <1>12, <1>13, <2>1, Marking
  <2>5. \A recs \in Seq(Ids) : RelsInOrder(c, recs) => RelsInOrder(d, recs)
    BY ONLY <1>3, <1>12, <1>13, <2>1, <2>2, Marking
  <2> QED
    BY <2>3, <2>4, <2>5
<1>15. At(d, id) = e
  BY <1>4, <1>9, <1>14
<1>16. \A kept : PubsInOrder(t, kept) => PubsInOrder(d, kept)
  BY <1>3, <1>10, <1>14
<1>17. \A recs \in Seq(Ids) : RelsInOrder(t, recs) => RelsInOrder(d, Append(recs, id))
  <2> SUFFICES ASSUME NEW recs \in Seq(Ids), RelsInOrder(t, recs)
               PROVE  RelsInOrder(d, Append(recs, id))
    OBVIOUS
  <2>1. Append(recs, id) \in Seq(Ids) /\ RelsInOrder(c, Append(recs, id))
    BY <1>2, <1>11
  <2> QED
    BY <1>3, <1>4, <1>9, <1>14, <2>1
<1>18. Changed(t, c, id, r) /\ Changed(t, d, id, e)
  BY <1>9, <1>14, <1>15 DEF Changed
<1>19. a.status = "Success" /\ IsTable(c, n, OutStates) /\ IsTable(d, n, OutStates)
  BY <1>8, <1>14
<1> QED
  BY <1>10, <1>11, <1>16, <1>17, <1>18, <1>19 DEF a, w, r, e

LEMMA StepAckFirst ==
    ASSUME ExchangeInv, NEW p, NEW u, Acked(p, u), AckedFirst(outgoing, p.id, p.type, u)
    PROVE  ExchangeInv'
<1> DEFINE a == link.toClient
           b == link.toBroker
           S == Stream(b, a)
           c == u.table
           d == Updated(c, p.id, "PUBREL", TRUE).table
           q == Packet("PUBREL", p.id)
           recs == Append(seen.recs, p.id)
<1>1. /\ Typed /\ Linked /\ KeptRight(outgoing, app.kept, budget.out)
      /\ PubsInOrder(outgoing, app.kept) /\ RelsInOrder(outgoing, seen.recs)
  BY Splitting
<1>2. /\ Handling(p) /\ app.stage = "run" /\ p.type \in Answers /\ AckEffect(p, u)
      /\ AckSent(c, incoming, p.id, IF u.status = "Success" THEN u.state ELSE "Null")
  BY DEF Acked
<1>3. p \in Packets /\ p.id \in Ids
  BY <1>1, <1>2, AckIds
<1>4. /\ u.state = "PubRelSend" /\ p.id \in IdsOf(outgoing)
      /\ p.type = "PUBREC" /\ At(outgoing, p.id).qos = 2
      /\ At(outgoing, p.id).state = "PubRecPending"
      /\ u.status = Added(Without(outgoing, p.id), Record(p.id, 2, "PubRelSend")).status
      /\ c = Added(Without(outgoing, p.id), Record(p.id, 2, "PubRelSend")).table
  BY DEF AckedFirst
<1>5. /\ OutMax \in Nat \ {0} /\ IsTable(outgoing, OutMax, OutStates)
      /\ a \in Seq(Packets) /\ b \in Seq(Packets) /\ seen \in Histories /\ app \in Apps
      /\ app.kept \in [Ids -> Messages] /\ seen.recs \in Seq(Ids) /\ a # <<>>
  BY <1>1, <1>2, Tables, Fields DEF Typed, Handling
<1>6. Queued(OutMax, outgoing, p.id, c, d)
  BY <1>4, <1>5 DEF Queued
<1>7. q \in Packets /\ q.id = p.id /\ q.type = "PUBREL"
  BY <1>3, AckPacket
<1> HIDE DEF c, d, q
<1>8. u.status = "Success"
  BY ONLY <1>4, <1>6, Queueing
<1>9. /\ IsTable(c, OutMax, OutStates) /\ Changed(outgoing, c, p.id, Record(p.id, 2, "PubRelSend"))
      /\ IsTable(d, OutMax, OutStates) /\ Changed(outgoing, d, p.id, Record(p.id, 2, "PubCompPending"))
  BY ONLY <1>6, Queueing
<1>10. /\ PubsInOrder(c, app.kept) /\ RelsInOrder(c, recs)
       /\ PubsInOrder(d, app.kept) /\ RelsInOrder(d, recs)
  BY <1>1, <1>5, <1>6, Queueing
<1>11. /\ ToPubrels(outgoing, app.kept, budget.out, c, p.id, "PubRelSend")
       /\ ToPubrels(outgoing, app.kept, budget.out, d, p.id, "PubCompPending")
  BY <1>1, <1>4, <1>5, <1>9 DEF ToPubrels, RelStates
<1>12. KeptRight(c, app.kept, budget.out) /\ KeptRight(d, app.kept, budget.out)
  BY ONLY <1>11, OutPubrec
<1>13. app' = app
  BY <1>1, <1>2, <1>3, <1>4, KeptSame DEF AckEffect
<1>14. /\ seen' \in Histories /\ seen'.got = seen.got /\ seen'.acked = seen.acked
       /\ seen'.repeated = seen.repeated /\ seen'.mixed = seen.mixed
       /\ seen'.delivered = seen.delivered /\ seen'.recs = recs
       /\ seen'.sent = seen.sent /\ seen'.finished = seen.finished
  <2>1. seen' = [seen EXCEPT !.finished = seen.finished, !.sent = seen.sent, !.recs = recs]
    BY <1>2, <1>4 DEF AckEffect
  <2>2. recs \in Seq(Ids)
    BY <1>3, <1>5
  <2> HIDE DEF recs
  <2> QED
    BY <1>5, <2>1, <2>2 DEF Histories
<1> HIDE DEF recs
<1>15. /\ incoming' = incoming
       /\ \/ Replying(q) /\ outgoing' = d
          \/ link' = NoLink /\ outgoing' = c
  <2>1. AckSent(c, incoming, p.id, "PubRelSend")
    BY <1>2, <1>4, <1>8
  <2>2. AckToSend("PubRelSend") = "PUBREL"
    BY DEF AckToSend
  <2> QED
    BY <2>1, <2>2 DEF AckSent, Replying, q, d
<1>16. ASSUME OutExchanges, InExchanges
       PROVE  /\ Orderly(a, b) /\ Orderly(b, a) /\ p \in S /\ Distinct(S)
              /\ OutPackets(outgoing, app.kept, broker.held, seen.delivered, seen.sent, S)
              /\ OutAgreed(c, app.kept, budget.out, broker.held, seen.delivered, broker.session)
              /\ OutAgreed(d, app.kept, budget.out, broker.held, seen.delivered, broker.session)
  <2>1. /\ Orderly(a, b) /\ Orderly(b, a)
        /\ OutPackets(outgoing, app.kept, broker.held, seen.delivered, seen.sent, S)
        /\ OutAgreed(outgoing, app.kept, budget.out, broker.held, seen.delivered, broker.session)
        /\ p \in S /\ Distinct(S) /\ Fitting(p)
    BY <1>2, <1>16, AckFits
  <2>2. app.kept[p.id].msg \in seen.delivered
    BY <2>1 DEF Fitting
  <2>3. OutAgreed(c, app.kept, budget.out, broker.held, seen.delivered, broker.session)
    BY ONLY <1>11, <2>1, <2>2, OutPubrecAgreed
  <2>4. OutAgreed(d, app.kept, budget.out, broker.held, seen.delivered, broker.session)
    BY ONLY <1>11, <2>1, <2>2, OutPubrecAgreed
  <2> QED
    BY <2>1, <2>3, <2>4
<1>17. CASE link' = NoLink /\ outgoing' = c
  <2>1. link' \in Links /\ link'.up = FALSE
    BY <1>17, LinkKinds
  <2>2. Outgoing(p)
    BY <1>2, <1>5, <1>9, <1>10, <1>12, <1>13, <1>14, <1>15, <1>17, <2>1 DEF Outgoing
  <2>3. ASSUME OutExchanges, InExchanges, Promised
        PROVE  OutExchanges' /\ InExchanges' /\ Promised'
    <3>1. OutExchanges'
      BY <1>2, <1>13, <1>14, <1>16, <1>17, <2>1, <2>3 DEF OutExchanges, Handling
    <3>2. InExchanges'
      BY <1>2, <2>1, <2>2, <2>3, InQuiet
    <3> QED
      BY <1>14, <2>3, <3>1, <3>2 DEF Promised
  <2> QED
    BY <2>2, <2>3, OutgoingKeeps
<1>18. CASE Replying(q) /\ outgoing' = d
  <2>1. /\ link' \in Links /\ link'.up = TRUE /\ link'.toClient = Tail(a) /\ link'.toBroker = Append(b, q)
        /\ Answered(a, b, p, q)
    <3>1. q.type \in Requests
      BY <1>7 DEF Requests
    <3> QED
      BY <1>1, <1>2, <1>7, <1>18, <3>1, ClientTrades
  <2>2. Outgoing(p)
    BY <1>2, <1>5, <1>9, <1>10, <1>12, <1>13, <1>14, <1>15, <1>18, <2>1 DEF Outgoing
  <2>3. ASSUME OutExchanges, InExchanges, Promised
        PROVE  OutExchanges' /\ InExchanges' /\ Promised'
    <3>1. /\ Orderly(b, a) /\ p \in S /\ Distinct(S)
          /\ OutPackets(outgoing, app.kept, broker.held, seen.delivered, seen.sent, S)
          /\ OutAgreed(d, app.kept, budget.out, broker.held, seen.delivered, broker.session)
      BY <1>16, <2>3
    <3>2. /\ Orderly(Append(b, q), Tail(a)) /\ Stream(Append(b, q), Tail(a)) = (S \ {p}) \cup {q}
      BY <1>2, <2>1, <3>1, Trading
    <3> HIDE DEF S
    <3>3. q = Packet("PUBREL", p.id) /\ p.id = p.id
      BY DEF q
    <3>4. OutPackets(d, app.kept, broker.held, seen.delivered, seen.sent, (S \ {p}) \cup {q})
      BY ONLY <1>11, <3>1, <3>3, OutPubrecPackets
    <3>5. OutExchanges'
      BY <1>2, <1>13, <1>14, <1>18, <2>1, <3>1, <3>2, <3>4 DEF OutExchanges, Handling
    <3>6. InExchanges'
      BY <1>2, <2>1, <2>2, <2>3, InQuiet
    <3> QED
      BY <1>14, <2>3, <3>5, <3>6 DEF Promised
  <2> QED
    BY <2>2, <2>3, OutgoingKeeps
<1> QED
  BY <1>15, <1>17, <1>18

(* handlePublishAcks for the answers to what the client published.          *)
LEMMA StepReceiveAnswer ==
    ASSUME ExchangeInv, ReceiveAck, Head(link.toClient).type \in Answers
    PROVE  ExchangeInv'
<1> DEFINE p == Head(link.toClient)
           u == Updated(outgoing, p.id, p.type, FALSE)
<1>1. Typed
  BY Splitting
<1>2. p.type \in Answers
  OBVIOUS
<1> HIDE DEF p
<1>3. /\ Handling(p) /\ app.stage = "run" /\ AckEffect(p, u)
      /\ AckSent(u.table, incoming, p.id, IF u.status = "Success" THEN u.state ELSE "Null")
  BY <1>2, AckEffects DEF p
<1>4. p.id \in Ids /\ OutMax \in Nat \ {0} /\ IsTable(outgoing, OutMax, OutStates)
  BY <1>1, <1>3, AckIds, Tables
<1> HIDE DEF u
<1>5. Acked(p, u)
  BY <1>2, <1>3 DEF Acked
<1>6. \/ NotAcked(outgoing, p.id, p.type, u)
      \/ AckedLast(outgoing, p.id, p.type, u)
      \/ AckedFirst(outgoing, p.id, p.type, u)
  BY <1>2, <1>4, Acknowledging DEF u
<1> QED
  BY <1>5, <1>6, StepAckNothing, StepAckLast, StepAckFirst

LEMMA StepReceiveAck ==
    ASSUME ExchangeInv, ReceiveAck
    PROVE  ExchangeInv'
<1>1. Head(link.toClient).type \in {"PUBACK", "PUBREC", "PUBREL", "PUBCOMP"}
  BY DEF ReceiveAck, Processing
<1> QED
  BY <1>1, StepReceiveAnswer, StepReceiveRel DEF Answers

(* It holds at the start and is kept.                                       *)
LEMMA ExchangeInit ==
    ASSUME MqttInit
    PROVE  ExchangeInv
<1>1. /\ outgoing = Cleared(OutMax) /\ incoming = Cleared(InMax) /\ link = NoLink
      /\ app = [nextId |-> 1, stage |-> "run", cursor |-> 1, kept |-> [id \in Ids |-> NoMessage]]
      /\ broker = [FreshSession EXCEPT !.session = FALSE]
      /\ seen = [delivered |-> {}, got |-> {}, finished |-> {}, acked |-> {}, repeated |-> FALSE,
                 recs |-> <<>>, sent |-> {}, mixed |-> FALSE]
  BY DEF MqttInit
<1>2. MaxId \in Nat \ {0} /\ OutMax \in Nat \ {0} /\ InMax \in Nat \ {0} /\ Budgets \subseteq Nat \X Nat
  BY MqttAssumption
<1>3. /\ IsTable(outgoing, OutMax, OutStates) /\ IsTable(incoming, InMax, InStates)
      /\ IdsOf(outgoing) = {} /\ IdsOf(incoming) = {}
      /\ PubsInOrder(outgoing, app.kept) /\ RelsInOrder(outgoing, <<>>)
  BY <1>1, <1>2, ClearedTable
<1>4. app \in Apps /\ app.stage = "run" /\ app.kept = [id \in Ids |-> NoMessage]
  <2>1. NoMessage \in Messages
    BY DEF NoMessage, Messages
  <2>2. 1 \in Ids /\ 1 \in Nat \ {0}
    BY <1>2 DEF Ids
  <2> QED
    BY <1>1, <2>1, <2>2 DEF Apps
<1>5. link \in Links /\ link.up = FALSE
  BY <1>1, LinkKinds
<1>6. broker.session = FALSE /\ broker.held = {} /\ broker.flight = <<>> /\ broker \in Brokers
  <2>1. broker = [session |-> FALSE, held |-> {}, flight |-> <<>>]
    BY <1>1 DEF FreshSession
  <2>2. <<>> \in Seq(Flights) /\ {} \in SUBSET Ids
    OBVIOUS
  <2> QED
    BY <2>1, <2>2 DEF Brokers
<1>7. budget \in Allowances
  <2>1. PICK b \in Budgets : budget = [out |-> b[1], in |-> b[2]]
    BY DEF MqttInit
  <2>2. b[1] \in Nat /\ b[2] \in Nat
    BY <1>2
  <2> QED
    BY <2>1, <2>2 DEF Allowances
<1>8. /\ seen.sent = {} /\ seen.delivered = {} /\ seen.got = {} /\ seen.finished = {} /\ seen.acked = {}
      /\ seen.repeated = FALSE /\ seen.recs = <<>> /\ seen \in Histories
  <2>1. <<>> \in Seq(Ids)
    OBVIOUS
  <2> QED
    BY <1>1, <2>1 DEF Histories
<1>9. Structure
  <2>1. Typed /\ Linked
    BY <1>3, <1>4, <1>5, <1>6, <1>7, <1>8 DEF Typed, Linked
  <2>2. KeptRight(outgoing, app.kept, budget.out)
    BY <1>3, <1>4 DEF KeptRight
  <2> QED
    BY <1>3, <1>8, <2>1, <2>2 DEF Structure, Ordered
<1>10. /\ OutAgreed(outgoing, app.kept, budget.out, {}, {}, FALSE)
       /\ InAgreed(incoming, {}, {}, budget.in, FALSE)
  BY <1>3, NoneAgreed
<1>11. OutExchanges /\ InExchanges /\ Promised
  BY <1>5, <1>6, <1>8, <1>10, NothingSent DEF OutExchanges, InExchanges, Promised
<1> QED
  BY <1>9, <1>11 DEF ExchangeInv

LEMMA ExchangeSame ==
    ASSUME ExchangeInv, UNCHANGED mqttVars
    PROVE  ExchangeInv'
<1>1. /\ outgoing' = outgoing /\ incoming' = incoming /\ app' = app /\ link' = link
      /\ broker' = broker /\ budget' = budget /\ seen' = seen
  BY DEF mqttVars
<1>2. /\ Typed /\ Linked /\ KeptRight(outgoing, app.kept, budget.out)
      /\ PubsInOrder(outgoing, app.kept) /\ RelsInOrder(outgoing, seen.recs)
  BY Splitting
<1>3. Typed' /\ Linked'
  BY <1>1, <1>2 DEF Typed, Linked
<1>4. OutExchanges /\ InExchanges /\ Promised => OutExchanges' /\ InExchanges' /\ Promised'
  BY <1>1 DEF OutExchanges, InExchanges, Promised
<1> QED
  BY <1>1, <1>2, <1>3, <1>4, Keeping

LEMMA ExchangeStep ==
    ASSUME ExchangeInv, [MqttNext]_mqttVars
    PROVE  ExchangeInv'
<1>1. ASSUME NEW qos \in {1, 2}, Publish(qos) \/ BrokerPublishes(qos)
      PROVE  ExchangeInv'
  BY <1>1, StepPublish, StepBrokerPublishes
<1>2. CASE Resend
  BY <1>2, StepResend
<1>3. CASE ReceivePublish
  BY <1>3, StepReceivePublish
<1>4. CASE ReceiveAck
  BY <1>4, StepReceiveAck
<1>5. CASE Connect
  BY <1>5, StepConnect
<1>6. CASE Drop
  BY <1>6, StepDrop
<1>7. CASE Forget
  BY <1>7, StepForget
<1>8. CASE BrokerReceives
  BY <1>8, StepBrokerReceives
<1>9. CASE UNCHANGED mqttVars
  BY <1>9, ExchangeSame
<1> QED
  BY <1>1, <1>2, <1>3, <1>4, <1>5, <1>6, <1>7, <1>8, <1>9 DEF MqttNext

LEMMA ExchangeAlways == MqttSpec => []ExchangeInv
<1>1. MqttInit => ExchangeInv
  BY ExchangeInit
<1>2. ExchangeInv /\ [MqttNext]_mqttVars => ExchangeInv'
  BY ExchangeStep
<1> QED
  BY <1>1, <1>2, PTL DEF MqttSpec

-----------------------------------------------------------------------------
(* What the exchanges promise                                               *)

LEMMA TablesWhole ==
    ASSUME ExchangeInv
    PROVE  MqttTypeOK /\ NoRecordLost
<1>1. Typed /\ KeptRight(outgoing, app.kept, budget.out)
  BY Splitting
<1>2. /\ OutMax \in Nat \ {0} /\ InMax \in Nat \ {0}
      /\ IsTable(outgoing, OutMax, OutStates) /\ IsTable(incoming, InMax, InStates)
      /\ DOMAIN outgoing = 1 .. OutMax /\ DOMAIN incoming = 1 .. InMax
      /\ \A id \in IdsOf(outgoing) : id \in Ids
  BY <1>1, Tables
<1>3. \A i \in DOMAIN outgoing : outgoing[i] = NoRecord \/
            (outgoing[i].id \in Ids /\ outgoing[i].state \in PublishStates \cup RelStates)
  BY <1>2 DEF IsTable, Entry, OutStates
<1>4. \A i \in DOMAIN incoming : incoming[i] = NoRecord \/
            (incoming[i].id \in Ids /\
             incoming[i].state \in {"PubAckSend", "PubRecSend", "PubRelPending", "PubCompSend"})
  BY <1>2 DEF IsTable, Entry, InStates
<1>5. app.stage \in {"run", "resend"} /\ app.nextId \in Ids
  BY <1>1, Fields
<1>6. /\ Len(Used(outgoing)) = Cardinality(IdsOf(outgoing))
      /\ Len(Used(incoming)) = Cardinality(IdsOf(incoming))
  BY <1>2, UsedCount
<1>7. IdsOf(outgoing) = {id \in Ids : app.kept[id] # NoMessage}
  BY <1>1, <1>2 DEF KeptRight
<1> QED
  BY <1>2, <1>3, <1>4, <1>5, <1>6, <1>7 DEF MqttTypeOK, NoRecordLost

LEMMA InOrder ==
    ASSUME ExchangeInv
    PROVE  ResendOrder
<1>1. Typed /\ PubsInOrder(outgoing, app.kept) /\ RelsInOrder(outgoing, seen.recs)
  BY Splitting
<1>2. OutMax \in Nat \ {0} /\ IsTable(outgoing, OutMax, OutStates) /\ seen.recs \in Seq(Ids)
  BY <1>1, Tables, Fields
<1> DEFINE pubs == Picked(outgoing, PubPlaces(outgoing))
           rels == Picked(outgoing, RelPlaces(outgoing))
<1>3. \A j, k \in DOMAIN pubs : j < k => app.kept[pubs[j].id].msg > app.kept[pubs[k].id].msg
  <2> HIDE DEF pubs
  <2>1. pubs = Picked(outgoing, PubPlaces(outgoing))
    BY DEF pubs
  <2> QED
    BY ONLY <1>1, <1>2, <2>1, PubsResent
<1>4. [k \in DOMAIN rels |-> rels[k].id] = seen.recs
  <2> HIDE DEF rels
  <2>1. rels = Picked(outgoing, RelPlaces(outgoing))
    BY DEF rels
  <2> QED
    BY ONLY <1>1, <1>2, <2>1, RelsResent
<1> QED
  BY <1>3, <1>4 DEF ResendOrder, PubPlaces, RelPlaces

(* The tables keep what the exchanges need: no identifier has two records   *)
(* and none is lost, a QoS 2 message reaches its receiver once, what either *)
(* side takes for done was received, and the packets to send again stand in *)
(* their order (core_mqtt_state.c).                                         *)
THEOREM ExchangesAreSafe == MqttSpec => []ExchangesSafe
<1>1. ASSUME ExchangeInv
      PROVE  ExchangesSafe
  <2>1. Delivery
    BY <1>1 DEF ExchangeInv, Promised, Delivery
  <2> QED
    BY <1>1, <2>1, TablesWhole, InOrder DEF ExchangesSafe
<1> QED
  BY <1>1, ExchangeAlways, PTL

(* When a connection has carried everything, every exchange in which the    *)
(* client sent a packet over it is over, and no incoming message waits for  *)
(* the rest of its own.                                                     *)
THEOREM NothingGetsStuck == MqttSpec => []NothingStuck
<1>1. ASSUME ExchangeInv
      PROVE  NothingStuck
  <2> SUFFICES ASSUME link.up, link.toBroker = <<>>, link.toClient = <<>>, ~seen.mixed
               PROVE  /\ IdsOf(outgoing) \cap seen.sent = {}
                      /\ IdsOf(incoming) = {}
                      /\ broker.held \subseteq IdsOf(outgoing)
    BY DEF NothingStuck
  <2>1. OutExchanges /\ InExchanges
    BY <1>1 DEF ExchangeInv
  <2>2. /\ OutPackets(outgoing, app.kept, broker.held, seen.delivered, seen.sent, {})
        /\ InPackets(incoming, In(broker.flight), seen.got, {})
        /\ OutAgreed(outgoing, app.kept, budget.out, broker.held, seen.delivered, broker.session)
    BY <2>1, NothingSent DEF OutExchanges, InExchanges
  <2>3. seen.sent = {} /\ IdsOf(incoming) = {}
    BY <2>2, NothingSent DEF OutPackets, InPackets
  <2>4. broker.held \subseteq IdsOf(outgoing)
    BY <2>2 DEF OutAgreed
  <2> QED
    BY <2>3, <2>4
<1> QED
  BY <1>1, ExchangeAlways, PTL

=============================================================================
