---------------------------- MODULE SlotList_proofs ----------------------------
(***************************************************************************)
(* Slot lists, for any number of slots and lists. What LinksAgree says is  *)
(* local to an item and its neighbours, and it is inductive together with  *)
(* the types. The sequences of the lists, and of what the loop has left,   *)
(* follow: a slot is unlinked by passing it by, which does to all of these *)
(* sequences what RemoveFirst does.                                        *)
(***************************************************************************)
EXTENDS SlotList, FiniteSetTheorems, Walks, TLAPS

IInv == TypeOK /\ LinksAgree

LEMMA InitInv == Init => IInv
BY CapacityAssumption, NoListAssumption
   DEF Init, IInv, TypeOK, LinksAgree, Slots, SlotOrNull, NullSlot

LEMMA AddFirstInv ==
    ASSUME IInv, NEW l \in Lists, NEW s \in Slots, AddFirst(l, s)
    PROVE  IInv'
<1> USE CapacityAssumption, NoListAssumption DEF Slots, SlotOrNull, NullSlot
<1>1. TypeOK'
  <2>1. next' \in [Slots -> SlotOrNull] /\ prev' \in [Slots -> SlotOrNull]
    BY DEF IInv, TypeOK, AddFirst
  <2>2. first' \in [Lists -> SlotOrNull]
    BY DEF IInv, TypeOK, AddFirst
  <2>3. where' \in [Slots -> Lists \cup {NoList}]
    BY DEF IInv, TypeOK, AddFirst
  <2> QED BY <2>1, <2>2, <2>3 DEF IInv, TypeOK, AddFirst
<1>2. first[l] # s
  <2>1. where[s] = NoList /\ l # NoList
    BY DEF AddFirst
  <2>2. first[l] # NullSlot => where[first[l]] = l
    BY DEF IInv, LinksAgree
  <2> QED BY <2>1, <2>2
<1>3. ASSUME NEW k \in Lists, first'[k] # NullSlot
      PROVE  where'[first'[k]] = k /\ prev'[first'[k]] = NullSlot
  BY <1>2, <1>3 DEF IInv, TypeOK, LinksAgree, AddFirst
<1>4. ASSUME NEW t \in Slots, where'[t] # NoList
      PROVE  /\ prev'[t] = NullSlot => first'[where'[t]] = t
             /\ prev'[t] # NullSlot => where'[prev'[t]] = where'[t] /\ next'[prev'[t]] = t
             /\ next'[t] # NullSlot => where'[next'[t]] = where'[t] /\ prev'[next'[t]] = t
  <2>1. CASE t = s
    BY <1>2, <1>4, <2>1 DEF IInv, TypeOK, LinksAgree, AddFirst
  <2>2. CASE t # s
    <3>1. /\ prev[t] \in 0..Capacity /\ next[t] \in 0..Capacity
          /\ first[l] \in 0..Capacity
      BY DEF IInv, TypeOK
    <3>2. /\ where'[t] = where[t] /\ where[t] \in Lists
          /\ where[s] = NoList /\ where'[s] = l
          /\ \A u \in Slots \ {s} : where'[u] = where[u] /\ next'[u] = next[u]
      BY <1>4, <2>2 DEF IInv, TypeOK, AddFirst
    <3>3. /\ prev[t] = NullSlot => first[where[t]] = t
          /\ prev[t] # NullSlot => where[prev[t]] = where[t] /\ next[prev[t]] = t
          /\ next[t] # NullSlot => where[next[t]] = where[t] /\ prev[next[t]] = t
      BY <3>2, NoListAssumption DEF IInv, LinksAgree
    <3>4. prev[t] # s /\ next[t] # s
      BY <3>1, <3>2, <3>3
    <3>5. \A u \in Slots \ {s} : prev'[u] = IF u = first[l] THEN s ELSE prev[u]
      BY DEF IInv, TypeOK, AddFirst
    <3>6. next[t] # NullSlot => next[t] # first[l]
      <4>1. first[l] # NullSlot => prev[first[l]] = NullSlot
        BY DEF IInv, LinksAgree
      <4> QED BY <4>1, <3>3
    <3>7. next'[t] # NullSlot => where'[next'[t]] = where'[t] /\ prev'[next'[t]] = t
      BY <2>2, <3>1, <3>2, <3>3, <3>4, <3>5, <3>6
    <3>8. CASE t = first[l]
      <4>1. where[t] = l
        BY <3>8 DEF IInv, LinksAgree
      <4>2. prev'[t] = s /\ next'[s] = t
        BY <2>2, <3>5, <3>8 DEF IInv, TypeOK, AddFirst
      <4> QED BY <3>2, <3>7, <4>1, <4>2
    <3>9. CASE t # first[l]
      <4>1. prev'[t] = prev[t]
        BY <2>2, <3>5, <3>9
      <4>2. prev[t] = NullSlot => first'[where'[t]] = t
        BY <3>2, <3>3, <3>9 DEF IInv, TypeOK, AddFirst
      <4>3. prev[t] # NullSlot => where'[prev[t]] = where'[t] /\ next'[prev[t]] = t
        BY <3>1, <3>2, <3>3, <3>4
      <4> QED BY <3>7, <4>1, <4>2, <4>3
    <3> QED BY <3>8, <3>9
  <2> QED BY <2>1, <2>2
<1> QED BY <1>1, <1>3, <1>4 DEF IInv, LinksAgree

LEMMA RemoveInv ==
    ASSUME IInv, NEW l \in Lists, NEW s \in Slots, Remove(l, s)
    PROVE  IInv'
<1> USE CapacityAssumption, NoListAssumption DEF Slots, SlotOrNull, NullSlot
<1>1. TypeOK'
  BY DEF IInv, TypeOK, Remove
<1>2. where[s] = l /\ l # NoList
  BY DEF Remove
<1>3. ASSUME NEW k \in Lists, first'[k] # NullSlot
      PROVE  where'[first'[k]] = k /\ prev'[first'[k]] = NullSlot
  <2>1. CASE k = l
    BY <1>2, <1>3, <2>1 DEF IInv, TypeOK, LinksAgree, Remove
  <2>2. CASE k # l
    BY <1>2, <1>3, <2>2 DEF IInv, TypeOK, LinksAgree, Remove
  <2> QED BY <2>1, <2>2
<1>4. ASSUME NEW t \in Slots, where'[t] # NoList
      PROVE  /\ prev'[t] = NullSlot => first'[where'[t]] = t
             /\ prev'[t] # NullSlot => where'[prev'[t]] = where'[t] /\ next'[prev'[t]] = t
             /\ next'[t] # NullSlot => where'[next'[t]] = where'[t] /\ prev'[next'[t]] = t
  <2>1. t # s /\ where[t] = where'[t]
    BY <1>2, <1>4 DEF IInv, TypeOK, Remove
  <2>2. prev'[t] = NullSlot => first'[where'[t]] = t
    BY <1>2, <1>4, <2>1 DEF IInv, TypeOK, LinksAgree, Remove
  <2> DEFINE Agrees(u) ==
               /\ prev[u] # NullSlot => where[prev[u]] = where[u] /\ next[prev[u]] = u
               /\ next[u] # NullSlot => where[next[u]] = where[u] /\ prev[next[u]] = u
  <2>3. Agrees(s) /\ Agrees(t)
    BY <1>2, <1>4, <2>1 DEF IInv, LinksAgree
  <2>4. /\ prev[s] \in 0..Capacity /\ next[s] \in 0..Capacity
        /\ prev[t] \in 0..Capacity /\ next[t] \in 0..Capacity
    BY DEF IInv, TypeOK
  <2>5. /\ \A u \in Slots : prev'[u] = IF u = next[s] THEN prev[s] ELSE prev[u]
        /\ \A u \in Slots : next'[u] = IF u = prev[s] THEN next[s] ELSE next[u]
    BY DEF Remove
  <2>6. \A u \in Slots \ {s} : where'[u] = where[u]
    BY DEF IInv, TypeOK, Remove
  <2>7. ASSUME prev'[t] # NullSlot
        PROVE  where'[prev'[t]] = where'[t] /\ next'[prev'[t]] = t
    <3>1. CASE t = next[s]
      <4>1. prev'[t] = prev[s] /\ prev[s] \in Slots \ {s}
        BY <3>1, <2>1, <2>3, <2>4, <2>5, <2>7
      <4>2. where[prev[s]] = where[s] /\ where[t] = where[s]
        BY <3>1, <4>1, <2>3
      <4>3. next'[prev[s]] = next[s] /\ where'[prev[s]] = where[prev[s]]
        BY <4>1, <2>5, <2>6
      <4> QED BY <3>1, <4>1, <4>2, <4>3, <2>1
    <3>2. CASE t # next[s]
      <4>1. prev'[t] = prev[t] /\ prev[t] \in Slots
        BY <3>2, <2>4, <2>5, <2>7
      <4>2. prev[t] # s /\ prev[t] # prev[s]
        BY <3>2, <4>1, <2>1, <2>3
      <4>3. next'[prev[t]] = next[prev[t]] /\ where'[prev[t]] = where[prev[t]]
        BY <4>1, <4>2, <2>5, <2>6
      <4> QED BY <4>1, <4>3, <2>1, <2>3
    <3> QED BY <3>1, <3>2
  <2>8. ASSUME next'[t] # NullSlot
        PROVE  where'[next'[t]] = where'[t] /\ prev'[next'[t]] = t
    <3>1. CASE t = prev[s]
      <4>1. next'[t] = next[s] /\ next[s] \in Slots \ {s}
        BY <3>1, <2>1, <2>3, <2>4, <2>5, <2>8
      <4>2. where[next[s]] = where[s] /\ where[t] = where[s]
        BY <3>1, <4>1, <2>3
      <4>3. prev'[next[s]] = prev[s] /\ where'[next[s]] = where[next[s]]
        BY <4>1, <2>5, <2>6
      <4> QED BY <3>1, <4>1, <4>2, <4>3, <2>1
    <3>2. CASE t # prev[s]
      <4>1. next'[t] = next[t] /\ next[t] \in Slots
        BY <3>2, <2>4, <2>5, <2>8
      <4>2. next[t] # s /\ next[t] # next[s]
        BY <3>2, <4>1, <2>1, <2>3
      <4>3. prev'[next[t]] = prev[next[t]] /\ where'[next[t]] = where[next[t]]
        BY <4>1, <4>2, <2>5, <2>6
      <4> QED BY <4>1, <4>3, <2>1, <2>3
    <3> QED BY <3>1, <3>2
  <2> QED BY <2>2, <2>7, <2>8
<1> QED BY <1>1, <1>3, <1>4 DEF IInv, LinksAgree

\* Looping reads links only.
LEMMA LoopInv ==
    ASSUME IInv, (\E l \in Lists : BeginLoop(l)) \/ AdvanceLoop
    PROVE  IInv'
<1>1. TypeOK'
  BY DEF IInv, TypeOK, BeginLoop, AdvanceLoop, NextOf, Slots, SlotOrNull, NullSlot
<1>2. LinksAgree'
  BY DEF IInv, LinksAgree, BeginLoop, AdvanceLoop
<1> QED BY <1>1, <1>2 DEF IInv

LEMMA StepInv == IInv /\ [Next]_vars => IInv'
<1> SUFFICES ASSUME IInv, [Next]_vars
             PROVE  IInv'
  OBVIOUS
<1>1. CASE \E l \in Lists, s \in Slots : AddFirst(l, s)
  BY <1>1, AddFirstInv
<1>2. CASE \E l \in Lists, s \in Slots : Remove(l, s)
  BY <1>2, RemoveInv
<1>3. CASE (\E l \in Lists : BeginLoop(l)) \/ AdvanceLoop
  BY <1>3, LoopInv
<1>4. CASE UNCHANGED vars
  BY <1>4 DEF vars, IInv, TypeOK, LinksAgree
<1> QED BY <1>1, <1>2, <1>3, <1>4 DEF Next

-------------------------------------------------------------------------------
(* The sequences of the lists *)

\* c are the slots of each list, and t those a loop still has to visit: after the
\* visited slot, or after the place it had when it was removed.
Holds(c, t) ==
    /\ \A l \in Lists : LeadsThrough(next, first[l], c[l]) /\ Distinct(c[l])
    /\ \A l \in Lists : \A s \in Slots : s \in Elements(c[l]) <=> where[s] = l
    /\ LeadsThrough(next, NextOf(at), t) /\ Distinct(t)
    /\ \A s \in Elements(t) : where[s] = loop
    /\ at = NullSlot <=> loop = NoList
    /\ at # NullSlot => where[at] \in {loop, NoList}

SeqInv == IInv /\ \E c \in [Lists -> Seq(Slots)], t \in Seq(Slots) : Holds(c, t)

\* A sequence of slots without repetition is no longer than the array.
LEMMA DistinctFits ==
    ASSUME NEW q \in Seq(Slots), Distinct(q)
    PROVE  Len(q) <= Capacity
<1> USE CapacityAssumption
<1> SUFFICES ASSUME Len(q) > Capacity PROVE FALSE
  BY LenProperties
<1>1. Len(q) \in Nat /\ q \in [1..Len(q) -> Slots]
  BY LenProperties
<1>2. \A n \in Nat : IsFiniteSet(1..n) /\ Cardinality(1..n) = n
  <2> TAKE n \in Nat
  <2>1. 1 \in Int /\ n \in Int /\ (1 > n => n = 0) /\ n - 1 + 1 = n
    OBVIOUS
  <2>2. IsFiniteSet(1..n) /\ Cardinality(1..n) = IF 1 > n THEN 0 ELSE n - 1 + 1
    BY <2>1, FS_Interval, Zenon
  <2> QED BY <2>1, <2>2
<1>3. /\ IsFiniteSet(1..Len(q)) /\ IsFiniteSet(Slots)
      /\ Cardinality(Slots) < Cardinality(1..Len(q))
  BY <1>1, <1>2 DEF Slots
<1>4. PICK x, y \in 1..Len(q) : x # y /\ q[x] = q[y]
  <2> DEFINE places == 1..Len(q)
  <2>1. q \in [places -> Slots] /\ IsFiniteSet(places) /\ Cardinality(Slots) < Cardinality(places)
    BY <1>1, <1>3
  <2> HIDE DEF places
  <2>2. \E x, y \in places : x # y /\ q[x] = q[y]
    BY <1>3, <2>1, FS_PigeonHole
  <2> QED BY <2>2 DEF places
<1> QED BY <1>4 DEF Distinct

\* What RemoveFirst does to a sequence without repetition.
LEMMA RemovesItem ==
    ASSUME NEW q \in Seq(Slots), Distinct(q), NEW k \in 1..Len(q)
    PROVE  Sequence!RemoveFirst(q, q[k]) = WithoutItem(q, k)
<1> DEFINE I == { i \in 1..Len(q) : q[i] = q[k] }
<1>1. I = {k} /\ k \in Int
  BY LenProperties DEF Distinct
<1>2. Sequence!Min(I) = k
  BY <1>1 DEF Sequence!Min
<1>3. \E i \in 1..Len(q) : q[i] = q[k]
  OBVIOUS
<1>4. Sequence!RemoveFirst(q, q[k]) = Sequence!RemoveAt(q, IF I # {} THEN Sequence!Min(I) ELSE 0)
  BY <1>3 DEF Sequence!RemoveFirst, Sequence!SelectInSeq
<1>5. I # {}
  BY <1>1
<1> HIDE DEF I
<1>6. Sequence!RemoveFirst(q, q[k]) = Sequence!RemoveAt(q, k)
  BY <1>2, <1>4, <1>5
<1> QED BY <1>6 DEF Sequence!RemoveAt, WithoutItem

LEMMA RemovesNothing ==
    ASSUME NEW q, NEW s, s \notin Elements(q)
    PROVE  Sequence!RemoveFirst(q, s) = q
BY DEF Sequence!RemoveFirst, Elements

\* To unlink slot s, the link of the item p in front of it passes s by.
InFront(links, p, s, q) == \A i \in 1..Len(q) : q[i] = p <=> links[q[i]] = s
PassesBy(links, passing, p, s) ==
    \A x \in Slots : passing[x] = IF x = p THEN links[s] ELSE links[x]

LEMMA PassedBy ==
    ASSUME NEW links, NEW start, NEW q \in Seq(Slots),
           LeadsThrough(links, start, q), Distinct(q),
           NEW s \in Slots, NEW p, NEW passing,
           InFront(links, p, s, q), PassesBy(links, passing, p, s)
    PROVE  /\ Sequence!RemoveFirst(q, s) \in Seq(Slots)
           /\ Distinct(Sequence!RemoveFirst(q, s))
           /\ Elements(Sequence!RemoveFirst(q, s)) = Elements(q) \ {s}
           /\ LeadsThrough(passing, IF start = s THEN links[s] ELSE start,
                           Sequence!RemoveFirst(q, s))
<1> DEFINE n == Len(q)
<1>1. n \in Nat /\ \A i \in 1..n : q[i] \in Slots /\ q[i] # NoLink
  <2>1. n \in Nat /\ \A i \in 1..n : q[i] \in Slots
    BY LenProperties, ElementOfSeq
  <2> HIDE DEF n
  <2> QED BY <2>1 DEF Slots, NoLink
<1>2. /\ start = IF n = 0 THEN NoLink ELSE q[1]
      /\ \A i \in 1..n : links[q[i]] = IF i = n THEN NoLink ELSE q[i + 1]
      /\ \A i, j \in 1..n : q[i] = q[j] => i = j
      /\ s # NoLink
  BY CapacityAssumption DEF LeadsThrough, Distinct, Slots, NoLink
<1>3. \A i \in 1..n : passing[q[i]] = IF links[q[i]] = s THEN links[s] ELSE links[q[i]]
  BY <1>1 DEF InFront, PassesBy
<1>4. CASE s \notin Elements(q)
  <2>1. \A i \in 1..n : q[i] # s
    BY <1>4 DEF Elements
  <2>2. start # s
    <3>1. CASE n = 0
      BY <1>2, <3>1
    <3>2. CASE n # 0
      <4>1. 1 \in 1..n
        BY <1>1, <3>2
      <4> QED BY <1>2, <2>1, <3>2, <4>1
    <3> QED BY <3>1, <3>2
  <2>3. \A i \in 1..n : passing[q[i]] = IF i = n THEN NoLink ELSE q[i + 1]
    <3> TAKE i \in 1..n
    <3>1. i = n \/ i + 1 \in 1..n
      BY <1>1
    <3> QED BY <1>2, <1>3, <2>1, <3>1
  <2>4. LeadsThrough(passing, start, q)
    BY <1>2, <2>3 DEF LeadsThrough
  <2>5. Elements(q) \ {s} = Elements(q)
    BY <1>4
  <2> QED BY <1>4, <2>2, <2>4, <2>5, RemovesNothing
<1>5. CASE s \in Elements(q)
  <2>1. PICK k \in 1..n : s = q[k]
    BY <1>5 DEF Elements
  <2>2. PICK r : r = WithoutItem(q, k)
    OBVIOUS
  <2>3. /\ r \in Seq(Slots) /\ Len(r) = n - 1
        /\ \A i \in 1..n - 1 : r[i] = IF i < k THEN q[i] ELSE q[i + 1]
    BY <2>2, WithoutItemProperties
  <2>4. r = Sequence!RemoveFirst(q, s)
    BY <2>1, <2>2, RemovesItem
  <2>5. Distinct(r)
    <3> SUFFICES ASSUME NEW i \in 1..n - 1, NEW j \in 1..n - 1, r[i] = r[j] PROVE i = j
      BY <2>3 DEF Distinct
    <3>1. i \in 1..n /\ i + 1 \in 1..n /\ j \in 1..n /\ j + 1 \in 1..n
      BY <1>1
    <3>2. CASE i < k /\ j < k
      BY <1>2, <2>3, <3>1, <3>2
    <3>3. CASE i < k /\ ~(j < k)
      <4>1. q[i] = q[j + 1]
        BY <2>3, <3>3
      <4>2. i = j + 1
        BY <1>2, <3>1, <4>1
      <4> QED BY <3>3, <4>2
    <3>4. CASE ~(i < k) /\ j < k
      <4>1. q[i + 1] = q[j]
        BY <2>3, <3>4
      <4>2. i + 1 = j
        BY <1>2, <3>1, <4>1
      <4> QED BY <3>4, <4>2
    <3>5. CASE ~(i < k) /\ ~(j < k)
      <4>1. q[i + 1] = q[j + 1]
        BY <2>3, <3>5
      <4>2. i + 1 = j + 1
        BY <1>2, <3>1, <4>1
      <4> QED BY <4>2
    <3> QED BY <3>2, <3>3, <3>4, <3>5
  <2>6. Elements(r) = Elements(q) \ {s}
    <3>1. ASSUME NEW i \in 1..n - 1 PROVE r[i] \in Elements(q) \ {s}
      <4>1. i \in 1..n /\ i + 1 \in 1..n
        BY <1>1
      <4>2. CASE i < k
        BY <1>2, <2>1, <2>3, <4>1, <4>2 DEF Elements
      <4>3. CASE ~(i < k)
        <5>1. i + 1 # k /\ r[i] = q[i + 1]
          BY <2>3, <4>3
        <5> QED BY <1>2, <2>1, <4>1, <5>1 DEF Elements
      <4> QED BY <4>2, <4>3
    <3>2. ASSUME NEW i \in 1..n, q[i] # s PROVE \E j \in 1..n - 1 : r[j] = q[i]
      <4>1. i # k
        BY <2>1, <3>2
      <4>2. CASE i < k
        <5>1. i \in 1..n - 1
          BY <1>1, <4>2
        <5> QED BY <2>3, <4>2, <5>1
      <4>3. CASE i > k
        <5>1. i - 1 \in 1..n - 1 /\ ~(i - 1 < k) /\ (i - 1) + 1 = i
          BY <1>1, <4>3
        <5> QED BY <2>3, <5>1
      <4> QED BY <4>1, <4>2, <4>3
    <3>3. Elements(r) \subseteq Elements(q) \ {s}
      BY <2>3, <3>1 DEF Elements
    <3>4. Elements(q) \ {s} \subseteq Elements(r)
      <4> SUFFICES ASSUME NEW i \in 1..n, q[i] # s PROVE q[i] \in Elements(r)
        BY DEF Elements
      <4> QED BY <2>3, <3>2 DEF Elements
    <3> QED BY <3>3, <3>4
  <2>7. links[s] = IF k = n THEN NoLink ELSE q[k + 1]
    BY <1>2, <2>1
  <2>8. (IF start = s THEN links[s] ELSE start) = IF n - 1 = 0 THEN NoLink ELSE r[1]
    <3>1. 1 \in 1..n /\ n # 0 /\ start = q[1]
      BY <1>1, <1>2
    <3>2. CASE k = 1
      <4>1. start = s
        BY <2>1, <3>1, <3>2
      <4>2. CASE n = 1
        BY <2>7, <3>2, <4>1, <4>2
      <4>3. CASE n # 1
        <5>1. 1 \in 1..n - 1 /\ r[1] = q[2]
          BY <1>1, <2>3, <3>2, <4>3
        <5> QED BY <2>7, <3>2, <4>1, <4>3, <5>1
      <4> QED BY <4>2, <4>3
    <3>3. CASE k # 1
      <4>1. start # s
        BY <1>2, <2>1, <3>1, <3>3
      <4>2. 1 \in 1..n - 1 /\ 1 < k
        BY <1>1, <3>3
      <4> QED BY <2>3, <3>1, <4>1, <4>2
    <3> QED BY <3>2, <3>3
  <2>9. ASSUME NEW i \in 1..n - 1
        PROVE  passing[r[i]] = IF i = n - 1 THEN NoLink ELSE r[i + 1]
    <3>1. i \in 1..n /\ i + 1 \in 1..n /\ i # n
      BY <1>1
    <3>2. CASE i < k
      <4>1. r[i] = q[i] /\ links[q[i]] = q[i + 1]
        BY <1>2, <2>3, <3>1, <3>2
      <4>2. CASE i + 1 = k
        <5>1. passing[r[i]] = IF k = n THEN NoLink ELSE q[k + 1]
          BY <1>3, <2>1, <2>7, <3>1, <4>1, <4>2
        <5>2. CASE k = n
          BY <4>2, <5>1, <5>2
        <5>3. CASE k # n
          <6>1. k \in 1..n - 1 /\ r[k] = q[k + 1] /\ i # n - 1
            BY <1>1, <2>3, <4>2, <5>3
          <6> QED BY <4>2, <5>1, <5>3, <6>1
        <5> QED BY <5>2, <5>3
      <4>3. CASE i + 1 # k
        <5>1. links[q[i]] # s
          BY <1>2, <2>1, <3>1, <4>1, <4>3
        <5>2. i + 1 \in 1..n - 1 /\ i + 1 < k /\ i # n - 1
          BY <1>1, <3>2, <4>3
        <5> QED BY <1>3, <2>3, <3>1, <4>1, <5>1, <5>2
      <4> QED BY <4>2, <4>3
    <3>3. CASE ~(i < k)
      <4>1. r[i] = q[i + 1]
        BY <2>3, <3>3
      <4>2. CASE i + 1 = n
        <5>1. links[q[i + 1]] = NoLink
          BY <1>2, <3>1, <4>2
        <5>2. i = n - 1
          BY <4>2
        <5> QED BY <1>2, <1>3, <3>1, <4>1, <5>1, <5>2
      <4>3. CASE i + 1 # n
        <5>1. i + 2 \in 1..n /\ i + 2 # k /\ (i + 1) + 1 = i + 2 /\ i + 1 \in 1..n - 1
              /\ ~(i + 1 < k) /\ i # n - 1
          BY <1>1, <3>1, <3>3, <4>3
        <5>2. links[q[i + 1]] = q[i + 2] /\ q[i + 2] # s
          BY <1>2, <2>1, <3>1, <4>3, <5>1
        <5>3. r[i + 1] = q[i + 2]
          BY <2>3, <5>1
        <5> QED BY <1>3, <3>1, <4>1, <5>1, <5>2, <5>3
      <4> QED BY <4>2, <4>3
    <3> QED BY <3>2, <3>3
  <2>10. LeadsThrough(passing, IF start = s THEN links[s] ELSE start, r)
    BY <2>3, <2>8, <2>9 DEF LeadsThrough
  <2> QED BY <2>3, <2>4, <2>5, <2>6, <2>10
<1> QED BY <1>4, <1>5

\* The rest of a list, from the item after the first.
LEMMA RestLeads ==
    ASSUME NEW links, NEW start, NEW q \in Seq(Slots), start # NoLink,
           LeadsThrough(links, start, q), Distinct(q)
    PROVE  /\ q # <<>> /\ start = Head(q) /\ start \in Elements(q) /\ start \in Slots
           /\ Tail(q) \in Seq(Slots)
           /\ LeadsThrough(links, links[start], Tail(q))
           /\ Distinct(Tail(q))
           /\ Elements(Tail(q)) = Elements(q) \ {start}
<1> DEFINE n == Len(q)
           r == Tail(q)
<1>1. n # 0 /\ start = q[1] /\ n \in Nat
  BY LenProperties DEF LeadsThrough
<1>2. q # <<>> /\ start = Head(q) /\ 1 \in 1..n
  BY <1>1, EmptySeq
<1>3. /\ r \in Seq(Slots) /\ Len(r) = n - 1
      /\ \A i \in 1..n - 1 : r[i] = q[i + 1]
  BY <1>2, HeadTailProperties
<1>4. start \in Slots /\ start \in Elements(q)
  BY <1>1, <1>2, ElementOfSeq DEF Elements
<1>5. /\ \A i \in 1..n : links[q[i]] = IF i = n THEN NoLink ELSE q[i + 1]
      /\ \A i, j \in 1..n : q[i] = q[j] => i = j
  BY DEF LeadsThrough, Distinct
<1> HIDE DEF n, r
<1>6. \A i \in 1..n - 1 : i + 1 \in 1..n /\ i + 1 # 1 /\ (i + 1 = n <=> i = n - 1)
  BY <1>1
<1>7. LeadsThrough(links, links[start], r)
  <2>1. links[start] = IF n - 1 = 0 THEN NoLink ELSE r[1]
    <3>1. CASE n = 1
      BY <1>1, <1>2, <1>5, <3>1
    <3>2. CASE n # 1
      <4>1. 1 \in 1..n - 1
        BY <1>1, <3>2
      <4> QED BY <1>1, <1>2, <1>3, <1>5, <3>2, <4>1
    <3> QED BY <3>1, <3>2
  <2>2. ASSUME NEW i \in 1..n - 1
        PROVE  links[r[i]] = IF i = n - 1 THEN NoLink ELSE r[i + 1]
    <3>1. links[r[i]] = IF i + 1 = n THEN NoLink ELSE q[(i + 1) + 1]
      BY <1>3, <1>5, <1>6
    <3>2. CASE i = n - 1
      BY <1>6, <3>1, <3>2
    <3>3. CASE i # n - 1
      <4>1. i + 1 \in 1..n - 1 /\ i + 1 # n
        BY <1>1, <3>3
      <4> QED BY <1>3, <3>1, <3>3, <4>1
    <3> QED BY <3>2, <3>3
  <2> QED BY <1>3, <2>1, <2>2 DEF LeadsThrough
<1>8. Distinct(r)
  <2> SUFFICES ASSUME NEW i \in 1..n - 1, NEW j \in 1..n - 1, r[i] = r[j] PROVE i = j
    BY <1>3 DEF Distinct
  <2>1. i + 1 \in 1..n /\ j + 1 \in 1..n /\ q[i + 1] = q[j + 1]
    BY <1>3, <1>6
  <2>2. i + 1 = j + 1
    BY <1>5, <2>1
  <2> QED BY <2>2
<1>9. Elements(r) = Elements(q) \ {start}
  <2>1. ASSUME NEW i \in 1..n - 1 PROVE r[i] \in Elements(q) \ {start}
    <3>1. q[i + 1] # q[1] /\ i + 1 \in 1..n
      BY <1>2, <1>5, <1>6
    <3> QED BY <1>1, <1>3, <3>1 DEF Elements, n
  <2>2. ASSUME NEW i \in 1..n, q[i] # start PROVE q[i] \in Elements(r)
    <3>1. i # 1
      BY <1>1, <2>2
    <3>2. i - 1 \in 1..n - 1 /\ (i - 1) + 1 = i
      BY <1>1, <3>1
    <3>3. r[i - 1] = q[i]
      BY <1>3, <3>2
    <3> QED BY <1>3, <3>2, <3>3 DEF Elements
  <2>3. Elements(r) \subseteq Elements(q) \ {start}
    BY <1>3, <2>1 DEF Elements
  <2>4. Elements(q) \ {start} \subseteq Elements(r)
    <3> SUFFICES ASSUME NEW i \in 1..n, q[i] # start PROVE q[i] \in Elements(r)
      BY DEF Elements, n
    <3> QED BY <2>2
  <2> QED BY <2>3, <2>4
<1> QED BY <1>2, <1>3, <1>4, <1>7, <1>8, <1>9 DEF r

\* Links written outside of a sequence leave it alone.
LEMMA LeadsStill ==
    ASSUME NEW links, NEW others, NEW start, NEW q,
           \A i \in 1..Len(q) : others[q[i]] = links[q[i]],
           LeadsThrough(links, start, q)
    PROVE  LeadsThrough(others, start, q)
BY DEF LeadsThrough

-------------------------------------------------------------------------------
(* The operations, on sequences *)

LEMMA InitHolds ==
    ASSUME Init
    PROVE  Holds([l \in Lists |-> <<>>], <<>>)
<1>1. <<>> \in Seq(Slots) /\ Len(<<>>) = 0
  BY EmptySeq
<1>2. Elements(<<>>) = {} /\ Distinct(<<>>)
  BY <1>1 DEF Elements, Distinct
<1>3. \A links : LeadsThrough(links, NullSlot, <<>>)
  BY <1>1 DEF LeadsThrough, NoLink, NullSlot
<1> QED BY <1>2, <1>3, NoListAssumption DEF Init, Holds, NextOf

LEMMA AddFirstHolds ==
    ASSUME IInv, NEW c \in [Lists -> Seq(Slots)], NEW t \in Seq(Slots), Holds(c, t),
           NEW l \in Lists, NEW s \in Slots, AddFirst(l, s)
    PROVE  /\ [c EXCEPT ![l] = <<s>> \o @] \in [Lists -> Seq(Slots)]
           /\ Holds([c EXCEPT ![l] = <<s>> \o @], t)'
<1> DEFINE q == c[l]
           n == Len(q)
           r == <<s>> \o q
           d == [c EXCEPT ![l] = r]
<1>1. q \in Seq(Slots) /\ n \in Nat /\ \A i \in 1..n : q[i] \in Slots
  BY LenProperties, ElementOfSeq
<1>2. /\ r \in Seq(Slots) /\ Len(r) = n + 1 /\ r[1] = s
      /\ \A i \in 1..n : r[i + 1] = q[i]
  <2>1. <<s>> \in Seq(Slots) /\ Len(<<s>>) = 1 /\ <<s>>[1] = s
    OBVIOUS
  <2>2. /\ r \in Seq(Slots) /\ Len(r) = 1 + n
        /\ \A i \in 1..1 + n : r[i] = IF i <= 1 THEN <<s>>[i] ELSE q[i - 1]
    BY <1>1, <2>1, ConcatProperties
  <2> HIDE DEF r, n
  <2>3. 1 \in 1..1 + n /\ \A i \in 1..n : i + 1 \in 1..1 + n /\ (i + 1) - 1 = i
    BY <1>1
  <2> QED BY <1>1, <2>1, <2>2, <2>3
<1>3. d \in [Lists -> Seq(Slots)] /\ d[l] = r /\ \A m \in Lists : m # l => d[m] = c[m]
  BY <1>2
<1>4. /\ \A m \in Lists : LeadsThrough(next, first[m], c[m]) /\ Distinct(c[m])
      /\ \A m \in Lists : \A x \in Slots : x \in Elements(c[m]) <=> where[x] = m
      /\ LeadsThrough(next, NextOf(at), t) /\ Distinct(t)
      /\ \A x \in Elements(t) : where[x] = loop
      /\ at = NullSlot <=> loop = NoList
      /\ at # NullSlot => where[at] \in {loop, NoList}
  BY DEF Holds
<1>5. /\ where[s] = NoList /\ s # at /\ loop' = loop /\ at' = at
      /\ next'[s] = first[l] /\ \A x \in Slots : x # s => next'[x] = next[x]
      /\ first'[l] = s /\ \A m \in Lists : m # l => first'[m] = first[m]
      /\ where'[s] = l /\ \A x \in Slots : x # s => where'[x] = where[x]
  BY DEF IInv, TypeOK, AddFirst
<1>6. \A m \in Lists : s \notin Elements(c[m])
  BY <1>4, <1>5, NoListAssumption
<1>7. s \notin Elements(t)
  <2>1. CASE loop = NoList
    <3>1. NextOf(at) = NoLink
      BY <1>4, <2>1 DEF NextOf, NullSlot, NoLink
    <3>2. Len(t) = 0
      <4> SUFFICES ASSUME Len(t) # 0 PROVE FALSE
        OBVIOUS
      <4>1. t[1] = NoLink /\ 1 \in 1..Len(t)
        BY <1>4, <3>1, LenProperties DEF LeadsThrough
      <4>2. t[1] \in Slots
        BY <4>1, ElementOfSeq
      <4> QED BY <4>1, <4>2 DEF Slots, NoLink
    <3> QED BY <3>2 DEF Elements
  <2>2. CASE loop # NoList
    BY <1>4, <1>5, <2>2
  <2> QED BY <2>1, <2>2
<1> HIDE DEF q, n, r, d
<1>8. ASSUME NEW p \in Seq(Slots), s \notin Elements(p)
      PROVE  \A i \in 1..Len(p) : next'[p[i]] = next[p[i]]
  <2> TAKE i \in 1..Len(p)
  <2>1. p[i] \in Slots /\ p[i] # s
    BY <1>8, ElementOfSeq DEF Elements
  <2> QED BY <1>5, <2>1
<1>9. LeadsThrough(next', first'[l], r)
  <2>1. /\ first[l] = IF n = 0 THEN NoLink ELSE q[1]
        /\ \A i \in 1..n : next[q[i]] = IF i = n THEN NoLink ELSE q[i + 1]
    BY <1>4 DEF LeadsThrough, q, n
  <2>2. \A i \in 1..n : next'[q[i]] = next[q[i]]
    BY <1>1, <1>6, <1>8 DEF q, n
  <2>3. ASSUME NEW i \in 1..n + 1
        PROVE  next'[r[i]] = IF i = n + 1 THEN NoLink ELSE r[i + 1]
    <3>1. CASE i = 1
      <4>1. next'[r[i]] = IF n = 0 THEN NoLink ELSE q[1]
        BY <1>2, <1>5, <2>1, <3>1
      <4>2. n = 0 \/ (1 \in 1..n /\ n # 0 /\ 1 # n + 1)
        BY <1>1
      <4> QED BY <1>2, <3>1, <4>1, <4>2
    <3>2. CASE i # 1
      <4>1. i - 1 \in 1..n /\ (i - 1) + 1 = i
        BY <1>1, <3>2
      <4>2. next'[r[i]] = IF i - 1 = n THEN NoLink ELSE q[i]
        BY <1>2, <2>1, <2>2, <4>1
      <4>3. i = n + 1 \/ (i \in 1..n /\ i - 1 # n)
        BY <1>1
      <4> QED BY <1>2, <1>1, <4>1, <4>2, <4>3
    <3> QED BY <3>1, <3>2
  <2>4. first'[l] = r[1] /\ n + 1 # 0
    BY <1>1, <1>2, <1>5
  <2> QED BY <1>2, <2>3, <2>4 DEF LeadsThrough
<1>10. Elements(r) = Elements(q) \cup {s}
  <2>1. \A i \in 1..n + 1 : i = 1 \/ (i - 1 \in 1..n /\ (i - 1) + 1 = i)
    BY <1>1
  <2>2. \A i \in 1..n + 1 : r[i] = s \/ \E j \in 1..n : r[i] = q[j]
    BY <1>2, <2>1
  <2>3. \A j \in 1..n : j + 1 \in 1..n + 1 /\ r[j + 1] = q[j]
    BY <1>1, <1>2
  <2>4. 1 \in 1..n + 1 /\ r[1] = s
    BY <1>1, <1>2
  <2>5. Elements(r) = { r[i] : i \in 1..n + 1 } /\ Elements(q) = { q[i] : i \in 1..n }
    BY <1>2 DEF Elements, n
  <2>6. Elements(r) \subseteq Elements(q) \cup {s}
    BY <2>2, <2>5
  <2>7. Elements(q) \cup {s} \subseteq Elements(r)
    <3>1. \A j \in 1..n : q[j] \in Elements(r)
      BY <2>3, <2>5
    <3>2. s \in Elements(r)
      BY <2>4, <2>5
    <3> QED BY <2>5, <3>1, <3>2
  <2> QED BY <2>6, <2>7
<1>11. Distinct(r)
  <2>1. \A i \in 1..n : q[i] # s
    BY <1>6 DEF Elements, q, n
  <2>2. \A i, j \in 1..n : q[i] = q[j] => i = j
    BY <1>4 DEF Distinct, q, n
  <2> SUFFICES ASSUME NEW i \in 1..n + 1, NEW j \in 1..n + 1, r[i] = r[j] PROVE i = j
    BY <1>2 DEF Distinct
  <2>3. i = 1 \/ (i - 1 \in 1..n /\ (i - 1) + 1 = i)
    BY <1>1
  <2>4. j = 1 \/ (j - 1 \in 1..n /\ (j - 1) + 1 = j)
    BY <1>1
  <2>5. (i = 1 /\ r[i] = s) \/ (i - 1 \in 1..n /\ r[i] = q[i - 1])
    BY <1>2, <2>3
  <2>6. (j = 1 /\ r[j] = s) \/ (j - 1 \in 1..n /\ r[j] = q[j - 1])
    BY <1>2, <2>4
  <2>7. (i = 1 /\ j = 1) \/ i - 1 = j - 1
    BY <2>1, <2>2, <2>5, <2>6
  <2> QED BY <2>7
<1>12. ASSUME NEW m \in Lists
       PROVE  /\ LeadsThrough(next', first'[m], d[m]) /\ Distinct(d[m])
              /\ \A x \in Slots : x \in Elements(d[m]) <=> where'[x] = m
  <2>1. CASE m = l
    BY <1>3, <1>4, <1>5, <1>9, <1>10, <1>11, <2>1 DEF q
  <2>2. CASE m # l
    <3>1. d[m] = c[m] /\ c[m] \in Seq(Slots) /\ first'[m] = first[m]
      BY <1>3, <1>5, <2>2
    <3>2. LeadsThrough(next', first[m], c[m])
      BY <1>4, <1>6, <1>8, <3>1, LeadsStill
    <3> QED BY <1>4, <1>5, <1>6, <2>2, <3>1, <3>2
  <2> QED BY <2>1, <2>2
<1>13. LeadsThrough(next', NextOf(at)', t)
  <2>1. NextOf(at)' = NextOf(at)
    <3>1. at \in 0..Capacity
      BY DEF IInv, TypeOK, SlotOrNull
    <3> QED BY <1>5, <3>1 DEF NextOf, NullSlot, Slots
  <2> QED BY <1>4, <1>7, <1>8, <2>1, LeadsStill
<1>14. \A x \in Elements(t) : where'[x] = loop'
  <2>1. \A x \in Elements(t) : x \in Slots
    BY ElementOfSeq DEF Elements
  <2> QED BY <1>4, <1>5, <1>7, <2>1
<1>15. at' # NullSlot => where'[at'] \in {loop', NoList}
  <2>1. at \in 0..Capacity
    BY DEF IInv, TypeOK, SlotOrNull
  <2> QED BY <1>4, <1>5, <2>1 DEF NullSlot, Slots
<1>16. Holds(d, t)'
  <2>1. /\ \A m \in Lists : LeadsThrough(next', first'[m], d[m]) /\ Distinct(d[m])
        /\ \A m \in Lists : \A x \in Slots : x \in Elements(d[m]) <=> where'[x] = m
    BY <1>12
  <2>2. at' = NullSlot <=> loop' = NoList
    BY <1>4, <1>5
  <2> QED BY <1>4, <1>13, <1>14, <1>15, <2>1, <2>2 DEF Holds
<1> QED BY <1>3, <1>16 DEF d, r, q

\* Every list, and what the loop has left, passes the removed slot by.
LEMMA RemoveHolds ==
    ASSUME IInv, NEW c \in [Lists -> Seq(Slots)], NEW t \in Seq(Slots), Holds(c, t),
           NEW l \in Lists, NEW s \in Slots, Remove(l, s)
    PROVE  /\ [c EXCEPT ![l] = Sequence!RemoveFirst(@, s)] \in [Lists -> Seq(Slots)]
           /\ Sequence!RemoveFirst(t, s) \in Seq(Slots)
           /\ Holds([c EXCEPT ![l] = Sequence!RemoveFirst(@, s)], Sequence!RemoveFirst(t, s))'
<1> DEFINE d == [c EXCEPT ![l] = Sequence!RemoveFirst(c[l], s)]
           u == Sequence!RemoveFirst(t, s)
           p == prev[s]
<1>1. /\ \A m \in Lists : LeadsThrough(next, first[m], c[m]) /\ Distinct(c[m])
      /\ \A m \in Lists : \A x \in Slots : x \in Elements(c[m]) <=> where[x] = m
      /\ LeadsThrough(next, NextOf(at), t) /\ Distinct(t)
      /\ \A x \in Elements(t) : where[x] = loop
      /\ at = NullSlot <=> loop = NoList
      /\ at # NullSlot => where[at] \in {loop, NoList}
  BY DEF Holds
<1>2. /\ where[s] = l /\ l # NoList /\ ~Dangling /\ loop' = loop /\ at' = at
      /\ \A x \in Slots : next'[x] = IF x = p THEN next[s] ELSE next[x]
      /\ first'[l] = IF first[l] = s THEN next[s] ELSE first[l]
      /\ \A m \in Lists : m # l => first'[m] = first[m]
      /\ where'[s] = NoList /\ \A x \in Slots : x # s => where'[x] = where[x]
  BY NoListAssumption DEF IInv, TypeOK, Remove
<1>3. /\ at \in 0..Capacity /\ p \in 0..Capacity /\ s # NullSlot
      /\ \A x \in Slots : next[x] \in 0..Capacity
  <2>1. at \in SlotOrNull /\ p \in SlotOrNull /\ \A x \in Slots : next[x] \in SlotOrNull
    BY DEF IInv, TypeOK
  <2> HIDE DEF p
  <2> QED BY <2>1, CapacityAssumption DEF SlotOrNull, Slots, NullSlot
<1>4. ASSUME NEW x \in Slots, where[x] # NoList
      PROVE  x = p <=> next[x] = s
  <2>1. /\ next[x] # NullSlot => prev[next[x]] = x
        /\ p # NullSlot => next[p] = s
    BY <1>2, <1>4 DEF IInv, LinksAgree
  <2>2. x # NullSlot
    BY DEF Slots, NullSlot
  <2> QED BY <1>3, <2>1, <2>2
<1>5. loop \in Lists \cup {NoList} /\ \A x \in Slots : where[x] \in Lists \cup {NoList}
  BY DEF IInv, TypeOK
<1>6. \A x \in Elements(t) : x \in Slots /\ loop # NoList
  <2>1. \A i \in 1..Len(t) : t[i] \in Slots
    BY ElementOfSeq
  <2>2. CASE loop = NoList
    <3>1. NextOf(at) = NoLink
      BY <1>1, <2>2 DEF NextOf, NullSlot, NoLink
    <3>2. Len(t) = 0
      <4> SUFFICES ASSUME Len(t) # 0 PROVE FALSE
        OBVIOUS
      <4>1. t[1] = NoLink /\ 1 \in 1..Len(t)
        BY <1>1, <3>1, LenProperties DEF LeadsThrough
      <4> QED BY <2>1, <4>1 DEF Slots, NoLink
    <3> QED BY <3>2 DEF Elements
  <2>3. CASE loop # NoList
    BY <2>1, <2>3 DEF Elements
  <2> QED BY <2>2, <2>3
<1> HIDE DEF p
<1>7. ASSUME NEW m \in Lists
      PROVE  /\ Sequence!RemoveFirst(c[m], s) \in Seq(Slots)
             /\ Distinct(Sequence!RemoveFirst(c[m], s))
             /\ Elements(Sequence!RemoveFirst(c[m], s)) = Elements(c[m]) \ {s}
             /\ LeadsThrough(next', IF first[m] = s THEN next[s] ELSE first[m],
                             Sequence!RemoveFirst(c[m], s))
  <2>1. c[m] \in Seq(Slots) /\ LeadsThrough(next, first[m], c[m]) /\ Distinct(c[m])
    BY <1>1
  <2>2. \A i \in 1..Len(c[m]) : c[m][i] = p <=> next[c[m][i]] = s
    <3> TAKE i \in 1..Len(c[m])
    <3>1. c[m][i] \in Slots
      BY <2>1, ElementOfSeq
    <3>2. where[c[m][i]] = m
      BY <1>1, <3>1 DEF Elements
    <3> QED BY <1>4, <3>1, <3>2, NoListAssumption
  <2>3. InFront(next, p, s, c[m]) /\ PassesBy(next, next', p, s)
    BY <1>2, <2>2 DEF InFront, PassesBy
  <2> QED BY <2>1, <2>3, PassedBy
<1>8. ASSUME NEW m \in Lists, m # l
      PROVE  Sequence!RemoveFirst(c[m], s) = c[m] /\ first[m] # s
  <2>1. s \notin Elements(c[m])
    BY <1>1, <1>2, <1>8
  <2>2. first[m] # NullSlot => where[first[m]] = m
    BY DEF IInv, LinksAgree
  <2> QED BY <1>2, <1>3, <1>8, <2>1, <2>2, RemovesNothing
<1>9. d \in [Lists -> Seq(Slots)] /\ \A m \in Lists : d[m] = Sequence!RemoveFirst(c[m], s)
  <2>1. d \in [Lists -> Seq(Slots)]
    BY <1>7
  <2>2. \A m \in Lists : d[m] = IF m = l THEN Sequence!RemoveFirst(c[l], s) ELSE c[m]
    OBVIOUS
  <2> HIDE DEF d
  <2> QED BY <1>8, <2>1, <2>2
<1> HIDE DEF d
<1>10. ASSUME NEW m \in Lists
       PROVE  /\ LeadsThrough(next', first'[m], d[m]) /\ Distinct(d[m])
              /\ \A x \in Slots : x \in Elements(d[m]) <=> where'[x] = m
  <2>1. first'[m] = IF first[m] = s THEN next[s] ELSE first[m]
    BY <1>2, <1>8
  <2>2. LeadsThrough(next', first'[m], d[m]) /\ Distinct(d[m]) /\ Elements(d[m]) = Elements(c[m]) \ {s}
    BY <1>7, <1>9, <2>1
  <2>3. ASSUME NEW x \in Slots PROVE x \in Elements(d[m]) <=> where'[x] = m
    <3>1. CASE x = s
      BY <1>2, <2>2, <3>1, NoListAssumption
    <3>2. CASE x # s
      BY <1>1, <1>2, <2>2, <3>2
    <3> QED BY <3>1, <3>2
  <2> QED BY <2>2, <2>3
<1>11. /\ u \in Seq(Slots) /\ Distinct(u) /\ Elements(u) = Elements(t) \ {s}
       /\ LeadsThrough(next', IF NextOf(at) = s THEN next[s] ELSE NextOf(at), u)
  <2>1. \A i \in 1..Len(t) : t[i] = p <=> next[t[i]] = s
    <3> TAKE i \in 1..Len(t)
    <3>1. t[i] \in Elements(t)
      BY DEF Elements
    <3> QED BY <1>1, <1>4, <1>6, <3>1
  <2>2. InFront(next, p, s, t) /\ PassesBy(next, next', p, s)
    BY <1>2, <2>1 DEF InFront, PassesBy
  <2> QED BY <1>1, <2>2, PassedBy
<1>12. NextOf(at)' = IF NextOf(at) = s THEN next[s] ELSE NextOf(at)
  <2>1. CASE at = NullSlot
    BY <1>2, <1>3, <2>1 DEF NextOf
  <2>2. CASE at # NullSlot
    <3>1. at \in Slots /\ where[at] = loop /\ loop # NoList
      BY <1>1, <1>2, <1>3, <2>2 DEF Dangling, Slots, NullSlot
    <3>2. at = p <=> next[at] = s
      BY <1>4, <3>1
    <3> QED BY <1>2, <2>2, <3>1, <3>2 DEF NextOf
  <2> QED BY <2>1, <2>2
<1>13. \A x \in Elements(u) : where'[x] = loop'
  BY <1>1, <1>2, <1>6, <1>11
<1>14. at' # NullSlot => where'[at'] \in {loop', NoList}
  <2>1. at # NullSlot => at \in Slots
    BY <1>3 DEF Slots, NullSlot
  <2> QED BY <1>1, <1>2, <2>1
<1> HIDE DEF u
<1>15. Holds(d, u)'
  <2>1. /\ \A m \in Lists : LeadsThrough(next', first'[m], d[m]) /\ Distinct(d[m])
        /\ \A m \in Lists : \A x \in Slots : x \in Elements(d[m]) <=> where'[x] = m
    BY <1>10
  <2>2. (at' = NullSlot <=> loop' = NoList) /\ LeadsThrough(next', NextOf(at)', u)
    BY <1>1, <1>2, <1>11, <1>12
  <2> QED BY <1>11, <1>13, <1>14, <2>1, <2>2 DEF Holds
<1> QED BY <1>9, <1>11, <1>15 DEF d, u

LEMMA BeginLoopHolds ==
    ASSUME IInv, NEW c \in [Lists -> Seq(Slots)], NEW t \in Seq(Slots), Holds(c, t),
           NEW l \in Lists, BeginLoop(l)
    PROVE  /\ c[l] # <<>> /\ at' = Head(c[l]) /\ Tail(c[l]) \in Seq(Slots)
           /\ Holds(c, Tail(c[l]))'
<1>1. /\ \A m \in Lists : LeadsThrough(next, first[m], c[m]) /\ Distinct(c[m])
      /\ \A m \in Lists : \A x \in Slots : x \in Elements(c[m]) <=> where[x] = m
  BY DEF Holds
<1>2. /\ first[l] # NullSlot /\ loop' = l /\ at' = first[l] /\ l # NoList
      /\ next' = next /\ first' = first /\ where' = where
  BY NoListAssumption DEF BeginLoop
<1>3. c[l] \in Seq(Slots) /\ \A x \in Elements(c[l]) : x \in Slots
  BY ElementOfSeq DEF Elements
<1>4. /\ c[l] # <<>> /\ first[l] = Head(c[l]) /\ first[l] \in Elements(c[l])
      /\ first[l] \in Slots
      /\ Tail(c[l]) \in Seq(Slots)
      /\ LeadsThrough(next, next[first[l]], Tail(c[l]))
      /\ Distinct(Tail(c[l]))
      /\ Elements(Tail(c[l])) = Elements(c[l]) \ {first[l]}
  BY <1>1, <1>2, <1>3, RestLeads DEF NullSlot, NoLink
<1>5. LeadsThrough(next', NextOf(at)', Tail(c[l]))
  BY <1>2, <1>4 DEF NextOf
<1>6. /\ \A x \in Elements(Tail(c[l])) : where'[x] = loop'
      /\ where'[at'] = loop'
  BY <1>1, <1>2, <1>3, <1>4
<1>7. Holds(c, Tail(c[l]))'
  BY <1>1, <1>2, <1>4, <1>5, <1>6 DEF Holds
<1> QED BY <1>2, <1>4, <1>7

LEMMA AdvanceLoopHolds ==
    ASSUME IInv, NEW c \in [Lists -> Seq(Slots)], NEW t \in Seq(Slots), Holds(c, t), AdvanceLoop
    PROVE  IF t = <<>>
           THEN loop' = NoList /\ at' = NullSlot /\ Holds(c, <<>>)'
           ELSE loop' = loop /\ at' = Head(t) /\ Tail(t) \in Seq(Slots) /\ Holds(c, Tail(t))'
<1>1. /\ \A m \in Lists : LeadsThrough(next, first[m], c[m]) /\ Distinct(c[m])
      /\ \A m \in Lists : \A x \in Slots : x \in Elements(c[m]) <=> where[x] = m
      /\ LeadsThrough(next, NextOf(at), t) /\ Distinct(t)
      /\ \A x \in Elements(t) : where[x] = loop
  BY DEF Holds
<1>2. /\ loop # NoList /\ at' = NextOf(at)
      /\ loop' = IF at' = NullSlot THEN NoList ELSE loop
      /\ next' = next /\ first' = first /\ where' = where
  BY DEF AdvanceLoop
<1>3. CASE t = <<>>
  <2>1. Len(t) = 0
    BY <1>3
  <2>2. at' = NullSlot /\ loop' = NoList
    BY <1>1, <1>2, <2>1 DEF LeadsThrough, NullSlot, NoLink
  <2>3. LeadsThrough(next', NextOf(at)', <<>>) /\ Elements(<<>>) = {} /\ Distinct(<<>>)
    BY <2>2 DEF LeadsThrough, NextOf, NullSlot, NoLink, Elements, Distinct
  <2>4. Holds(c, <<>>)'
    BY <1>1, <1>2, <2>2, <2>3 DEF Holds
  <2> QED BY <1>3, <2>2, <2>4
<1>4. CASE t # <<>>
  <2>1. NextOf(at) # NoLink
    <3>1. Len(t) # 0 /\ 1 \in 1..Len(t)
      BY <1>4, EmptySeq, LenProperties
    <3>2. NextOf(at) = t[1] /\ t[1] \in Slots
      BY <1>1, <3>1, ElementOfSeq DEF LeadsThrough
    <3> QED BY <3>2 DEF Slots, NoLink
  <2>2. /\ NextOf(at) = Head(t) /\ NextOf(at) \in Elements(t) /\ NextOf(at) \in Slots
        /\ Tail(t) \in Seq(Slots)
        /\ LeadsThrough(next, next[NextOf(at)], Tail(t))
        /\ Distinct(Tail(t))
        /\ Elements(Tail(t)) = Elements(t) \ {NextOf(at)}
    BY <1>1, <2>1, RestLeads
  <2>3. at' = Head(t) /\ at' # NullSlot /\ loop' = loop /\ at' \in Slots
    BY <1>2, <2>1, <2>2 DEF NullSlot, NoLink
  <2>4. LeadsThrough(next', NextOf(at)', Tail(t))
    <3>1. NextOf(at)' = next[NextOf(at)]
      BY <1>2, <2>3 DEF NextOf
    <3> QED BY <1>2, <2>2, <3>1
  <2>5. /\ \A x \in Elements(Tail(t)) : where'[x] = loop'
        /\ where'[at'] = loop'
    BY <1>1, <1>2, <2>2, <2>3
  <2>6. Holds(c, Tail(t))'
    BY <1>1, <1>2, <2>2, <2>3, <2>4, <2>5 DEF Holds
  <2> QED BY <1>4, <2>2, <2>3, <2>6
<1> QED BY <1>3, <1>4

LEMMA SeqInductive == Spec => []SeqInv
<1>1. Init => SeqInv
  <2> SUFFICES ASSUME Init PROVE SeqInv
    OBVIOUS
  <2>1. [l \in Lists |-> <<>>] \in [Lists -> Seq(Slots)] /\ <<>> \in Seq(Slots)
    BY EmptySeq
  <2> QED BY <2>1, InitInv, InitHolds DEF SeqInv
<1>2. SeqInv /\ [Next]_vars => SeqInv'
  <2> SUFFICES ASSUME SeqInv, [Next]_vars PROVE SeqInv'
    OBVIOUS
  <2>1. IInv /\ IInv'
    BY StepInv DEF SeqInv
  <2>2. PICK c \in [Lists -> Seq(Slots)], t \in Seq(Slots) : Holds(c, t)
    BY DEF SeqInv
  <2>3. ASSUME NEW l \in Lists, NEW s \in Slots, AddFirst(l, s) PROVE SeqInv'
    <3>1. PICK d : d = [c EXCEPT ![l] = <<s>> \o @]
      OBVIOUS
    <3>2. d \in [Lists -> Seq(Slots)] /\ Holds(d, t)'
      BY <2>1, <2>2, <2>3, <3>1, AddFirstHolds
    <3> QED BY <2>1, <3>2 DEF SeqInv
  <2>4. ASSUME NEW l \in Lists, NEW s \in Slots, Remove(l, s) PROVE SeqInv'
    BY <2>1, <2>2, <2>4, RemoveHolds DEF SeqInv
  <2>5. ASSUME NEW l \in Lists, BeginLoop(l) PROVE SeqInv'
    BY <2>1, <2>2, <2>5, BeginLoopHolds DEF SeqInv
  <2>6. ASSUME AdvanceLoop PROVE SeqInv'
    <3>1. <<>> \in Seq(Slots)
      BY EmptySeq
    <3> QED BY <2>1, <2>2, <2>6, <3>1, AdvanceLoopHolds DEF SeqInv
  <2>7. CASE UNCHANGED vars
    <3>1. Holds(c, t)'
      BY <2>2, <2>7 DEF vars, Holds, NextOf
    <3> QED BY <2>1, <2>2, <3>1 DEF SeqInv
  <2> QED BY <2>3, <2>4, <2>5, <2>6, <2>7 DEF Next
<1> QED BY <1>1, <1>2, PTL DEF Spec

\* What the loops of a client meet are the sequences.
AreLists(links, starts, c) ==
    \A l \in Lists : LeadsThrough(links, starts[l], c[l]) /\ Distinct(c[l])

LEMMA LoopsMeet ==
    ASSUME NEW links, NEW starts, NEW c \in [Lists -> Seq(Slots)], AreLists(links, starts, c)
    PROVE  [l \in Lists |-> Walk(links, starts[l], Capacity)] = c
<1>1. ASSUME NEW l \in Lists PROVE Walk(links, starts[l], Capacity) = c[l]
  BY CapacityAssumption, DistinctFits, WalkMeets DEF AreLists, Slots
<1> QED BY <1>1

\* The links keep every promise of SlotSequences: a slot is in one list at most, a list
\* has its slots in the order they were added, and a loop meets, in order, the slots that
\* were in the list when it began and were not removed since, even when its body removes
\* the visited slot.
THEOREM SequencesImplemented == Spec => ImplementsSequences
<1>1. Init => Sequence!Init
  <2> SUFFICES ASSUME Init PROVE Sequence!Init
    OBVIOUS
  <2>1. <<>> \in Seq(Slots) /\ [l \in Lists |-> <<>>] \in [Lists -> Seq(Slots)]
    BY EmptySeq
  <2> DEFINE c == [l \in Lists |-> <<>>]
  <2>2. /\ LeadsThrough(next, NextOf(at), <<>>) /\ Distinct(<<>>)
        /\ \A l \in Lists : LeadsThrough(next, first[l], c[l]) /\ Distinct(c[l])
    BY InitHolds DEF Holds
  <2>3. [l \in Lists |-> Loop(first[l])] = c
    <3> HIDE DEF c
    <3>1. c \in [Lists -> Seq(Slots)]
      BY <2>1 DEF c
    <3>2. AreLists(next, first, c)
      BY <2>2 DEF AreLists
    <3> QED BY <3>1, <3>2, LoopsMeet DEF Loop
  <2>4. Loop(NextOf(at)) = <<>>
    BY <2>1, <2>2, CapacityAssumption, DistinctFits, WalkMeets DEF Loop, Slots
  <2> QED BY <2>3, <2>4 DEF Sequence!Init, Init
<1>2. SeqInv /\ [Next]_vars => [Sequence!Next]_(Sequence!seqVars)
  <2> SUFFICES ASSUME SeqInv, [Next]_vars
               PROVE  Sequence!Next \/ UNCHANGED Sequence!seqVars
    OBVIOUS
  <2>1. PICK c \in [Lists -> Seq(Slots)], t \in Seq(Slots) : Holds(c, t)
    BY DEF SeqInv
  <2>2. IInv
    BY DEF SeqInv
  <2>3. [l \in Lists |-> Loop(first[l])] = c /\ Loop(NextOf(at)) = t
    <3>1. [l \in Lists |-> Walk(next, first[l], Capacity)] = c
      <4>1. AreLists(next, first, c)
        BY <2>1 DEF Holds, AreLists
      <4> QED BY <4>1, LoopsMeet
    <3>2. Walk(next, NextOf(at), Capacity) = t
      BY <2>1, CapacityAssumption, DistinctFits, WalkMeets DEF Holds, Slots
    <3> QED BY <3>1, <3>2 DEF Loop
  <2>4. ASSUME NEW d \in [Lists -> Seq(Slots)], NEW u \in Seq(Slots), Holds(d, u)'
        PROVE  [l \in Lists |-> Loop(first[l])]' = d /\ Loop(NextOf(at))' = u
    <3>1. [l \in Lists |-> Walk(next', first'[l], Capacity)] = d
      <4>1. AreLists(next', first', d)
        BY <2>4 DEF Holds, AreLists
      <4> QED BY <4>1, LoopsMeet
    <3>2. Walk(next', NextOf(at)', Capacity) = u
      BY <2>4, CapacityAssumption, DistinctFits, WalkMeets DEF Holds, Slots
    <3> QED BY <3>1, <3>2 DEF Loop
  <2>5. /\ \A l \in Lists : \A s \in Slots : s \in Elements(c[l]) <=> where[s] = l
        /\ \A l \in Lists : Sequence!ToSet(c[l]) = Elements(c[l])
    <3>1. \A l \in Lists : DOMAIN c[l] = 1..Len(c[l])
      BY LenProperties
    <3> QED BY <2>1, <3>1 DEF Holds, Sequence!ToSet, Elements
  <2>6. ASSUME NEW l \in Lists, NEW s \in Slots, AddFirst(l, s)
        PROVE  Sequence!Next
    <3>1. /\ [m \in Lists |-> Loop(first[m])]' = [c EXCEPT ![l] = <<s>> \o @]
          /\ Loop(NextOf(at))' = t
      BY <2>1, <2>2, <2>4, <2>6, AddFirstHolds
    <3>2. where[s] = NoList /\ s # at /\ loop' = loop /\ at' = at
      BY <2>6 DEF AddFirst
    <3>3. s \notin UNION { Sequence!ToSet(c[m]) : m \in Lists }
      BY <2>5, <3>2, NoListAssumption
    <3>4. Sequence!PushFront(l, s)
      BY <2>3, <3>1, <3>2, <3>3 DEF Sequence!PushFront, Sequence!Listed
    <3> QED BY <3>4 DEF Sequence!Next
  <2>7. ASSUME NEW l \in Lists, NEW s \in Slots, Remove(l, s)
        PROVE  Sequence!Next
    <3>1. /\ [m \in Lists |-> Loop(first[m])]' = [c EXCEPT ![l] = Sequence!RemoveFirst(@, s)]
          /\ Loop(NextOf(at))' = Sequence!RemoveFirst(t, s)
      BY <2>1, <2>2, <2>4, <2>7, RemoveHolds
    <3>2. where[s] = l /\ loop' = loop /\ at' = at
      BY <2>7 DEF Remove
    <3>3. s \in Sequence!ToSet(c[l])
      BY <2>5, <3>2
    <3>4. Sequence!Delete(l, s)
      BY <2>3, <3>1, <3>2, <3>3 DEF Sequence!Delete
    <3> QED BY <3>4 DEF Sequence!Next
  <2>8. ASSUME NEW l \in Lists, BeginLoop(l)
        PROVE  Sequence!Next
    <3>1. /\ c[l] # <<>> /\ at' = Head(c[l])
          /\ [m \in Lists |-> Loop(first[m])]' = c
          /\ Loop(NextOf(at))' = Tail(c[l])
      BY <2>1, <2>2, <2>4, <2>8, BeginLoopHolds
    <3>2. loop = NoList /\ loop' = l
      BY <2>8 DEF BeginLoop
    <3>3. Sequence!Begin(l)
      BY <2>3, <3>1, <3>2 DEF Sequence!Begin
    <3> QED BY <3>3 DEF Sequence!Next
  <2>9. ASSUME AdvanceLoop
        PROVE  Sequence!Next
    <3>1. <<>> \in Seq(Slots)
      BY EmptySeq
    <3>2. IF t = <<>>
          THEN loop' = NoList /\ at' = NullSlot /\ Holds(c, <<>>)'
          ELSE loop' = loop /\ at' = Head(t) /\ Tail(t) \in Seq(Slots) /\ Holds(c, Tail(t))'
      BY <2>1, <2>2, <2>9, AdvanceLoopHolds
    <3>3. /\ [m \in Lists |-> Loop(first[m])]' = c
          /\ Loop(NextOf(at))' = IF t = <<>> THEN <<>> ELSE Tail(t)
      BY <2>4, <3>1, <3>2
    <3>4. loop # NoList
      BY <2>9 DEF AdvanceLoop
    <3>5. Sequence!Advance
      BY <2>3, <3>2, <3>3, <3>4 DEF Sequence!Advance
    <3> QED BY <3>5 DEF Sequence!Next
  <2>10. CASE UNCHANGED vars
    BY <2>10 DEF vars, Sequence!seqVars, Loop, NextOf
  <2> QED BY <2>6, <2>7, <2>8, <2>9, <2>10 DEF Next
<1> QED BY <1>1, <1>2, SeqInductive, PTL DEF Spec, ImplementsSequences, Sequence!Spec

-------------------------------------------------------------------------------
(* The links *)

\* Every link of a slot list, its iteration included, stays in the array.
THEOREM TypeCorrect == Spec => []TypeOK
<1>1. IInv => TypeOK
  BY DEF IInv
<1> QED BY <1>1, InitInv, StepInv, PTL DEF Spec

\* Whatever sequence of adds, removes and loops, the two links of neighbours agree
\* and lists that share the array never reach into each other.
THEOREM LinksInvariant == Spec => []LinksAgree
<1>1. IInv => LinksAgree
  BY DEF IInv
<1> QED BY <1>1, InitInv, StepInv, PTL DEF Spec
===============================================================================
