---------------------------- MODULE SlotMap_proofs ----------------------------
(***************************************************************************)
(* The free list of a slot map, for every capacity up to NU_SLOT_MAX and   *)
(* every word size. FreeChain is inductive together with TypeOK; the other *)
(* properties of the slot map follow from it.                              *)
(***************************************************************************)
EXTENDS SlotMap, FiniteSetTheorems, SequenceTheorems, Walks, TLAPS

IInv == TypeOK /\ FreeChain /\ PayloadIntact /\ AbortsOnlyWhenFull

\* No link written by nu__slotmap_init is truncated up to NU_SLOT_MAX objects.
LEMMA InitLinkExact ==
    ASSUME Capacity <= SlotMax, NEW s \in Slots
    PROVE  InitLink(s) = s + 1
<1>1. s + 1 \in 0..WordMax
  BY CapacityAssumption, WordAssumption DEF Slots, SlotMax
<1>2. \A n, m \in Nat : n <= m => n % (m + 1) = n
  BY SMT
<1> QED BY <1>1, <1>2, WordAssumption DEF InitLink, U16, Slots

\* A fresh map: the links chain all the slots in increasing order.
LEMMA InitInv ==
    ASSUME Capacity <= SlotMax, Init
    PROVE  IInv
<1>1. TypeOK
  BY InitLinkExact, CapacityAssumption, WordAssumption
     DEF Init, TypeOK, Slots, Words, SlotMax, NullSlot
<1>2. FreeChain
  <2> DEFINE c == [i \in 1..Capacity + 1 |-> i]
  <2>1. c \in [1..Capacity + 1 -> 1..Capacity + 1] /\ Capacity \in 0..Capacity
    BY CapacityAssumption, WordAssumption
  <2>2. \A i \in 1..Capacity + 1 : c[i] = i
    OBVIOUS
  <2> HIDE DEF c
  <2>3. \A i \in 1..Capacity : cell[c[i]] = c[i + 1]
    <3> TAKE i \in 1..Capacity
    <3>1. c[i] = i /\ c[i + 1] = i + 1
      BY <2>2, CapacityAssumption, WordAssumption
    <3> QED BY <3>1, InitLinkExact DEF Init, Slots
  <2>4. c[1] = free /\ c[Capacity + 1] = Capacity + 1
    BY <2>2, CapacityAssumption, WordAssumption DEF Init
  <2>5. \A s \in Slots \ held : \E i \in 1..Capacity : c[i] = s
    BY <2>2, CapacityAssumption, WordAssumption DEF Slots
  <2>6. \A i \in 1..Capacity : c[i] \in Slots /\ c[i] \notin held
    BY <2>2, CapacityAssumption, WordAssumption DEF Slots, Init
  <2>7. IsFreeChain(Capacity, c)
    BY <2>2, <2>3, <2>4, <2>5, <2>6, CapacityAssumption, WordAssumption DEF IsFreeChain
  <2> QED BY <2>1, <2>7 DEF FreeChain
<1>3. PayloadIntact /\ AbortsOnlyWhenFull
  BY DEF Init, PayloadIntact, AbortsOnlyWhenFull
<1> QED BY <1>1, <1>2, <1>3 DEF IInv

\* nu__slotmap_add takes the first slot off the chain.
LEMMA AddInv ==
    ASSUME IInv, Add
    PROVE  IInv' /\ ret' \in Slots \ held
<1> USE CapacityAssumption, WordAssumption
<1>1. PICK n \in 0..Capacity : \E c \in [1..n + 1 -> 1..Capacity + 1] : IsFreeChain(n, c)
  BY DEF IInv, FreeChain
<1>2. PICK c \in [1..n + 1 -> 1..Capacity + 1] : IsFreeChain(n, c)
  BY <1>1
<1>3. n > 0 /\ free = c[1] /\ free \in Slots /\ free \notin held
  BY <1>2 DEF IsFreeChain, Add
<1>4. free' = cell[free] /\ cell' = cell /\ ret' = free /\ held' = held \cup {free}
  BY <1>3 DEF Add, LinksOf, Slots, NullSlot
<1>5. TypeOK'
  BY <1>3, <1>4 DEF IInv, TypeOK, Add, Slots, Words
<1>6. FreeChain'
  <2> DEFINE d == [i \in 1..(n - 1) + 1 |-> c[i + 1]]
  <2>1. n - 1 \in 0..Capacity /\ d \in [1..(n - 1) + 1 -> 1..Capacity + 1]
    BY <1>3
  <2>2. \A i \in 1..n : d[i] = c[i + 1]
    BY <1>3
  <2> HIDE DEF d
  <2>3. d[1] = free' /\ d[(n - 1) + 1] = Capacity + 1
    BY <1>2, <1>3, <1>4, <2>2 DEF IsFreeChain
  <2>4. \A i \in 1..n - 1 : d[i] \in Slots /\ d[i] \notin held' /\ cell'[d[i]] = d[i + 1]
    BY <1>2, <1>3, <1>4, <2>2 DEF IsFreeChain
  <2>5. \A i, j \in 1..n - 1 : d[i] = d[j] => i = j
    BY <1>2, <1>3, <2>2 DEF IsFreeChain
  <2>6. \A s \in Slots \ held' : \E i \in 1..n - 1 : d[i] = s
    <3> SUFFICES ASSUME NEW s \in Slots, s \notin held, s # free
                 PROVE  \E i \in 1..n - 1 : d[i] = s
      BY <1>4
    <3>1. PICK k \in 1..n : c[k] = s
      BY <1>2 DEF IsFreeChain
    <3>2. k - 1 \in 1..n - 1 /\ d[k - 1] = s
      BY <1>3, <3>1, <2>2
    <3> QED BY <3>2
  <2>7. IsFreeChain(n - 1, d)'
    BY <2>3, <2>4, <2>5, <2>6 DEF IsFreeChain, Slots
  <2> QED BY <2>1, <2>7 DEF FreeChain
<1>7. PayloadIntact'
  BY <1>3, <1>4 DEF IInv, PayloadIntact, TypeOK, Add
<1>8. AbortsOnlyWhenFull'
  BY DEF Add, AbortsOnlyWhenFull
<1> QED BY <1>3, <1>4, <1>5, <1>6, <1>7, <1>8 DEF IInv

\* A chain misses the slots that are held, so it is shorter than the array then.
LEMMA ChainIsShorter ==
    ASSUME NEW n \in 0..Capacity, NEW c \in [1..n + 1 -> 1..Capacity + 1], IsFreeChain(n, c),
           held \subseteq Slots, NEW s \in held
    PROVE  n < Capacity
<1> USE CapacityAssumption, WordAssumption
<1> SUFFICES ASSUME n = Capacity PROVE FALSE
  OBVIOUS
<1> DEFINE others == Slots \ {s}
           f == [i \in 1..n |-> c[i]]
<1>1. f \in [1..n -> others]
  BY DEF IsFreeChain
<1>2. IsFiniteSet(1..n) /\ Cardinality(1..n) = Capacity
  <2>1. 1 \in Int /\ n \in Int /\ ~(1 > n) /\ n - 1 + 1 = n
    OBVIOUS
  <2>2. IsFiniteSet(1..n) /\ Cardinality(1..n) = IF 1 > n THEN 0 ELSE n - 1 + 1
    BY <2>1, FS_Interval, Zenon
  <2> QED BY <2>1, <2>2
<1>3. IsFiniteSet(Slots) /\ Cardinality(Slots) = Capacity
  BY <1>2 DEF Slots
<1>4. IsFiniteSet(others) /\ Cardinality(others) < Cardinality(1..n)
  <2>1. IsFiniteSet(others) /\ Cardinality(others) = Capacity - 1
    BY <1>3, FS_RemoveElement
  <2> HIDE DEF others
  <2> QED BY <2>1, <1>2
<1>5. \E x, y \in 1..n : x # y /\ f[x] = f[y]
  <2> HIDE DEF f, others
  <2> QED BY <1>1, <1>2, <1>4, FS_PigeonHole
<1> QED BY <1>5 DEF IsFreeChain

\* nu__slotmap_remove of a held slot puts it in front of the chain.
LEMMA RemoveInv ==
    ASSUME IInv, NEW s \in held, Remove(s)
    PROVE  IInv'
<1> USE CapacityAssumption, WordAssumption
<1>1. PICK n \in 0..Capacity : \E c \in [1..n + 1 -> 1..Capacity + 1] : IsFreeChain(n, c)
  BY DEF IInv, FreeChain
<1>2. PICK c \in [1..n + 1 -> 1..Capacity + 1] : IsFreeChain(n, c)
  BY <1>1
<1>3. /\ s \in Slots /\ free' = s /\ cell' = [cell EXCEPT ![s] = free]
      /\ held' = held \ {s} /\ free \in Words /\ cell \in [Slots -> Words]
  BY DEF IInv, TypeOK, Remove
<1>4. TypeOK'
  BY <1>3 DEF IInv, TypeOK, Remove, Slots, Words
<1>5. n < Capacity
  BY <1>2, <1>3, ChainIsShorter DEF IInv, TypeOK
<1>6. FreeChain'
  <2> DEFINE d == [i \in 1..(n + 1) + 1 |-> IF i = 1 THEN s ELSE c[i - 1]]
  <2>1. n + 1 \in 0..Capacity /\ d \in [1..(n + 1) + 1 -> 1..Capacity + 1]
    BY <1>3, <1>5 DEF Slots
  <2>2. d[1] = s /\ \A i \in 1..n + 1 : d[i + 1] = c[i]
    OBVIOUS
  <2> HIDE DEF d
  <2>3. \A i \in 1..n : c[i] \in Slots /\ c[i] # s /\ cell'[c[i]] = c[i + 1]
    BY <1>2, <1>3 DEF IsFreeChain
  <2>4. cell'[s] = c[1]
    BY <1>2, <1>3 DEF IsFreeChain
  <2>5. \A i \in 1..n + 1 : d[i] \in Slots /\ d[i] \notin held' /\ cell'[d[i]] = d[i + 1]
    <3> TAKE i \in 1..n + 1
    <3>1. CASE i = 1
      BY <3>1, <2>2, <2>4, <1>3
    <3>2. CASE i # 1
      <4>1. i - 1 \in 1..n /\ d[i] = c[i - 1] /\ d[i + 1] = c[(i - 1) + 1]
        <5>1. i - 1 \in 1..n /\ i - 1 \in 1..n + 1 /\ (i - 1) + 1 = i
          BY <3>2
        <5> QED BY <5>1, <2>2
      <4>2. c[i - 1] \notin held
        BY <4>1, <1>2 DEF IsFreeChain
      <4> QED BY <4>1, <4>2, <2>3, <1>3
    <3> QED BY <3>1, <3>2
  <2>6. \A i, j \in 1..n + 1 : d[i] = d[j] => i = j
    <3> TAKE i, j \in 1..n + 1
    <3>1. i = 1 \/ (i - 1 \in 1..n /\ d[i] = c[i - 1])
      <4>1. i = 1 \/ (i - 1 \in 1..n /\ i - 1 \in 1..n + 1 /\ (i - 1) + 1 = i)
        OBVIOUS
      <4> QED BY <4>1, <2>2
    <3>2. j = 1 \/ (j - 1 \in 1..n /\ d[j] = c[j - 1])
      <4>1. j = 1 \/ (j - 1 \in 1..n /\ j - 1 \in 1..n + 1 /\ (j - 1) + 1 = j)
        OBVIOUS
      <4> QED BY <4>1, <2>2
    <3>3. \A k, l \in 1..n : c[k] = c[l] => k = l
      BY <1>2 DEF IsFreeChain
    <3> QED BY <3>1, <3>2, <3>3, <2>2, <2>3
  <2>7. \A t \in Slots \ held' : \E i \in 1..n + 1 : d[i] = t
    <3> SUFFICES ASSUME NEW t \in Slots, t \notin held \/ t = s
                 PROVE  \E i \in 1..n + 1 : d[i] = t
      BY <1>3
    <3>1. CASE t = s
      BY <3>1, <2>2
    <3>2. CASE t \notin held
      <4>1. PICK k \in 1..n : c[k] = t
        BY <3>2, <1>2 DEF IsFreeChain
      <4>2. k + 1 \in 1..n + 1 /\ d[k + 1] = t
        BY <4>1, <2>2
      <4> QED BY <4>2
    <3> QED BY <3>1, <3>2
  <2>8. d[1] = free' /\ d[(n + 1) + 1] = Capacity + 1
    BY <1>2, <1>3, <2>2 DEF IsFreeChain
  <2>9. IsFreeChain(n + 1, d)'
    BY <2>5, <2>6, <2>7, <2>8 DEF IsFreeChain, Slots
  <2> QED BY <2>1, <2>9 DEF FreeChain
<1>7. PayloadIntact'
  BY <1>3 DEF IInv, PayloadIntact, TypeOK, Remove
<1>8. AbortsOnlyWhenFull'
  BY DEF Remove, AbortsOnlyWhenFull
<1> QED BY <1>4, <1>6, <1>7, <1>8 DEF IInv

\* The chain depends on the links and on who holds what, on nothing else.
LEMMA SameChain ==
    ASSUME FreeChain, UNCHANGED <<free, cell, held>>
    PROVE  FreeChain'
<1>1. PICK n \in 0..Capacity : \E c \in [1..n + 1 -> 1..Capacity + 1] : IsFreeChain(n, c)
  BY DEF FreeChain
<1>2. PICK c \in [1..n + 1 -> 1..Capacity + 1] : IsFreeChain(n, c)
  BY <1>1
<1>3. IsFreeChain(n, c)'
  BY <1>2 DEF IsFreeChain
<1> QED BY <1>3 DEF FreeChain

\* A client's write goes to a word that no free object uses.
LEMMA PutInv ==
    ASSUME IInv, NEW s \in held, NEW v \in Payload, Put(s, v)
    PROVE  IInv'
<1>1. s \in Slots /\ v \in Words /\ cell \in [Slots -> Words]
  BY PayloadAssumption DEF IInv, TypeOK, Words
<1>2. TypeOK'
  BY <1>1 DEF IInv, TypeOK, Put
<1>3. FreeChain'
  <2>1. ASSUME NEW n \in 0..Capacity, NEW c \in [1..n + 1 -> 1..Capacity + 1],
               IsFreeChain(n, c)
        PROVE  IsFreeChain(n, c)'
    <3>1. \A i \in 1..n : c[i] # s
      BY <2>1 DEF IsFreeChain
    <3> QED BY <1>1, <2>1, <3>1 DEF IsFreeChain, Put, Slots
  <2> QED BY <2>1 DEF IInv, FreeChain
<1>4. PayloadIntact'
  BY <1>1 DEF IInv, PayloadIntact, TypeOK, Put
<1>5. AbortsOnlyWhenFull'
  BY DEF Put, AbortsOnlyWhenFull
<1> QED BY <1>2, <1>3, <1>4, <1>5 DEF IInv

\* The assertion of nu__slotmap_add fails on the empty chain only.
LEMMA AbortInv ==
    ASSUME IInv, AddAborts
    PROVE  IInv'
<1>1. TypeOK' /\ PayloadIntact'
  BY DEF IInv, TypeOK, PayloadIntact, AddAborts
<1>2. FreeChain'
  BY SameChain DEF IInv, AddAborts
<1>3. held = Slots
  <2>1. PICK n \in 0..Capacity : \E c \in [1..n + 1 -> 1..Capacity + 1] : IsFreeChain(n, c)
    BY DEF IInv, FreeChain
  <2>2. PICK c \in [1..n + 1 -> 1..Capacity + 1] : IsFreeChain(n, c)
    BY <2>1
  <2>3. n = 0
    BY <2>2, CapacityAssumption, WordAssumption DEF IsFreeChain, AddAborts, Slots
  <2> QED BY <2>2, <2>3 DEF IsFreeChain, IInv, TypeOK
<1>4. AbortsOnlyWhenFull'
  BY <1>3 DEF AbortsOnlyWhenFull, AddAborts
<1> QED BY <1>1, <1>2, <1>4 DEF IInv

LEMMA StepInv ==
    ASSUME IInv, [Next]_vars
    PROVE  IInv'
<1>1. CASE Add
  BY <1>1, AddInv
<1>2. CASE AddAborts
  BY <1>2, AbortInv
<1>3. CASE \E s \in held : Remove(s)
  BY <1>3, RemoveInv
<1>4. CASE \E s \in held, v \in Payload : Put(s, v)
  BY <1>4, PutInv
<1>5. CASE UNCHANGED vars
  <2>1. FreeChain'
    BY <1>5, SameChain DEF vars, IInv
  <2> QED BY <1>5, <2>1 DEF vars, IInv, TypeOK, PayloadIntact, AbortsOnlyWhenFull
<1> QED BY <1>1, <1>2, <1>3, <1>4, <1>5 DEF Next

-------------------------------------------------------------------------------

\* Up to NU_SLOT_MAX objects, the words keep their types: no link leaves the
\* range of nu__slot_t.
THEOREM TypeCorrect ==
    ASSUME Capacity <= SlotMax
    PROVE  Spec => []TypeOK
<1>1. Init => IInv
  BY InitInv
<1>2. IInv /\ [Next]_vars => IInv'
  BY StepInv
<1>3. IInv => TypeOK
  BY DEF IInv
<1> QED BY <1>1, <1>2, <1>3, PTL DEF Spec

\* Up to NU_SLOT_MAX objects, the links visit every free slot once and end past
\* the array, whatever the clients add, remove and write.
THEOREM FreeChainInvariant ==
    ASSUME Capacity <= SlotMax
    PROVE  Spec => []FreeChain
<1>1. Init => IInv
  BY InitInv
<1>2. IInv /\ [Next]_vars => IInv'
  BY StepInv
<1>3. IInv => FreeChain
  BY DEF IInv
<1> QED BY <1>1, <1>2, <1>3, PTL DEF Spec

\* Up to NU_SLOT_MAX objects, the map never writes in an object a client holds.
THEOREM PayloadInvariant ==
    ASSUME Capacity <= SlotMax
    PROVE  Spec => []PayloadIntact
<1>1. Init => IInv
  BY InitInv
<1>2. IInv /\ [Next]_vars => IInv'
  BY StepInv
<1>3. IInv => PayloadIntact
  BY DEF IInv
<1> QED BY <1>1, <1>2, <1>3, PTL DEF Spec

\* Up to NU_SLOT_MAX objects, the assertion of nu__slotmap_add fails only when the
\* client holds every slot.
THEOREM NoFalseExhaustion ==
    ASSUME Capacity <= SlotMax
    PROVE  Spec => []AbortsOnlyWhenFull
<1>1. Init => IInv
  BY InitInv
<1>2. IInv /\ [Next]_vars => IInv'
  BY StepInv
<1>3. IInv => AbortsOnlyWhenFull
  BY DEF IInv
<1> QED BY <1>1, <1>2, <1>3, PTL DEF Spec

\* Up to NU_SLOT_MAX objects, nu__slotmap_add returns a slot that no client holds.
THEOREM NoDoubleAllocation ==
    ASSUME Capacity <= SlotMax
    PROVE  Spec => AddReturnsFreeSlot
<1>1. Init => IInv
  BY InitInv
<1>2. IInv /\ [Next]_vars => IInv'
  BY StepInv
<1>3. IInv /\ [Next]_vars => [Add => ret' \in Slots \ held]_vars
  BY AddInv
<1> QED BY <1>1, <1>2, <1>3, PTL DEF Spec, AddReturnsFreeSlot

-------------------------------------------------------------------------------
(* The refinement *)

\* The links lead from a slot through the n slots that c lists, and past the end.
Leads(links, start, n, c) ==
    /\ c[1] = start
    /\ c[n + 1] = Capacity + 1
    /\ \A i \in 1..n : c[i] \in Slots /\ links[c[i]] = c[i + 1]

\* s is the sequence of the n slots that c lists.
Lists(s, n, c) == s \in Seq(Slots) /\ Len(s) = n /\ \A i \in 1..n : s[i] = c[i]

\* The walk of the refinement meets the slots of a chain.
LEMMA WalkMeetsChain ==
    ASSUME NEW links, NEW start, NEW n \in 0..Capacity, NEW c,
           Leads(links, start, n, c)
    PROVE  Lists(Visited(links, start), n, c)
<1> USE DEF Leads
<1> DEFINE D == 1..Capacity
           Step(f, i) == IF i = 1 THEN start
                         ELSE IF f[i - 1] \in Slots THEN links[f[i - 1]] ELSE Capacity + 1
           nth == CHOOSE f : f = [i \in D |-> Step(f, i)]
           w == [i \in D |-> IF i <= n THEN c[i] ELSE Capacity + 1]
           len == CHOOSE m \in 0..Capacity :
                     /\ \A i \in 1..m : nth[i] \in Slots
                     /\ m < Capacity => nth[m + 1] \notin Slots
<1>1. Visited(links, start) = [i \in 1..len |-> nth[i]]
  BY DEF Visited
<1>2. Capacity \in Nat /\ n \in Nat /\ Capacity + 1 \notin Slots
  BY CapacityAssumption, WordAssumption DEF Slots
<1>3. w = [i \in D |-> Step(w, i)]
  <2>1. ASSUME NEW i \in D PROVE w[i] = Step(w, i)
    <3>1. CASE i = 1
      <4>1. w[1] = start
        <5>1. CASE n = 0
          BY <1>2, <3>1, <5>1
        <5>2. CASE n # 0
          <6>1. 1 <= n
            BY <1>2, <5>2
          <6> QED BY <3>1, <6>1
        <5> QED BY <5>1, <5>2
      <4> HIDE DEF w
      <4> QED BY <3>1, <4>1
    <3>2. CASE i # 1
      <4>1. i - 1 \in D /\ (i - 1) + 1 = i
        BY <1>2, <3>2
      <4>2. CASE i - 1 <= n
        <5>1. i - 1 \in 1..n /\ w[i - 1] = c[i - 1]
          BY <1>2, <4>1, <4>2
        <5>2. links[c[i - 1]] = c[i] /\ c[i - 1] \in Slots
          BY <4>1, <5>1
        <5>3. w[i] = c[i]
          <6>1. i <= n \/ i = n + 1
            BY <1>2, <4>2
          <6> QED BY <6>1
        <5> HIDE DEF w
        <5> QED BY <3>2, <5>1, <5>2, <5>3
      <4>3. CASE ~(i - 1 <= n)
        <5>1. w[i - 1] = Capacity + 1 /\ w[i] = Capacity + 1
          BY <1>2, <4>1, <4>3
        <5> HIDE DEF w
        <5> QED BY <1>2, <3>2, <5>1
      <4> QED BY <4>2, <4>3
    <3> QED BY <3>1, <3>2
  <2> QED BY <2>1
<1>4. nth = [i \in D |-> Step(nth, i)]
  BY <1>3, Zenon
<1>5. \A i \in D : nth[i] = w[i]
  <2>1. \A i \in D : nth[i] = Step(nth, i) /\ w[i] = Step(w, i)
    <3> HIDE DEF nth, w
    <3> QED BY <1>3, <1>4
  <2> HIDE DEF nth, w
  <2>2. 1 <= Capacity => nth[1] = w[1]
    BY <1>2, <2>1
  <2>3. ASSUME NEW i \in 1..(Capacity - 1), nth[i] = w[i] PROVE nth[i + 1] = w[i + 1]
    <3>1. i + 1 \in D /\ i + 1 # 1 /\ (i + 1) - 1 = i
      BY <1>2
    <3>2. Step(nth, i + 1) = Step(w, i + 1)
      BY <2>3, <3>1
    <3> HIDE DEF Step
    <3> QED BY <2>1, <3>1, <3>2
  <2> HIDE DEF D, Step
  <2>4. 1 \in Int /\ Capacity \in Int
    BY <1>2
  <2>5. \A i \in 1..Capacity : nth[i] = w[i]
    <3>1. StartAlike(nth, w, 1, Capacity)
      BY <2>2 DEF StartAlike
    <3>2. StepAlike(nth, w, 1, Capacity)
      BY <2>3 DEF StepAlike
    <3>3. Agree(nth, w, 1, Capacity)
      BY <2>4, <3>1, <3>2, LoopsAgree
    <3> QED BY <3>3 DEF Agree
  <2> QED BY <2>5 DEF D
<1>6. \A i \in 1..n : nth[i] = c[i]
  <2> HIDE DEF nth
  <2>1. \A i \in 1..n : i \in D /\ i <= n
    BY <1>2
  <2> QED BY <1>5, <2>1
<1>7. n < Capacity => nth[n + 1] \notin Slots
  <2> HIDE DEF nth
  <2>1. n < Capacity => n + 1 \in D /\ ~(n + 1 <= n)
    BY <1>2
  <2> QED BY <1>2, <1>5, <2>1
<1>8. len = n
  <2> HIDE DEF nth
  <2>1. /\ len \in 0..Capacity
        /\ \A i \in 1..len : nth[i] \in Slots
        /\ len < Capacity => nth[len + 1] \notin Slots
    BY <1>6, <1>7
  <2> HIDE DEF len
  <2>2. ~(len > n)
    <3> SUFFICES ASSUME len > n PROVE FALSE
      OBVIOUS
    <3>1. n + 1 \in 1..len /\ n < Capacity
      BY <1>2, <2>1
    <3> QED BY <1>7, <2>1, <3>1
  <2>3. ~(len < n)
    <3> SUFFICES ASSUME len < n PROVE FALSE
      OBVIOUS
    <3>1. len + 1 \in 1..n /\ len < Capacity
      BY <1>2, <2>1
    <3> QED BY <1>6, <2>1, <3>1
  <2>4. len \in Int /\ n \in Int
    BY <1>2, <2>1
  <2> QED BY <2>2, <2>3, <2>4
<1> HIDE DEF nth, len
<1>9. Visited(links, start) = [i \in 1..n |-> nth[i]]
  BY <1>1, <1>8
<1> DEFINE v == [i \in 1..n |-> nth[i]]
<1>10. v \in Seq(Slots) /\ Len(v) = n /\ \A i \in 1..n : v[i] = c[i]
  BY <1>2, <1>6
<1> HIDE DEF v
<1> QED BY <1>9, <1>10 DEF v, Lists

\* The stack of the pool lists the free chain.
LEMMA StackIsChain ==
    ASSUME NEW n \in 0..Capacity, NEW c \in [1..n + 1 -> 1..Capacity + 1], IsFreeChain(n, c)
    PROVE  Lists(FreeStack, n, c)
<1>1. Leads(cell, free, n, c)
  BY DEF IsFreeChain, Leads
<1> QED BY <1>1, WalkMeetsChain DEF FreeStack

\* Adding takes the top of the pool's stack.
LEMMA AddTakes ==
    ASSUME IInv, Add
    PROVE  Pool!Take
<1> USE CapacityAssumption, WordAssumption
<1>1. PICK n \in 0..Capacity : \E c \in [1..n + 1 -> 1..Capacity + 1] : IsFreeChain(n, c)
  BY DEF IInv, FreeChain
<1>2. PICK c \in [1..n + 1 -> 1..Capacity + 1] : IsFreeChain(n, c)
  BY <1>1
<1> DEFINE d == [i \in 1..(n - 1) + 1 |-> c[i + 1]]
<1>3. FreeStack \in Seq(Slots) /\ Len(FreeStack) = n /\ \A i \in 1..n : FreeStack[i] = c[i]
  BY <1>2, StackIsChain DEF Lists
<1>4. n > 0 /\ free = c[1] /\ free \in Slots
  BY <1>2 DEF IsFreeChain, Add
<1>5. free' = cell[free] /\ cell' = cell
  BY <1>4 DEF Add, LinksOf, Slots, NullSlot
<1>6. FreeStack' \in Seq(Slots) /\ Len(FreeStack') = n - 1
      /\ \A i \in 1..n - 1 : FreeStack'[i] = c[i + 1]
  <2>1. n - 1 \in 0..Capacity /\ d \in [1..(n - 1) + 1 -> 1..Capacity + 1]
    BY <1>4
  <2>2. \A i \in 1..n : d[i] = c[i + 1]
    BY <1>4
  <2> HIDE DEF d
  <2>3. Leads(cell', free', n - 1, d)
    BY <1>2, <1>4, <1>5, <2>2 DEF IsFreeChain, Leads
  <2>4. Lists(Visited(cell', free'), n - 1, d)
    BY <2>1, <2>3, WalkMeetsChain
  <2> QED BY <2>2, <2>4 DEF FreeStack, Lists
<1>7. FreeStack # <<>> /\ Head(FreeStack) = free /\ Tail(FreeStack) = FreeStack'
  <2>1. FreeStack # <<>>
    BY <1>3, <1>4, EmptySeq
  <2>2. Head(FreeStack) = FreeStack[1] /\ FreeStack[1] = free
    <3>1. 1 \in 1..n
      BY <1>4
    <3> QED BY <1>3, <1>4, <3>1
  <2>3. /\ Tail(FreeStack) \in Seq(Slots) /\ Len(Tail(FreeStack)) = n - 1
        /\ \A i \in 1..n - 1 : Tail(FreeStack)[i] = FreeStack[i + 1]
    BY <1>3, <2>1, HeadTailProperties
  <2>4. \A i \in 1..n - 1 : FreeStack'[i] = Tail(FreeStack)[i]
    <3> TAKE i \in 1..n - 1
    <3>1. i + 1 \in 1..n
      BY <1>4
    <3> QED BY <1>3, <1>6, <2>3, <3>1
  <2> QED BY <1>6, <2>1, <2>2, <2>3, <2>4, SeqEqual
<1>8. held' = held \cup {free} /\ content' = [content EXCEPT ![free] = Unwritten]
  BY <1>4 DEF Add, IInv, TypeOK
<1> QED BY <1>7, <1>8 DEF Pool!Take, Add

\* Removing puts the slot on top of the stack.
LEMMA RemoveGives ==
    ASSUME IInv, NEW x \in held, Remove(x)
    PROVE  Pool!Give(x)
<1> USE CapacityAssumption, WordAssumption
<1>1. PICK n \in 0..Capacity : \E c \in [1..n + 1 -> 1..Capacity + 1] : IsFreeChain(n, c)
  BY DEF IInv, FreeChain
<1>2. PICK c \in [1..n + 1 -> 1..Capacity + 1] : IsFreeChain(n, c)
  BY <1>1
<1> DEFINE d == [i \in 1..(n + 1) + 1 |-> IF i = 1 THEN x ELSE c[i - 1]]
<1>3. FreeStack \in Seq(Slots) /\ Len(FreeStack) = n /\ \A i \in 1..n : FreeStack[i] = c[i]
  BY <1>2, StackIsChain DEF Lists
<1>4. x \in Slots /\ free' = x /\ cell' = [cell EXCEPT ![x] = free] /\ cell \in [Slots -> Words]
  BY DEF Remove, IInv, TypeOK
<1>5. n + 1 \in 0..Capacity
  <2>1. n < Capacity
    BY <1>2, ChainIsShorter DEF IInv, TypeOK
  <2> QED BY <2>1
<1>6. FreeStack' \in Seq(Slots) /\ Len(FreeStack') = n + 1
      /\ FreeStack'[1] = x /\ \A i \in 1..n : FreeStack'[i + 1] = c[i]
  <2>1. d \in [1..(n + 1) + 1 -> 1..Capacity + 1]
    BY <1>4 DEF Slots
  <2>2. d[1] = x /\ \A i \in 1..n + 1 : d[i + 1] = c[i]
    OBVIOUS
  <2> HIDE DEF d
  <2>3. \A i \in 1..n : c[i] \in Slots /\ c[i] # x /\ cell'[c[i]] = c[i + 1]
    BY <1>2, <1>4 DEF IsFreeChain
  <2>4. cell'[x] = c[1] /\ c[n + 1] = Capacity + 1
    BY <1>2, <1>4 DEF IsFreeChain
  <2>5. \A i \in 1..n + 1 : d[i] \in Slots /\ cell'[d[i]] = d[i + 1]
    <3> TAKE i \in 1..n + 1
    <3>1. CASE i = 1
      BY <3>1, <2>2, <2>4, <1>4
    <3>2. CASE i # 1
      <4>1. i - 1 \in 1..n /\ i - 1 \in 1..n + 1 /\ (i - 1) + 1 = i
        BY <3>2
      <4>2. d[i] = c[i - 1] /\ d[i + 1] = c[(i - 1) + 1]
        BY <2>2, <4>1
      <4> QED BY <4>1, <4>2, <2>3
    <3> QED BY <3>1, <3>2
  <2>6. d[1] = free' /\ d[(n + 1) + 1] = Capacity + 1
    BY <1>4, <2>2, <2>4
  <2>7. Lists(Visited(cell', free'), n + 1, d)
    <3>1. Leads(cell', free', n + 1, d)
      BY <2>5, <2>6 DEF Leads
    <3> QED BY <1>5, <3>1, WalkMeetsChain
  <2>8. 1 \in 1..n + 1 /\ \A i \in 1..n : i \in 1..n + 1 /\ i + 1 \in 1..n + 1
    OBVIOUS
  <2> QED BY <2>2, <2>7, <2>8 DEF FreeStack, Lists
<1>7. <<x>> \o FreeStack = FreeStack'
  <2>1. <<x>> \in Seq(Slots) /\ Len(<<x>>) = 1 /\ <<x>>[1] = x
    BY <1>4
  <2>2. \A i \in 1..n + 1 : FreeStack'[i] = IF i <= 1 THEN x ELSE FreeStack[i - 1]
    <3> TAKE i \in 1..n + 1
    <3>1. CASE i = 1
      BY <1>6, <3>1
    <3>2. CASE i # 1
      <4>1. i - 1 \in 1..n /\ (i - 1) + 1 = i /\ ~(i <= 1)
        BY <3>2
      <4> QED BY <1>3, <1>6, <4>1
    <3> QED BY <3>1, <3>2
  <2>3. /\ <<x>> \o FreeStack \in Seq(Slots)
        /\ Len(<<x>> \o FreeStack) = Len(<<x>>) + Len(FreeStack)
        /\ \A i \in 1..Len(<<x>>) + Len(FreeStack) :
             (<<x>> \o FreeStack)[i] = IF i <= Len(<<x>>) THEN <<x>>[i]
                                        ELSE FreeStack[i - Len(<<x>>)]
    BY <1>3, <2>1, ConcatProperties
  <2>4. 1 + n = n + 1
    OBVIOUS
  <2>5. Len(<<x>> \o FreeStack) = n + 1
    BY <1>3, <2>1, <2>3, <2>4
  <2>6. \A i \in 1..n + 1 : (<<x>> \o FreeStack)[i] = FreeStack'[i]
    BY <1>3, <2>1, <2>2, <2>3, <2>4
  <2> QED BY <1>6, <2>3, <2>5, <2>6, SeqEqual
<1> QED BY <1>7 DEF Pool!Give, Remove

\* The stack depends on the links of the free slots alone.
LEMMA PutWrites ==
    ASSUME IInv, NEW x \in held, NEW v \in Payload, Put(x, v)
    PROVE  Pool!Write(x, v)
<1>1. PICK n \in 0..Capacity : \E c \in [1..n + 1 -> 1..Capacity + 1] : IsFreeChain(n, c)
  BY DEF IInv, FreeChain
<1>2. PICK c \in [1..n + 1 -> 1..Capacity + 1] : IsFreeChain(n, c)
  BY <1>1
<1>3. /\ c[1] = free /\ c[n + 1] = Capacity + 1
      /\ \A i \in 1..n : c[i] \in Slots /\ cell[c[i]] = c[i + 1] /\ c[i] # x
  BY <1>2 DEF IsFreeChain
<1>4. free' = free /\ \A y \in Slots : y # x => cell'[y] = cell[y]
  BY DEF Put, IInv, TypeOK
<1>5. FreeStack \in Seq(Slots) /\ Len(FreeStack) = n /\ \A i \in 1..n : FreeStack[i] = c[i]
  BY <1>2, StackIsChain DEF Lists
<1>6. FreeStack' \in Seq(Slots) /\ Len(FreeStack') = n /\ \A i \in 1..n : FreeStack'[i] = c[i]
  <2>1. Leads(cell', free', n, c)
    BY <1>3, <1>4 DEF Leads
  <2>2. Lists(Visited(cell', free'), n, c)
    BY <2>1, WalkMeetsChain
  <2> QED BY <2>2 DEF FreeStack, Lists
<1>7. FreeStack' = FreeStack
  BY <1>5, <1>6, SeqEqual
<1> QED BY <1>7 DEF Pool!Write, Put

\* Up to NU_SLOT_MAX objects the map is a pool of slots: it hands out the slot released
\* last first and aborts only without a free one, wherever its free list is kept.
THEOREM PoolImplemented ==
    ASSUME Capacity <= SlotMax
    PROVE  Spec => ImplementsPool
<1>1. Init => IInv
  BY InitInv
<1>2. IInv /\ [Next]_vars => IInv'
  BY StepInv
<1>3. Init => Pool!Init
  <2> SUFFICES ASSUME Init PROVE Pool!Init
    OBVIOUS
  <2> USE CapacityAssumption, WordAssumption
  <2> DEFINE c == [i \in 1..Capacity + 1 |-> i]
  <2>1. Capacity \in 0..Capacity /\ c \in [1..Capacity + 1 -> 1..Capacity + 1]
    OBVIOUS
  <2>2. c[1] = free /\ c[Capacity + 1] = Capacity + 1
    BY DEF Init
  <2>3. \A i \in 1..Capacity : c[i] \in Slots /\ cell[c[i]] = c[i + 1]
    <3> TAKE i \in 1..Capacity
    <3>1. c[i] = i /\ c[i + 1] = i + 1
      OBVIOUS
    <3> HIDE DEF c
    <3> QED BY <3>1, InitLinkExact DEF Init, Slots
  <2>4. \A i \in 1..Capacity : c[i] = i
    OBVIOUS
  <2> HIDE DEF c
  <2>5. Lists(FreeStack, Capacity, c)
    <3>1. Leads(cell, free, Capacity, c)
      BY <2>2, <2>3 DEF Leads
    <3> QED BY <2>1, <3>1, WalkMeetsChain DEF FreeStack
  <2> DEFINE stack == [i \in 1..Capacity |-> i]
  <2>6. stack \in Seq(Slots) /\ Len(stack) = Capacity /\ \A i \in 1..Capacity : stack[i] = i
    BY DEF Slots
  <2> HIDE DEF stack
  <2>7. FreeStack = stack
    BY <2>4, <2>5, <2>6, SeqEqual DEF Lists
  <2> QED BY <2>7 DEF stack, Pool!Init, Init, Slots
<1>4. IInv /\ [Next]_vars => [Pool!Next]_(Pool!poolVars)
  <2> SUFFICES ASSUME IInv, [Next]_vars
               PROVE  Pool!Next \/ UNCHANGED Pool!poolVars
    OBVIOUS
  <2>1. CASE Add
    BY <2>1, AddTakes DEF Pool!Next
  <2>2. CASE AddAborts
    <3>1. PICK n \in 0..Capacity : \E c \in [1..n + 1 -> 1..Capacity + 1] : IsFreeChain(n, c)
      BY DEF IInv, FreeChain
    <3>2. PICK c \in [1..n + 1 -> 1..Capacity + 1] : IsFreeChain(n, c)
      BY <3>1
    <3>3. n = 0
      BY <2>2, <3>2, CapacityAssumption, WordAssumption DEF IsFreeChain, AddAborts, Slots
    <3>4. FreeStack \in Seq(Slots) /\ Len(FreeStack) = 0
      BY <3>2, <3>3, StackIsChain DEF Lists
    <3>5. FreeStack = <<>>
      BY <3>4, EmptySeq
    <3>6. FreeStack' = FreeStack
      BY <2>2 DEF AddAborts, FreeStack
    <3>7. Pool!Exhaust
      BY <2>2, <3>5, <3>6 DEF Pool!Exhaust, AddAborts
    <3> QED BY <3>7 DEF Pool!Next
  <2>3. CASE \E s \in held : Remove(s)
    BY <2>3, RemoveGives DEF Pool!Next
  <2>4. CASE \E s \in held, v \in Payload : Put(s, v)
    BY <2>4, PutWrites DEF Pool!Next
  <2>5. CASE UNCHANGED vars
    BY <2>5 DEF vars, Pool!poolVars, FreeStack
  <2> QED BY <2>1, <2>2, <2>3, <2>4, <2>5 DEF Next
<1> QED BY <1>1, <1>2, <1>3, <1>4, PTL DEF Spec, ImplementsPool, Pool!Spec
===============================================================================
