------------------------------ MODULE Ast_proofs ------------------------------
(***************************************************************************)
(* What holds of every tree of the arena. The ancestors of a node are a    *)
(* line from it to the root, and the subtrees of two children have no node *)
(* in common. "Ancestors" is defined by a loop over parent links; the      *)
(* proofs show that it is the node and the ancestors of its parent, and    *)
(* then use nothing else of it. While the arena is filled it holds many    *)
(* trees: an append joins two of them and leaves the others what they are. *)
(***************************************************************************)
EXTENDS Ast, FiniteSetTheorems, Walks, TLAPS

\* the loop of Ancestors
Above(t, n) == IF n = NodeNull THEN NodeNull ELSE t[n].parent
Size(t) == Cardinality(DOMAIN t)
Climb(t, n) == CHOOSE up : up = [i \in 0..Size(t) |-> IF i = 0 THEN n ELSE Above(t, up[i - 1])]

\* the parent of a node is in the arena
Linked(t) ==
    /\ NodeNull \notin DOMAIN t /\ IsFiniteSet(DOMAIN t)
    /\ \A n \in DOMAIN t : t[n].parent \in DOMAIN t \cup {NodeNull}

\* The links upwards run through the ancestors, in at most as many steps as there are nodes.
LEMMA LinksClimb ==
    ASSUME NEW t, Linked(t), NEW n \in DOMAIN t
    PROVE  /\ Size(t) \in Nat
           /\ Ancestors(t, n) = {Climb(t, n)[i] : i \in 0..Size(t)} \ {NodeNull}
           /\ \A i \in 0..Size(t) : Climb(t, n)[i] \in DOMAIN t \cup {NodeNull}
           /\ Climb(t, n)[0] = n
           /\ \A i \in 1..Size(t) : Climb(t, n)[i] = Above(t, Climb(t, n)[i - 1])
<1> DEFINE size == Size(t)
           S == DOMAIN t \cup {NodeNull}
           Step(f, i) == IF i = 0 THEN n ELSE Above(t, f[i - 1])
           up == Climb(t, n)
<1>1. Ancestors(t, n) = {up[i] : i \in 0..size} \ {NodeNull}
  BY DEF Ancestors, Climb, Size, Above
<1>2. size \in Nat
  BY FS_CardinalityType DEF Size, Linked
<1>3. \A m \in S : Above(t, m) \in S
  BY DEF Above, Linked
<1> HIDE DEF size
<1>4. PICK f \in [0..size -> S] : f = [i \in 0..size |-> Step(f, i)]
  <2> DEFINE step == [x \in (1..size) \X S |-> Above(t, x[2])]
  <2>1. step \in [(1..size) \X S -> S] /\ \A i \in 1..size, m \in S : step[<<i, m>>] = Above(t, m)
    <3> HIDE DEF S
    <3> QED BY <1>3
  <2>2. n \in S
    OBVIOUS
  <2> HIDE DEF S, step
  <2>3. PICK f \in [0..size -> S] : IsRun(f, n, step, size)
    BY <1>2, <2>1, <2>2, LoopRuns DEF Steps
  <2>4. ASSUME NEW i \in 0..size PROVE f[i] = Step(f, i)
    <3>1. CASE i = 0
      BY <2>3, <3>1 DEF IsRun
    <3>2. CASE i # 0
      <4>1. i \in 1..size /\ i - 1 \in 0..size
        BY <1>2, <3>2
      <4>2. f[i] = step[<<i, f[i - 1]>>] /\ f[i - 1] \in S
        BY <2>3, <4>1 DEF IsRun
      <4> QED BY <2>1, <3>2, <4>1, <4>2
    <3> QED BY <3>1, <3>2
  <2>5. f = [i \in 0..size |-> Step(f, i)]
    <3> HIDE DEF Step
    <3> QED BY <2>3, <2>4
  <2> QED BY <2>3, <2>5
<1>5. up = [i \in 0..size |-> Step(up, i)]
  BY <1>4, Zenon DEF Climb, size
<1>6. \A i \in 0..size : up[i] = Step(up, i)
  <2> HIDE DEF up, Step
  <2> QED BY <1>5
<1> HIDE DEF up
<1>7. up[0] = n /\ \A i \in 1..size : up[i] = Above(t, up[i - 1])
  <2>1. 0 \in 0..size /\ \A i \in 1..size : i \in 0..size /\ i # 0
    BY <1>2
  <2> QED BY <1>6, <2>1
<1>8. 0..size \subseteq {i \in 0..size : up[i] \in S}
  <2> DEFINE T == {i \in 0..size : up[i] \in S}
  <2>1. 0 \in T
    BY <1>2, <1>7
  <2>2. ASSUME NEW i \in 0..(size - 1), i \in T PROVE i + 1 \in T
    <3>1. i + 1 \in 1..size /\ i + 1 \in 0..size /\ (i + 1) - 1 = i
      BY <1>2
    <3>2. up[i + 1] = Above(t, up[i])
      BY <1>7, <3>1
    <3> HIDE DEF S
    <3> QED BY <1>3, <2>2, <3>1, <3>2
  <2>3. 0 \in Int /\ size \in Int /\ \A i \in 0..(size - 1) : i \in T => i + 1 \in T
    BY <1>2, <2>2
  <2> HIDE DEF T
  <2>4. 0..size \subseteq T
    BY <2>1, <2>3, IntervalInduction
  <2> QED BY <2>4 DEF T
<1> QED BY <1>1, <1>2, <1>7, <1>8 DEF up, size

\* The same in one tree.
LEMMA ClimbRuns ==
    ASSUME NEW t, OneTree(t), NEW n \in DOMAIN t
    PROVE  /\ Size(t) \in Nat
           /\ Ancestors(t, n) = {Climb(t, n)[i] : i \in 0..Size(t)} \ {NodeNull}
           /\ \A i \in 0..Size(t) : Climb(t, n)[i] \in DOMAIN t \cup {NodeNull}
           /\ Climb(t, n)[0] = n
           /\ \A i \in 1..Size(t) : Climb(t, n)[i] = Above(t, Climb(t, n)[i - 1])
BY LinksClimb DEF Linked, OneTree

\* Above the node without a parent there is nothing.
LEMMA ClimbEnds ==
    ASSUME NEW t, OneTree(t), NEW n \in DOMAIN t,
           NEW k \in 0..Size(t), Above(t, Climb(t, n)[k]) = NodeNull
    PROVE  \A i \in k + 1..Size(t) : Climb(t, n)[i] = NodeNull
<1> DEFINE size == Size(t)
           up == Climb(t, n)
           T == {i \in k + 1..size : up[i] = NodeNull}
<1>1. size \in Nat /\ \A i \in 1..size : up[i] = Above(t, up[i - 1])
  BY ClimbRuns
<1>2. Above(t, up[k]) = NodeNull /\ k \in 0..size
  OBVIOUS
<1> HIDE DEF size, up
<1>3. k + 1 <= size => k + 1 \in T
  <2>1. k + 1 <= size => k + 1 \in 1..size /\ (k + 1) - 1 = k
    BY <1>1, <1>2
  <2> QED BY <1>1, <1>2, <2>1
<1>4. ASSUME NEW i \in k + 1..(size - 1), i \in T PROVE i + 1 \in T
  <2>1. i + 1 \in 1..size /\ i + 1 \in k + 1..size /\ (i + 1) - 1 = i
    BY <1>1, <1>2
  <2>2. up[i + 1] = Above(t, up[i])
    BY <1>1, <2>1
  <2> QED BY <1>4, <2>1, <2>2 DEF Above
<1>5. k + 1 \in Int /\ size \in Int
  BY <1>1, <1>2
<1>6. k + 1..size \subseteq T
  <2> HIDE DEF T
  <2> QED BY <1>3, <1>4, <1>5, IntervalInduction
<1> QED BY <1>6 DEF up, size

\* From the parent the climb is the same, one step ahead.
LEMMA ClimbShifts ==
    ASSUME NEW t, OneTree(t), NEW n \in DOMAIN t, t[n].parent # NodeNull
    PROVE  \A i \in 0..Size(t) - 1 : Climb(t, t[n].parent)[i] = Climb(t, n)[i + 1]
<1> DEFINE size == Size(t)
           p == t[n].parent
           up == Climb(t, n)
           over == Climb(t, p)
           T == {i \in 0..size - 1 : over[i] = up[i + 1]}
<1>1. n # NodeNull /\ p \in DOMAIN t
  BY DEF OneTree
<1>2. size \in Nat /\ up[0] = n /\ \A i \in 1..size : up[i] = Above(t, up[i - 1])
  BY ClimbRuns
<1>3. over[0] = p /\ \A i \in 1..size : over[i] = Above(t, over[i - 1])
  BY <1>1, ClimbRuns
<1>4. Above(t, n) = p
  BY <1>1 DEF Above
<1> HIDE DEF size, up, over, p
<1>5. 0 <= size - 1 => 0 \in T
  <2>1. 0 <= size - 1 => 1 \in 1..size /\ 1 - 1 = 0 /\ 0 + 1 = 1
    BY <1>2
  <2> QED BY <1>2, <1>3, <1>4, <2>1
<1>6. ASSUME NEW i \in 0..((size - 1) - 1), i \in T PROVE i + 1 \in T
  <2>1. /\ i + 1 \in 1..size /\ (i + 1) - 1 = i /\ i + 1 \in 0..size - 1
        /\ (i + 1) + 1 \in 1..size /\ ((i + 1) + 1) - 1 = i + 1
    BY <1>2
  <2>2. over[i + 1] = Above(t, over[i]) /\ up[(i + 1) + 1] = Above(t, up[i + 1])
    BY <1>2, <1>3, <2>1
  <2> QED BY <1>6, <2>1, <2>2
<1>7. 0 \in Int /\ size - 1 \in Int
  BY <1>2
<1>8. 0..size - 1 \subseteq T
  <2> HIDE DEF T
  <2> QED BY <1>5, <1>6, <1>7, IntervalInduction
<1> QED BY <1>8 DEF over, up, p, size

\* where the climb is at the root
RootAt(t, n) == CHOOSE i \in 0..Size(t) : Climb(t, n)[i] = Root

\* The climb passes the root once and ends behind it.
LEMMA RootMet ==
    ASSUME NEW t, OneTree(t), NEW n \in DOMAIN t
    PROVE  /\ RootAt(t, n) \in 0..Size(t) /\ Climb(t, n)[RootAt(t, n)] = Root
           /\ \A i \in 0..Size(t) : Climb(t, n)[i] = Root => i = RootAt(t, n)
           /\ \A i \in RootAt(t, n) + 1..Size(t) : Climb(t, n)[i] = NodeNull
<1> DEFINE size == Size(t)
           up == Climb(t, n)
           r == RootAt(t, n)
<1>1. size \in Nat /\ Ancestors(t, n) = {up[i] : i \in 0..size} \ {NodeNull}
  BY ClimbRuns
<1>2. Root # NodeNull /\ Above(t, Root) = NodeNull
  BY DEF OneTree, IsForest, Acyclic, Above, Root, NodeNull
<1>3. \A k \in 0..size : up[k] = Root => \A i \in k + 1..size : up[i] = NodeNull
  BY <1>2, ClimbEnds
<1>4. \E i \in 0..size : up[i] = Root
  BY <1>1 DEF OneTree
<1>5. r \in 0..size /\ up[r] = Root
  <2> HIDE DEF up, size
  <2>1. r = CHOOSE i \in 0..size : up[i] = Root
    BY DEF RootAt, up, size
  <2> HIDE DEF r
  <2> QED BY <1>4, <2>1
<1> HIDE DEF up, size, r
<1>6. ASSUME NEW i \in 0..size, up[i] = Root PROVE i = r
  <2>1. ~(i > r)
    <3>1. i > r => i \in r + 1..size
      BY <1>1, <1>5
    <3> QED BY <1>2, <1>3, <1>5, <1>6, <3>1
  <2>2. ~(r > i)
    <3>1. r > i => r \in i + 1..size
      BY <1>1, <1>5
    <3> QED BY <1>2, <1>3, <1>5, <1>6, <3>1
  <2> QED BY <1>1, <1>5, <2>1, <2>2
<1> QED BY <1>3, <1>5, <1>6 DEF up, size, r

\* The ancestors of a node are the node and the ancestors of its parent.
LEMMA AncestorsStep ==
    ASSUME NEW t, OneTree(t), NEW n \in DOMAIN t
    PROVE  /\ t[n].parent = NodeNull => Ancestors(t, n) = {n}
           /\ t[n].parent # NodeNull =>
                 /\ Ancestors(t, n) = {n} \cup Ancestors(t, t[n].parent)
                 /\ t[n].parent \in DOMAIN t
                 /\ RootAt(t, n) = RootAt(t, t[n].parent) + 1
<1> DEFINE size == Size(t)
           up == Climb(t, n)
<1>1. /\ size \in Nat /\ Ancestors(t, n) = {up[i] : i \in 0..size} \ {NodeNull}
      /\ up[0] = n /\ \A i \in 1..size : up[i] = Above(t, up[i - 1])
  BY ClimbRuns
<1>2. n # NodeNull /\ Above(t, n) = t[n].parent /\ 0 \in 0..size
  BY <1>1 DEF OneTree, Above
<1>3. ASSUME t[n].parent = NodeNull PROVE Ancestors(t, n) = {n}
  <2>1. \A i \in 0 + 1..size : up[i] = NodeNull
    BY <1>1, <1>2, <1>3, ClimbEnds
  <2>2. \A i \in 0..size : i = 0 \/ i \in 0 + 1..size
    BY <1>1
  <2> HIDE DEF up, size
  <2> QED BY <1>1, <1>2, <2>1, <2>2
<1>4. ASSUME t[n].parent # NodeNull
      PROVE  /\ Ancestors(t, n) = {n} \cup Ancestors(t, t[n].parent)
             /\ t[n].parent \in DOMAIN t
             /\ RootAt(t, n) = RootAt(t, t[n].parent) + 1
  <2> DEFINE p == t[n].parent
             over == Climb(t, p)
             r == RootAt(t, n)
  <2>1. p \in DOMAIN t
    BY <1>4 DEF OneTree
  <2>2. Ancestors(t, p) = {over[i] : i \in 0..size} \ {NodeNull}
    BY <2>1, ClimbRuns
  <2>3. \A i \in 0..size - 1 : over[i] = up[i + 1]
    BY <1>4, ClimbShifts
  <2>4. r \in 0..size /\ up[r] = Root
    BY RootMet
  <2>5. /\ \A i \in 0..size : over[i] = Root => i = RootAt(t, p)
        /\ \A i \in RootAt(t, p) + 1..size : over[i] = NodeNull
    BY <2>1, RootMet
  <2>6. r # 0
    <3>1. n # Root
      BY <1>4 DEF OneTree, IsForest, Acyclic
    <3> QED BY <1>1, <2>4, <3>1
  <2>7. r - 1 \in 0..size - 1 /\ r - 1 \in 0..size /\ (r - 1) + 1 = r
    <3> HIDE DEF r, size
    <3> QED BY <1>1, <2>4, <2>6
  <2>8. RootAt(t, p) = r - 1
    <3>1. over[r - 1] = Root
      <4> HIDE DEF r, size, over, up
      <4> QED BY <2>3, <2>4, <2>7
    <3> HIDE DEF r, size, over, up
    <3> QED BY <2>5, <2>7, <3>1
  <2>9. over[size] = NodeNull
    <3> HIDE DEF r, size, over, up
    <3>1. size \in RootAt(t, p) + 1..size
      BY <1>1, <2>4, <2>7, <2>8
    <3> QED BY <2>5, <3>1
  <2>10. Ancestors(t, n) = {n} \cup Ancestors(t, p)
    <3> HIDE DEF r, size, over, up, p
    <3>1. ASSUME NEW a \in Ancestors(t, n) PROVE a = n \/ a \in Ancestors(t, p)
      <4>1. PICK i \in 0..size : a = up[i] /\ a # NodeNull
        BY <1>1
      <4>2. CASE i = 0
        BY <1>1, <4>1, <4>2
      <4>3. CASE i # 0
        <5>1. i - 1 \in 0..size - 1 /\ i - 1 \in 0..size /\ (i - 1) + 1 = i
          BY <1>1, <4>3
        <5>2. over[i - 1] = a
          BY <2>3, <4>1, <5>1
        <5> QED BY <2>2, <4>1, <5>1, <5>2
      <4> QED BY <4>2, <4>3
    <3>2. ASSUME NEW a \in Ancestors(t, p) PROVE a \in Ancestors(t, n)
      <4>1. PICK i \in 0..size : a = over[i] /\ a # NodeNull
        BY <2>2
      <4>2. i # size
        BY <2>9, <4>1
      <4>3. i \in 0..size - 1 /\ i + 1 \in 0..size
        BY <1>1, <4>2
      <4>4. a = up[i + 1]
        BY <2>3, <4>1, <4>3
      <4> QED BY <1>1, <4>1, <4>3, <4>4
    <3>3. n \in Ancestors(t, n)
      BY <1>1, <1>2
    <3> QED BY <3>1, <3>2, <3>3
  <2>11. RootAt(t, n) = RootAt(t, p) + 1
    <3> HIDE DEF p
    <3>1. r \in Int
      <4> HIDE DEF r, size
      <4> QED BY <1>1, <2>4
    <3> HIDE DEF r
    <3>2. r = RootAt(t, p) + 1
      BY <2>8, <3>1
    <3> QED BY <3>2 DEF r
  <2> QED BY <2>1, <2>10, <2>11
<1> QED BY <1>3, <1>4

\* What a node has when its parent has it, all nodes have.
Inherits(t, S) == \A n \in DOMAIN t : t[n].parent = NodeNull \/ t[n].parent \in S => n \in S

\* Induction: a set that inherits from each parent to its children holds the whole tree.
LEMMA TreeInduction ==
    ASSUME NEW t, OneTree(t), NEW S, Inherits(t, S)
    PROVE  DOMAIN t \subseteq S
<1> SUFFICES ASSUME NEW m \in DOMAIN t, m \notin S PROVE FALSE
  OBVIOUS
<1> DEFINE U == {RootAt(t, n) : n \in {k \in DOMAIN t : k \notin S}}
<1>1. Size(t) \in Nat /\ \A n \in DOMAIN t : RootAt(t, n) \in 0..Size(t)
  BY ClimbRuns, RootMet
<1>2. U \in SUBSET Nat /\ U # {}
  BY <1>1
<1>3. PICK u \in U : \A v \in U : u <= v
  <2> HIDE DEF U
  <2> QED BY <1>2, LeastElement
<1>4. PICK n \in DOMAIN t : n \notin S /\ u = RootAt(t, n)
  BY <1>3
<1>5. t[n].parent # NodeNull /\ t[n].parent \notin S
  BY <1>4 DEF Inherits
<1>6. t[n].parent \in DOMAIN t /\ u = RootAt(t, t[n].parent) + 1
  BY <1>4, <1>5, AncestorsStep
<1>7. RootAt(t, t[n].parent) \in U
  BY <1>5, <1>6
<1>8. u <= RootAt(t, t[n].parent) /\ RootAt(t, t[n].parent) \in Nat
  <2> HIDE DEF U
  <2> QED BY <1>1, <1>3, <1>6, <1>7
<1> QED BY <1>6, <1>8

-------------------------------------------------------------------------------
(* Lines of ancestors *)

\* The ancestors are nodes; the node and the root are among them.
LEMMA AncestorsStay ==
    ASSUME NEW t, OneTree(t), NEW n \in DOMAIN t
    PROVE  Ancestors(t, n) \subseteq DOMAIN t /\ n \in Ancestors(t, n) /\ Root \in Ancestors(t, n)
<1> DEFINE S == {m \in DOMAIN t : Ancestors(t, m) \subseteq DOMAIN t}
<1>1. Inherits(t, S)
  BY AncestorsStep DEF Inherits
<1>2. DOMAIN t \subseteq S
  <2> HIDE DEF S
  <2> QED BY <1>1, TreeInduction
<1>3. n \in Ancestors(t, n)
  BY AncestorsStep
<1> QED BY <1>2, <1>3 DEF OneTree

\* Being an ancestor is transitive,
LEMMA AncestorsOfAncestors ==
    ASSUME NEW t, OneTree(t), NEW n \in DOMAIN t, NEW a \in Ancestors(t, n)
    PROVE  a \in DOMAIN t /\ Ancestors(t, a) \subseteq Ancestors(t, n)
<1> DEFINE S == {m \in DOMAIN t : \A b \in Ancestors(t, m) : Ancestors(t, b) \subseteq Ancestors(t, m)}
<1>1. Inherits(t, S)
  BY AncestorsStep DEF Inherits
<1>2. DOMAIN t \subseteq S
  <2> HIDE DEF S
  <2> QED BY <1>1, TreeInduction
<1> QED BY <1>2, AncestorsStay

\* Of two ancestors of a node one is an ancestor of the other.
LEMMA AncestorsLine ==
    ASSUME NEW t, OneTree(t), NEW n \in DOMAIN t, NEW a \in Ancestors(t, n), NEW b \in Ancestors(t, n)
    PROVE  a \in Ancestors(t, b) \/ b \in Ancestors(t, a)
<1> DEFINE S == {m \in DOMAIN t : \A x, y \in Ancestors(t, m) : x \in Ancestors(t, y) \/ y \in Ancestors(t, x)}
<1>1. Inherits(t, S)
  <2> SUFFICES ASSUME NEW m \in DOMAIN t, t[m].parent = NodeNull \/ t[m].parent \in S,
                      NEW x \in Ancestors(t, m), NEW y \in Ancestors(t, m)
               PROVE  x \in Ancestors(t, y) \/ y \in Ancestors(t, x)
    BY DEF Inherits
  <2>1. m \in Ancestors(t, m)
    BY AncestorsStay
  <2> QED BY <2>1, AncestorsStep
<1>2. DOMAIN t \subseteq S
  <2> HIDE DEF S
  <2> QED BY <1>1, TreeInduction
<1> QED BY <1>2

\* and no two nodes are ancestors of each other.
LEMMA NoCycle ==
    ASSUME NEW t, OneTree(t), NEW n \in DOMAIN t, NEW a \in Ancestors(t, n), n \in Ancestors(t, a)
    PROVE  a = n
<1> SUFFICES ASSUME a # n PROVE FALSE
  OBVIOUS
<1>1. t[n].parent # NodeNull /\ t[n].parent \in DOMAIN t /\ a \in Ancestors(t, t[n].parent)
  BY AncestorsStep
<1>2. n \in Ancestors(t, t[n].parent)
  BY <1>1, AncestorsOfAncestors
<1> QED BY <1>1, <1>2 DEF OneTree, IsForest, Acyclic

\* An ancestor of another node is above it through a child.
LEMMA ThroughAChild ==
    ASSUME NEW t, OneTree(t), NEW n \in DOMAIN t, NEW a \in Ancestors(t, n), a # n
    PROVE  \E k \in DOMAIN t : t[k].parent = a /\ k \in Ancestors(t, n)
<1> DEFINE S == {m \in DOMAIN t : \A b \in Ancestors(t, m) :
                    b # m => \E k \in DOMAIN t : t[k].parent = b /\ k \in Ancestors(t, m)}
<1>1. Inherits(t, S)
  <2> SUFFICES ASSUME NEW m \in DOMAIN t, t[m].parent = NodeNull \/ t[m].parent \in S,
                      NEW b \in Ancestors(t, m), b # m
               PROVE  \E k \in DOMAIN t : t[k].parent = b /\ k \in Ancestors(t, m)
    BY DEF Inherits
  <2>1. m \in Ancestors(t, m)
    BY AncestorsStay
  <2>2. t[m].parent # NodeNull /\ b \in Ancestors(t, t[m].parent) /\ t[m].parent \in S
    BY AncestorsStep
  <2>3. CASE b = t[m].parent
    BY <2>1, <2>3
  <2>4. CASE b # t[m].parent
    <3>1. PICK k \in DOMAIN t : t[k].parent = b /\ k \in Ancestors(t, t[m].parent)
      BY <2>2, <2>4
    <3> QED BY <2>2, <3>1, AncestorsStep
  <2> QED BY <2>3, <2>4
<1>2. DOMAIN t \subseteq S
  <2> HIDE DEF S
  <2> QED BY <1>1, TreeInduction
<1> QED BY <1>2

\* and through one only: the subtrees of two children are disjoint.
LEMMA OneChild ==
    ASSUME NEW t, OneTree(t), NEW n \in DOMAIN t,
           NEW j \in Ancestors(t, n), NEW k \in Ancestors(t, n),
           t[j].parent = t[k].parent, t[j].parent # NodeNull
    PROVE  j = k
<1>1. ASSUME NEW x \in Ancestors(t, n), NEW y \in Ancestors(t, n), x # y,
             t[x].parent = t[y].parent, t[x].parent # NodeNull, x \in Ancestors(t, y)
      PROVE  FALSE
  <2>1. x \in DOMAIN t /\ y \in DOMAIN t
    BY AncestorsStay
  <2>2. x \in Ancestors(t, t[x].parent)
    BY <1>1, <2>1, AncestorsStep
  <2> QED BY <1>1, <2>1, <2>2 DEF OneTree, IsForest, Acyclic
<1>2. j \in Ancestors(t, k) \/ k \in Ancestors(t, j)
  BY AncestorsLine
<1> QED BY <1>1, <1>2

\* the children of a node, by their links and by their parent
LEMMA ChildrenMeant ==
    ASSUME NEW t, OneTree(t), NEW p \in DOMAIN t, NEW kids, kids = Children(t, p), kids \in Seq(DOMAIN t)
    PROVE  /\ \A i \in 1..Len(kids) : kids[i] \in DOMAIN t /\ t[kids[i]].parent = p
           /\ \A i, j \in 1..Len(kids) : kids[i] = kids[j] => i = j
           /\ \A n \in DOMAIN t : t[n].parent = p => \E i \in 1..Len(kids) : kids[i] = n
<1>1. /\ {kids[i] : i \in DOMAIN kids} = {n \in DOMAIN t : t[n].parent = p}
      /\ \A i, j \in DOMAIN kids : kids[i] = kids[j] => i = j
  BY DEF OneTree, IsForest, ChildrenAgree
<1>2. DOMAIN kids = 1..Len(kids)
  OBVIOUS
<1> QED BY <1>1, <1>2

-------------------------------------------------------------------------------
(* Trees. The links of an arena are those of sequences of children; each    *)
(* node has a top, the node without a parent above it, and a depth under it. *)

NodeFields == {"type", "value", "vartype", "span",
               "parent", "first_child", "last_child", "next_sibling"}

AreNodes(tree) ==
    \A n \in DOMAIN tree : DOMAIN tree[n] = NodeFields /\ tree[n].type \in NodeTypes

\* s are the children of p.
Family(tree, p, s) ==
    /\ s \in Seq(DOMAIN tree)
    /\ Distinct(s)
    /\ tree[p].first_child = IF Len(s) = 0 THEN NodeNull ELSE s[1]
    /\ tree[p].last_child = IF Len(s) = 0 THEN NodeNull ELSE s[Len(s)]
    /\ \A i \in 1..Len(s) :
          /\ tree[s[i]].parent = p
          /\ tree[s[i]].next_sibling = IF i = Len(s) THEN NodeNull ELSE s[i + 1]

\* The place of n.
Placed(tree, n, kids, top, depth) ==
    /\ depth[n] \in Nat
    /\ tree[n].parent = NodeNull =>
          tree[n].next_sibling = NodeNull /\ top[n] = n /\ depth[n] = 0
    /\ tree[n].parent # NodeNull =>
          /\ tree[n].parent \in DOMAIN tree
          /\ n \in Elements(kids[tree[n].parent])
          /\ top[n] = top[tree[n].parent]
          /\ depth[n] = depth[tree[n].parent] + 1

AreTrees(tree, kids, top, depth) ==
    /\ NodeNull \notin DOMAIN tree
    /\ Root \in DOMAIN tree /\ tree[Root].parent = NodeNull
    /\ \A p \in DOMAIN tree : Family(tree, p, kids[p])
    /\ \A n \in DOMAIN tree : Placed(tree, n, kids, top, depth)

\* What nulang__append_child does to the fields of a node.
Appended(tree, parent, child, n, node) ==
    /\ DOMAIN node = NodeFields
    /\ node.type = tree[n].type
    /\ node.parent = IF n = child THEN parent ELSE tree[n].parent
    /\ node.first_child = IF n = parent /\ tree[parent].last_child = NodeNull THEN child
                          ELSE tree[n].first_child
    /\ node.last_child = IF n = parent THEN child ELSE tree[n].last_child
    /\ node.next_sibling = IF n = tree[parent].last_child THEN child ELSE tree[n].next_sibling

LEMMA AppendChildFields ==
    ASSUME NEW tree, NEW parent, NEW child, AreNodes(tree)
    PROVE  /\ DOMAIN AppendChild(tree, parent, child) = DOMAIN tree
           /\ \A n \in DOMAIN tree :
                 Appended(tree, parent, child, n, AppendChild(tree, parent, child)[n])
<1>1. ASSUME NEW n \in DOMAIN tree
      PROVE  Appended(tree, parent, child, n, AppendChild(tree, parent, child)[n])
  <2> DEFINE last == tree[parent].last_child
             node == tree[n]
             changed == [node EXCEPT
                !.next_sibling = IF n = last THEN child ELSE @,
                !.last_child = IF n = parent THEN child ELSE @,
                !.first_child = IF n = parent /\ last = NodeNull THEN child ELSE @,
                !.parent = IF n = child THEN parent ELSE @]
  <2>1. AppendChild(tree, parent, child)[n] = changed
    BY DEF AppendChild
  <2>2. DOMAIN node = NodeFields
    BY DEF AreNodes
  <2>3. Appended(tree, parent, child, n, changed)
    <3> HIDE DEF last
    <3>1. last = tree[parent].last_child
      BY DEF last
    <3> QED BY <2>2, <3>1 DEF NodeFields, Appended
  <2> QED BY <2>1, <2>3
<1>2. DOMAIN AppendChild(tree, parent, child) = DOMAIN tree
  BY DEF AppendChild
<1> QED BY <1>1, <1>2

LEMMA NewNodeFields ==
    ASSUME NEW type, NEW value, NEW vartype, NEW span
    PROVE  LET node == NewNode(type, value, vartype, span)
           IN /\ DOMAIN node = NodeFields /\ node.type = type
              /\ node.parent = NodeNull /\ node.next_sibling = NodeNull
              /\ node.first_child = NodeNull /\ node.last_child = NodeNull
BY DEF NewNode, NodeFields

\* A change of what a node says leaves the trees.
LinksKept(tree, new) ==
    /\ DOMAIN new = DOMAIN tree
    /\ \A n \in DOMAIN tree :
          /\ new[n].parent = tree[n].parent
          /\ new[n].first_child = tree[n].first_child
          /\ new[n].last_child = tree[n].last_child
          /\ new[n].next_sibling = tree[n].next_sibling

LEMMA TreesKept ==
    ASSUME NEW tree, NEW new, LinksKept(tree, new),
           NEW kids, NEW top, NEW depth, AreTrees(tree, kids, top, depth)
    PROVE  AreTrees(new, kids, top, depth)
<1>1. ASSUME NEW p \in DOMAIN new PROVE Family(new, p, kids[p])
  <2>1. Family(tree, p, kids[p])
    BY DEF LinksKept, AreTrees
  <2>2. \A i \in 1..Len(kids[p]) : kids[p][i] \in DOMAIN tree
    BY <2>1, ElementOfSeq DEF Family
  <2> QED BY <2>1, <2>2 DEF LinksKept, Family
<1>2. ASSUME NEW n \in DOMAIN new PROVE Placed(new, n, kids, top, depth)
  <2>1. Placed(tree, n, kids, top, depth)
    BY DEF LinksKept, AreTrees
  <2> QED BY <2>1 DEF LinksKept, Placed
<1> QED BY <1>1, <1>2 DEF AreTrees, LinksKept

\* A new node is a tree of its own.
LEMMA TreeAdded ==
    ASSUME NEW tree, NEW new, NEW id, id \notin DOMAIN tree, id # NodeNull,
           DOMAIN new = DOMAIN tree \cup {id},
           \A n \in DOMAIN tree : new[n] = tree[n],
           new[id].parent = NodeNull, new[id].next_sibling = NodeNull,
           new[id].first_child = NodeNull, new[id].last_child = NodeNull,
           NEW kids, NEW top, NEW depth, AreTrees(tree, kids, top, depth)
    PROVE  AreTrees(new, [n \in DOMAIN new |-> IF n = id THEN <<>> ELSE kids[n]],
                      [n \in DOMAIN new |-> IF n = id THEN id ELSE top[n]],
                      [n \in DOMAIN new |-> IF n = id THEN 0 ELSE depth[n]])
<1> DEFINE kids2 == [n \in DOMAIN new |-> IF n = id THEN <<>> ELSE kids[n]]
           top2 == [n \in DOMAIN new |-> IF n = id THEN id ELSE top[n]]
           depth2 == [n \in DOMAIN new |-> IF n = id THEN 0 ELSE depth[n]]
<1>1. /\ kids2[id] = <<>> /\ top2[id] = id /\ depth2[id] = 0
      /\ \A n \in DOMAIN tree : kids2[n] = kids[n] /\ top2[n] = top[n] /\ depth2[n] = depth[n]
  OBVIOUS
<1> HIDE DEF kids2, top2, depth2
<1>2. ASSUME NEW p \in DOMAIN new PROVE Family(new, p, kids2[p])
  <2>1. CASE p = id
    <3>1. <<>> \in Seq(DOMAIN new) /\ Len(<<>>) = 0
      BY EmptySeq
    <3>2. kids2[p] = <<>>
      BY <1>1, <2>1
    <3> QED BY <2>1, <3>1, <3>2 DEF Family, Distinct
  <2>2. CASE p # id
    <3>1. Family(tree, p, kids[p]) /\ kids2[p] = kids[p] /\ p \in DOMAIN tree
      BY <1>1, <2>2 DEF AreTrees
    <3>2. \A i \in 1..Len(kids[p]) : kids[p][i] \in DOMAIN tree
      BY <3>1, ElementOfSeq DEF Family
    <3>3. kids[p] \in Seq(DOMAIN new)
      <4>1. Len(kids[p]) \in Nat /\ kids[p] = [i \in 1..Len(kids[p]) |-> kids[p][i]]
        BY <3>1, LenProperties DEF Family
      <4> QED BY <3>2, <4>1, IsASeq
    <3> QED BY <3>1, <3>2, <3>3 DEF Family
  <2> QED BY <2>1, <2>2
<1>3. ASSUME NEW n \in DOMAIN new PROVE Placed(new, n, kids2, top2, depth2)
  <2>1. CASE n = id
    BY <1>1, <2>1 DEF Placed
  <2>2. CASE n # id
    <3>1. Placed(tree, n, kids, top, depth) /\ n \in DOMAIN tree
      BY <2>2 DEF AreTrees
    <3> QED BY <1>1, <3>1 DEF Placed
  <2> QED BY <2>1, <2>2
<1>4. NodeNull \notin DOMAIN new /\ Root \in DOMAIN new /\ new[Root].parent = NodeNull
  BY DEF AreTrees
<1>5. AreTrees(new, kids2, top2, depth2)
  BY <1>2, <1>3, <1>4 DEF AreTrees
<1> QED BY <1>5 DEF kids2, top2, depth2

\* The child is the last of its new parent, and the other children are the same.
Joined(new, kids, parent, child) ==
    \E kids2, top2, depth2 :
        /\ AreTrees(new, kids2, top2, depth2)
        /\ kids2[parent] = Append(kids[parent], child)
        /\ \A n \in DOMAIN new \ {parent} : kids2[n] = kids[n]

\* Appending the top of one tree to a node of another makes one tree of the two.
LEMMA TreesJoined ==
    ASSUME NEW tree, NEW new, NEW parent \in DOMAIN tree, NEW child \in DOMAIN tree \ {Root},
           DOMAIN new = DOMAIN tree,
           \A n \in DOMAIN tree : Appended(tree, parent, child, n, new[n]),
           NEW kids, NEW top, NEW depth, AreTrees(tree, kids, top, depth),
           tree[child].parent = NodeNull, top[parent] # child
    PROVE  Joined(new, kids, parent, child)
<1> DEFINE kids2 == [n \in DOMAIN tree |-> IF n = parent THEN Append(kids[n], child) ELSE kids[n]]
           top2 == [n \in DOMAIN tree |-> IF top[n] = child THEN top[parent] ELSE top[n]]
           depth2 == [n \in DOMAIN tree |->
                         IF top[n] = child THEN depth[n] + depth[parent] + 1 ELSE depth[n]]
           old == kids[parent]
           s == Append(old, child)
           m == Len(old)
<1>1. /\ kids2[parent] = s
      /\ \A n \in DOMAIN tree : n # parent => kids2[n] = kids[n]
      /\ \A n \in DOMAIN tree :
            /\ top2[n] = IF top[n] = child THEN top[parent] ELSE top[n]
            /\ depth2[n] = IF top[n] = child THEN depth[n] + depth[parent] + 1 ELSE depth[n]
  OBVIOUS
<1> HIDE DEF kids2, top2, depth2
<1>2. /\ \A p \in DOMAIN tree : Family(tree, p, kids[p])
      /\ \A n \in DOMAIN tree : Placed(tree, n, kids, top, depth)
      /\ NodeNull \notin DOMAIN tree /\ Root \in DOMAIN tree /\ tree[Root].parent = NodeNull
  BY DEF AreTrees
<1>3. \A p \in DOMAIN tree : \A i \in 1..Len(kids[p]) :
         kids[p][i] \in DOMAIN tree /\ kids[p][i] # child
  <2> TAKE p \in DOMAIN tree
  <2> TAKE i \in 1..Len(kids[p])
  <2>1. Family(tree, p, kids[p])
    BY <1>2
  <2>2. kids[p][i] \in DOMAIN tree /\ tree[kids[p][i]].parent = p
    BY <2>1, ElementOfSeq DEF Family
  <2> QED BY <1>2, <2>2
<1>4. /\ old \in Seq(DOMAIN tree) /\ m \in Nat
      /\ s \in Seq(DOMAIN tree) /\ Len(s) = m + 1
      /\ \A i \in 1..m : s[i] = old[i]
      /\ s[m + 1] = child
  <2>1. old \in Seq(DOMAIN tree)
    BY <1>2 DEF Family
  <2> QED BY <2>1, AppendProperties, LenProperties
<1>5. /\ Distinct(old)
      /\ tree[parent].first_child = IF m = 0 THEN NodeNull ELSE old[1]
      /\ tree[parent].last_child = IF m = 0 THEN NodeNull ELSE old[m]
      /\ \A i \in 1..m : /\ tree[old[i]].parent = parent
                         /\ tree[old[i]].next_sibling = IF i = m THEN NodeNull ELSE old[i + 1]
  BY <1>2 DEF Family
<1>6. \A n \in DOMAIN tree :
         /\ new[n].parent = IF n = child THEN parent ELSE tree[n].parent
         /\ new[n].first_child = IF n = parent /\ tree[parent].last_child = NodeNull THEN child
                                 ELSE tree[n].first_child
         /\ new[n].last_child = IF n = parent THEN child ELSE tree[n].last_child
         /\ new[n].next_sibling = IF n = tree[parent].last_child THEN child
                                  ELSE tree[n].next_sibling
  BY DEF Appended
<1>7. \A i \in 1..m : old[i] \in DOMAIN tree /\ old[i] # child
  BY <1>3
<1>8. tree[child].next_sibling = NodeNull /\ top[child] = child
  BY <1>2 DEF Placed
<1>9. parent # child
  BY <1>8
<1> HIDE DEF s, m, old
<1>10. Family(new, parent, s)
  <2>1. Distinct(s)
    <3>1. \A i \in 1..m + 1 : i = m + 1 \/ (i \in 1..m /\ s[i] = old[i])
      BY <1>4
    <3> QED BY <1>4, <1>5, <1>7, <3>1 DEF Distinct, m
  <2>2. /\ new[parent].last_child = child
        /\ new[parent].first_child = IF m = 0 THEN child ELSE old[1]
    <3>1. m # 0 => m \in 1..m
      BY <1>4
    <3>2. m # 0 => tree[parent].last_child # NodeNull
      BY <1>2, <1>5, <1>7, <3>1
    <3> QED BY <1>5, <1>6, <3>2
  <2>3. s[1] = IF m = 0 THEN child ELSE old[1]
    BY <1>4
  <2>4. ASSUME NEW i \in 1..m + 1
        PROVE  /\ new[s[i]].parent = parent
               /\ new[s[i]].next_sibling = IF i = m + 1 THEN NodeNull ELSE s[i + 1]
    <3>1. CASE i = m + 1
      <4>1. child # tree[parent].last_child
        <5>1. m # 0 => m \in 1..m
          BY <1>4
        <5> QED BY <1>2, <1>5, <1>7, <5>1
      <4> QED BY <1>4, <1>6, <1>8, <3>1, <4>1
    <3>2. CASE i # m + 1
      <4>1. i \in 1..m /\ s[i] = old[i] /\ m # 0 /\ m \in 1..m
        BY <1>4, <3>2
      <4>2. old[i] = tree[parent].last_child <=> i = m
        BY <1>5, <4>1 DEF Distinct, m
      <4>3. new[s[i]].parent = parent
        BY <1>5, <1>6, <1>7, <4>1
      <4>4. CASE i = m
        BY <1>4, <1>6, <1>7, <3>2, <4>1, <4>2, <4>3, <4>4
      <4>5. CASE i # m
        <5>1. i + 1 \in 1..m
          BY <1>4, <4>1, <4>5
        <5> QED BY <1>4, <1>5, <1>6, <1>7, <3>2, <4>1, <4>2, <4>3, <4>5, <5>1
      <4> QED BY <4>4, <4>5
    <3> QED BY <3>1, <3>2
  <2>5. Len(s) # 0 /\ s[Len(s)] = child
    BY <1>4
  <2> QED BY <1>4, <2>1, <2>2, <2>3, <2>4, <2>5 DEF Family
<1>11. ASSUME NEW p \in DOMAIN tree, p # parent PROVE Family(new, p, kids[p])
  <2>1. Family(tree, p, kids[p])
    BY <1>2
  <2>2. ASSUME NEW i \in 1..Len(kids[p])
        PROVE  /\ new[kids[p][i]].parent = p
               /\ new[kids[p][i]].next_sibling = tree[kids[p][i]].next_sibling
    <3>1. kids[p][i] \in DOMAIN tree /\ kids[p][i] # child /\ tree[kids[p][i]].parent = p
      BY <1>3, <2>1 DEF Family
    <3>2. kids[p][i] # tree[parent].last_child
      <4>1. m # 0 => m \in 1..m
        BY <1>4
      <4> QED BY <1>2, <1>5, <1>11, <3>1, <4>1
    <3> QED BY <1>6, <3>1, <3>2
  <2> QED BY <1>6, <1>11, <2>1, <2>2 DEF Family
<1>12. Elements(s) = Elements(old) \cup {child}
  <2>1. 1..m + 1 = 1..m \cup {m + 1}
    BY <1>4
  <2> QED BY <1>4, <2>1 DEF Elements, m
<1>13. ASSUME NEW n \in DOMAIN tree PROVE Placed(new, n, kids2, top2, depth2)
  <2>1. Placed(tree, n, kids, top, depth) /\ Placed(tree, parent, kids, top, depth)
    BY <1>2
  <2>2. CASE n = child
    <3>1. new[n].parent = parent /\ parent # NodeNull
      BY <1>2, <1>6, <2>2
    <3>2. n \in Elements(kids2[parent])
      BY <1>1, <1>12, <2>2
    <3>3. depth[n] = 0 /\ depth[parent] \in Nat
      BY <1>2, <2>1, <2>2 DEF Placed
    <3>4. top2[n] = top[parent] /\ top2[parent] = top[parent]
      BY <1>1, <1>8, <2>2
    <3>5. depth2[parent] = depth[parent] /\ depth2[n] = depth[n] + depth[parent] + 1
      BY <1>1, <1>8, <2>2
    <3> QED BY <2>2, <3>1, <3>2, <3>3, <3>4, <3>5 DEF Placed
  <2>3. CASE n # child /\ tree[n].parent = NodeNull
    <3>1. new[n].parent = NodeNull
      BY <1>6, <2>3
    <3>2. n # tree[parent].last_child
      <4>1. m # 0 => m \in 1..m
        BY <1>4
      <4> QED BY <1>2, <1>5, <2>3, <4>1
    <3>3. new[n].next_sibling = NodeNull /\ top[n] = n /\ depth[n] = 0
      BY <1>6, <2>1, <2>3, <3>2 DEF Placed
    <3> QED BY <1>1, <2>3, <3>1, <3>3 DEF Placed
  <2>4. CASE n # child /\ tree[n].parent # NodeNull
    <3> DEFINE q == tree[n].parent
    <3>1. /\ q \in DOMAIN tree /\ n \in Elements(kids[q])
          /\ top[n] = top[q] /\ depth[n] = depth[q] + 1 /\ depth[n] \in Nat
      BY <2>1, <2>4 DEF Placed
    <3>2. new[n].parent = q
      BY <1>6, <2>4
    <3>3. n \in Elements(kids2[q])
      BY <1>1, <1>12, <3>1 DEF old
    <3>4. Placed(tree, q, kids, top, depth)
      BY <1>2, <3>1
    <3>5. depth[q] \in Nat /\ depth[parent] \in Nat
      BY <2>1, <3>4 DEF Placed
    <3> HIDE DEF q
    <3>6. top2[n] = top2[q] /\ depth2[n] = depth2[q] + 1 /\ depth2[n] \in Nat
      BY <1>1, <3>1, <3>5
    <3>7. q # NodeNull
      BY <1>2, <3>1
    <3> QED BY <3>1, <3>2, <3>3, <3>6, <3>7 DEF Placed
  <2> QED BY <2>2, <2>3, <2>4
<1>14. ASSUME NEW p \in DOMAIN new PROVE Family(new, p, kids2[p])
  <2>1. CASE p = parent
    BY <1>1, <1>10, <2>1
  <2>2. CASE p # parent
    BY <1>1, <1>11, <2>2
  <2> QED BY <2>1, <2>2
<1>15. new[Root].parent = NodeNull
  BY <1>2, <1>6
<1>16. AreTrees(new, kids2, top2, depth2)
  BY <1>2, <1>13, <1>14, <1>15 DEF AreTrees
<1>17. kids2[parent] = Append(kids[parent], child) /\ \A n \in DOMAIN tree \ {parent} : kids2[n] = kids[n]
  BY DEF kids2
<1> QED BY <1>16, <1>17 DEF Joined

\* The loop of nulang__iter_childs meets the children.
LEMMA ChildrenMet ==
    ASSUME NEW tree, IsFiniteSet(DOMAIN tree),
           NEW kids, NEW top, NEW depth, AreTrees(tree, kids, top, depth),
           NEW p \in DOMAIN tree
    PROVE  Children(tree, p) = kids[p]
<1> DEFINE size == Cardinality(DOMAIN tree)
           s == kids[p]
           m == Len(s)
           D == 1..size + 1
           Step(f, i) == IF i = 1 THEN tree[p].first_child
                         ELSE IF f[i - 1] = NodeNull THEN NodeNull
                              ELSE tree[f[i - 1]].next_sibling
           nth == CHOOSE f : f = [i \in D |-> Step(f, i)]
           w == [i \in D |-> IF i <= m THEN s[i] ELSE NodeNull]
           count == CHOOSE k \in 1..size + 1 :
                      /\ nth[k] # NodeNull
                      /\ k <= size => nth[k + 1] = NodeNull
<1>1. Children(tree, p) = IF tree[p].first_child = NodeNull THEN <<>> ELSE [i \in 1..count |-> nth[i]]
  BY DEF Children
<1>2. /\ s \in Seq(DOMAIN tree) /\ Distinct(s)
      /\ tree[p].first_child = IF m = 0 THEN NodeNull ELSE s[1]
      /\ \A i \in 1..m : tree[s[i]].next_sibling = IF i = m THEN NodeNull ELSE s[i + 1]
      /\ NodeNull \notin DOMAIN tree
  BY DEF AreTrees, Family
<1>3. m \in Nat /\ s \in [1..m -> DOMAIN tree] /\ s = [i \in 1..m |-> s[i]]
  BY <1>2, LenProperties
<1>4. \A i \in 1..m : s[i] # NodeNull
  BY <1>2, <1>3
<1>5. size \in Nat /\ m <= size
  <2>1. s \in Injection(1..m, DOMAIN tree)
    BY <1>2, <1>3 DEF Injection, IsInjective, Distinct
  <2>2. Cardinality(1..m) = m
    <3>1. Cardinality(1..m) = IF 1 > m THEN 0 ELSE m - 1 + 1
      BY <1>3, FS_Interval
    <3> QED BY <1>3, <3>1
  <2> QED BY <2>1, <2>2, FS_Injection, FS_CardinalityType
<1> HIDE DEF s, m, size
<1>6. w = [i \in D |-> Step(w, i)]
  <2>1. ASSUME NEW i \in D PROVE w[i] = Step(w, i)
    <3>1. \A j \in D : w[j] = IF j <= m THEN s[j] ELSE NodeNull
      OBVIOUS
    <3> HIDE DEF w
    <3>2. CASE i = 1
      BY <1>2, <1>3, <3>1, <3>2
    <3>3. CASE i # 1
      <4>1. i - 1 \in D /\ (i - 1) + 1 = i
        BY <1>5, <3>3
      <4>2. CASE i - 1 <= m
        <5>1. i - 1 \in 1..m /\ w[i - 1] = s[i - 1] /\ s[i - 1] # NodeNull
          BY <1>3, <1>4, <1>5, <3>1, <3>3, <4>1, <4>2
        <5>2. tree[s[i - 1]].next_sibling = IF i - 1 = m THEN NodeNull ELSE s[(i - 1) + 1]
          BY <1>2, <5>1
        <5> QED BY <1>3, <3>1, <3>3, <4>1, <5>1, <5>2
      <4>3. CASE ~(i - 1 <= m)
        BY <1>3, <1>5, <3>1, <3>3, <4>1, <4>3
      <4> QED BY <4>2, <4>3
    <3> QED BY <3>2, <3>3
  <2> QED BY <2>1
<1>7. nth = [i \in D |-> Step(nth, i)]
  BY <1>6, Zenon
<1>8. \A i \in D : nth[i] = w[i]
  <2>1. \A i \in D : nth[i] = Step(nth, i) /\ w[i] = Step(w, i)
    <3> HIDE DEF nth, w
    <3> QED BY <1>6, <1>7
  <2> HIDE DEF nth, w
  <2>2. 1 \in D /\ nth[1] = w[1]
    BY <1>5, <2>1
  <2>3. ASSUME NEW i \in 1..size, nth[i] = w[i] PROVE nth[i + 1] = w[i + 1]
    <3>1. i \in D /\ i + 1 \in D /\ i + 1 # 1 /\ (i + 1) - 1 = i
      BY <1>5
    <3> QED BY <2>1, <2>3, <3>1
  <2>4. (size + 1) - 1 = size /\ 1 \in Int /\ size + 1 \in Int
    BY <1>5
  <2>5. D = 1..size + 1
    OBVIOUS
  <2> HIDE DEF D, Step
  <2>6. StartAlike(nth, w, 1, size + 1) /\ StepAlike(nth, w, 1, size + 1)
    BY <2>2, <2>3, <2>4 DEF StartAlike, StepAlike
  <2>7. Agree(nth, w, 1, size + 1)
    BY <2>4, <2>6, LoopsAgree
  <2> QED BY <2>5, <2>7 DEF Agree
<1>9. \A i \in D : nth[i] = IF i <= m THEN s[i] ELSE NodeNull
  <2>1. \A i \in D : w[i] = IF i <= m THEN s[i] ELSE NodeNull
    OBVIOUS
  <2> HIDE DEF nth, w
  <2> QED BY <1>8, <2>1
<1> HIDE DEF nth, w
<1>10. CASE m = 0
  <2>1. s = <<>>
    BY <1>2, <1>10, EmptySeq DEF m
  <2> QED BY <1>1, <1>2, <1>10, <2>1 DEF s
<1>11. CASE m # 0
  <2>1. tree[p].first_child # NodeNull
    <3>1. 1 \in 1..m
      BY <1>3, <1>11
    <3> QED BY <1>2, <1>4, <1>11, <3>1
  <2>2. m \in D /\ nth[m] # NodeNull /\ (m <= size => nth[m + 1] = NodeNull)
    <3>1. m \in D /\ m \in 1..m /\ m + 1 \in D /\ m <= m /\ ~(m + 1 <= m)
      BY <1>3, <1>5, <1>11
    <3> QED BY <1>4, <1>9, <3>1
  <2>3. count \in D /\ nth[count] # NodeNull /\ (count <= size => nth[count + 1] = NodeNull)
    BY <2>2
  <2> HIDE DEF count
  <2>4. count = m
    <3>1. count <= m
      BY <1>9, <2>3
    <3>2. ~(count < m)
      <4> SUFFICES ASSUME count < m PROVE FALSE
        OBVIOUS
      <4>1. count + 1 \in D /\ count <= size /\ count + 1 <= m /\ count + 1 \in 1..m
        BY <1>3, <1>5, <2>3
      <4> QED BY <1>4, <1>9, <2>3, <4>1
    <3> QED BY <1>3, <2>3, <3>1, <3>2
  <2>5. \A i \in 1..m : nth[i] = s[i]
    <3>1. \A i \in 1..m : i \in D /\ i <= m
      BY <1>3, <1>5
    <3> QED BY <1>9, <3>1
  <2>6. [i \in 1..m |-> nth[i]] = s
    BY <1>3, <2>5
  <2> QED BY <1>1, <2>1, <2>4, <2>6 DEF s
<1> QED BY <1>10, <1>11

\* The parent links of a node lead, one level at a time, to its top.
LEMMA ClimbsToTop ==
    ASSUME NEW tree, IsFiniteSet(DOMAIN tree),
           NEW kids, NEW top, NEW depth, AreTrees(tree, kids, top, depth),
           NEW id \in DOMAIN tree
    PROVE  /\ \A a \in Ancestors(tree, id) : a \in DOMAIN tree /\ depth[a] <= depth[id]
           /\ top[id] \in Ancestors(tree, id)
           /\ top[id] \in DOMAIN tree /\ tree[top[id]].parent = NodeNull
<1> DEFINE size == Size(tree)
           D == 0..size
           up == Climb(tree, id)
<1>1. /\ \A n \in DOMAIN tree : Placed(tree, n, kids, top, depth)
      /\ NodeNull \notin DOMAIN tree
  BY DEF AreTrees
<1>2. Linked(tree)
  BY <1>1 DEF Linked, Placed
<1>3. /\ size \in Nat /\ Ancestors(tree, id) = {up[i] : i \in D} \ {NodeNull}
      /\ up[0] = id /\ \A i \in 1..size : up[i] = Above(tree, up[i - 1])
  BY <1>2, LinksClimb
<1> HIDE DEF size, up
<1> DEFINE d == depth[id]
           At_(i) == IF i <= d THEN up[i] \in DOMAIN tree /\ top[up[i]] = top[id] /\ depth[up[i]] = d - i
                     ELSE up[i] = NodeNull
           T == {i \in D : At_(i)}
<1>4. d \in Nat
  BY <1>1 DEF Placed
<1>5. 0..size \subseteq T
  <2>1. 0 \in T
    BY <1>3, <1>4
  <2>2. ASSUME NEW i \in 0..(size - 1), i \in T PROVE i + 1 \in T
    <3>1. i \in D /\ i + 1 \in D /\ i + 1 # 0 /\ (i + 1) - 1 = i
      BY <1>3
    <3>2. up[i + 1] = Above(tree, up[i])
      BY <1>3, <3>1
    <3>3. CASE i <= d
      <4>1. up[i] \in DOMAIN tree /\ top[up[i]] = top[id] /\ depth[up[i]] = d - i
        BY <2>2, <3>3
      <4>2. Placed(tree, up[i], kids, top, depth) /\ up[i + 1] = tree[up[i]].parent
        BY <1>1, <3>2, <4>1 DEF Above
      <4>3. CASE i + 1 <= d
        <5>1. d - i # 0
          BY <1>4, <4>3
        <5>2. tree[up[i]].parent # NodeNull
          BY <4>1, <4>2, <5>1 DEF Placed
        <5>3. /\ up[i + 1] \in DOMAIN tree
              /\ top[up[i]] = top[up[i + 1]] /\ depth[up[i]] = depth[up[i + 1]] + 1
          BY <4>2, <5>2 DEF Placed
        <5>4. depth[up[i + 1]] \in Nat
          BY <1>1, <5>3 DEF Placed
        <5>5. depth[up[i + 1]] = d - (i + 1)
          BY <1>4, <4>1, <5>3, <5>4
        <5> QED BY <3>1, <4>1, <4>3, <5>3, <5>5
      <4>4. CASE ~(i + 1 <= d)
        <5>1. d - i = 0
          BY <1>4, <3>3, <4>4
        <5>2. tree[up[i]].parent = NodeNull
          <6> SUFFICES ASSUME tree[up[i]].parent # NodeNull PROVE FALSE
            OBVIOUS
          <6>1. /\ tree[up[i]].parent \in DOMAIN tree
                /\ depth[up[i]] = depth[tree[up[i]].parent] + 1
            BY <4>2 DEF Placed
          <6>2. depth[tree[up[i]].parent] \in Nat
            BY <1>1, <6>1 DEF Placed
          <6> QED BY <4>1, <5>1, <6>1, <6>2
        <5> QED BY <3>1, <4>2, <4>4, <5>2
      <4> QED BY <4>3, <4>4
    <3>4. CASE ~(i <= d)
      <4>1. ~(i + 1 <= d)
        BY <1>4, <3>4
      <4>2. up[i + 1] = NodeNull
        BY <2>2, <3>2, <3>4 DEF Above
      <4> QED BY <3>1, <4>1, <4>2
    <3> QED BY <3>3, <3>4
  <2>3. 0 \in Int /\ size \in Int /\ \A i \in 0..(size - 1) : i \in T => i + 1 \in T
    BY <1>3, <2>2
  <2> HIDE DEF T
  <2> QED BY <2>1, <2>3, IntervalInduction
<1>6. \A i \in D : At_(i)
  BY <1>5
<1>7. d <= size
  <2> SUFFICES ASSUME size < d PROVE FALSE
    BY <1>3, <1>4
  <2>1. \A i \in D : up[i] \in DOMAIN tree /\ depth[up[i]] = d - i
    <3>1. \A i \in D : i <= d
      BY <1>3, <1>4
    <3> QED BY <1>6, <3>1
  <2> DEFINE f == [i \in D |-> up[i]]
  <2>2. f \in Injection(D, DOMAIN tree)
    <3>1. \A i \in D : f[i] = up[i]
      OBVIOUS
    <3>2. f \in [D -> DOMAIN tree]
      BY <2>1
    <3>3. ASSUME NEW i \in D, NEW j \in D, f[i] = f[j] PROVE i = j
      <4>1. d - i = d - j
        BY <2>1, <3>1, <3>3
      <4> QED BY <1>3, <1>4, <4>1
    <3> QED BY <3>2, <3>3 DEF Injection, IsInjective
  <2>3. Cardinality(0..size) = size + 1
    <3>1. Cardinality(0..size) = IF 0 > size THEN 0 ELSE size - 0 + 1
      BY <1>3, FS_Interval
    <3> QED BY <1>3, <3>1
  <2>4. Cardinality(D) <= size
    BY <2>2, FS_Injection DEF size, Size
  <2> QED BY <1>3, <2>3, <2>4
<1>8. /\ top[id] \in Ancestors(tree, id)
       /\ top[id] \in DOMAIN tree /\ tree[top[id]].parent = NodeNull
  <2>1. d \in D /\ d <= d /\ d - d = 0
    BY <1>3, <1>4, <1>7
  <2>2. up[d] \in DOMAIN tree /\ top[up[d]] = top[id] /\ depth[up[d]] = 0
    BY <1>6, <2>1
  <2>3. tree[up[d]].parent = NodeNull
    <3> SUFFICES ASSUME tree[up[d]].parent # NodeNull PROVE FALSE
      OBVIOUS
    <3>1. /\ tree[up[d]].parent \in DOMAIN tree
          /\ depth[up[d]] = depth[tree[up[d]].parent] + 1
      BY <1>1, <2>2 DEF Placed
    <3>2. depth[tree[up[d]].parent] \in Nat
      BY <1>1, <3>1 DEF Placed
    <3> QED BY <2>2, <3>1, <3>2
  <2>4. up[d] = top[id]
    BY <1>1, <2>2, <2>3 DEF Placed
  <2> QED BY <1>3, <1>1, <2>1, <2>2, <2>3, <2>4
<1>9. \A i \in D : up[i] # NodeNull => up[i] \in DOMAIN tree /\ depth[up[i]] <= d
  <2> TAKE i \in D
  <2>1. At_(i) /\ i \in Nat
    BY <1>3, <1>6
  <2> QED BY <1>4, <2>1
<1> HIDE DEF D
<1> QED BY <1>3, <1>8, <1>9

\* The arena is the forest its links are to tell.
LEMMA TreesAreForest ==
    ASSUME NEW tree, IsFiniteSet(DOMAIN tree),
           NEW kids, NEW top, NEW depth, AreTrees(tree, kids, top, depth)
    PROVE  IsForest(tree)
<1>1. /\ \A p \in DOMAIN tree : Family(tree, p, kids[p])
      /\ \A n \in DOMAIN tree : Placed(tree, n, kids, top, depth)
      /\ NodeNull \notin DOMAIN tree /\ tree[Root].parent = NodeNull
  BY DEF AreTrees
<1>2. ASSUME NEW p \in DOMAIN tree
      PROVE  LET c == Children(tree, p)
             IN /\ {c[i] : i \in DOMAIN c} = {n \in DOMAIN tree : tree[n].parent = p}
                /\ \A i, j \in DOMAIN c : c[i] = c[j] => i = j
                /\ tree[p].last_child = IF c = <<>> THEN NodeNull ELSE c[Len(c)]
  <2> DEFINE s == kids[p]
  <2>1. Children(tree, p) = s
    BY ChildrenMet
  <2>2. /\ s \in Seq(DOMAIN tree) /\ Distinct(s)
        /\ tree[p].last_child = IF Len(s) = 0 THEN NodeNull ELSE s[Len(s)]
        /\ \A i \in 1..Len(s) : tree[s[i]].parent = p
    BY <1>1 DEF Family
  <2>3. DOMAIN s = 1..Len(s) /\ (Len(s) = 0 <=> s = <<>>) /\ \A i \in 1..Len(s) : s[i] \in DOMAIN tree
    BY <2>2, LenProperties, EmptySeq, ElementOfSeq
  <2>4. ASSUME NEW n \in DOMAIN tree, tree[n].parent = p PROVE n \in Elements(s)
    BY <1>1, <2>4 DEF Placed
  <2> HIDE DEF s
  <2>5. {s[i] : i \in DOMAIN s} = {n \in DOMAIN tree : tree[n].parent = p}
    BY <2>2, <2>3, <2>4 DEF Elements
  <2>6. \A i, j \in DOMAIN s : s[i] = s[j] => i = j
    BY <2>2, <2>3 DEF Distinct
  <2>7. tree[p].last_child = IF s = <<>> THEN NodeNull ELSE s[Len(s)]
    BY <2>2, <2>3
  <2> QED BY <2>1, <2>5, <2>6, <2>7
<1>3. ASSUME NEW n \in DOMAIN tree, tree[n].parent # NodeNull
      PROVE  n \notin Ancestors(tree, tree[n].parent)
  <2>1. tree[n].parent \in DOMAIN tree /\ depth[n] = depth[tree[n].parent] + 1
    BY <1>1, <1>3 DEF Placed
  <2>2. depth[tree[n].parent] \in Nat
    BY <1>1, <2>1 DEF Placed
  <2>3. \A a \in Ancestors(tree, tree[n].parent) : depth[a] <= depth[tree[n].parent]
    BY <2>1, ClimbsToTop
  <2> QED BY <2>1, <2>2, <2>3
<1> QED BY <1>1, <1>2, <1>3 DEF IsForest, ChildrenAgree, Acyclic
================================================================================
