---------------------------- MODULE Compiler_proofs ----------------------------
(***************************************************************************)
(* For every set of sources and every capacity.  The table of the resolver *)
(* of symbols never holds a name twice; a reference is resolved to the     *)
(* declaration the rules of scope mean; the verdict on a source is theirs; *)
(* a type is the newest archetype of its name.                             *)
(*                                                                         *)
(* That a definition is checked against the table is not enough: leaving a *)
(* block cuts the table back to a remembered size, and a frame that        *)
(* remembers more than there is would leave anything in it. Inv therefore  *)
(* says how the frames of the walk nest: an inner frame never remembers    *)
(* less than an outer one, and none more than the table holds.             *)
(*                                                                         *)
(* The rules of scope are stated on the tree, the walk knows its stack and *)
(* its table.  LexInv joins them: the frames are the path from the root to *)
(* where the walk is, so the nodes are split in those met and those ahead, *)
(* and those met come first in the source; the table holds the functions   *)
(* of the module and the declarations met whose scope is still open, and a *)
(* frame's size cuts it at the entries that are not below the frame.       *)
(***************************************************************************)
EXTENDS Compiler, Ast_proofs

Frames(D) == [id : D, size : Nat, todo : Seq(D)]

\* w is a stack of frames over the nodes D, the table has len entries
Nested(w, D, len) ==
    /\ w \in Seq(Frames(D))
    /\ \A i \in 1..Len(w) : w[i].size <= len
    /\ \A i, j \in 1..Len(w) : i < j => w[j].size <= w[i].size

LEMMA NestedDescends ==
    ASSUME NEW D, NEW w, NEW len \in Nat, NEW len2 \in Nat, len <= len2,
           Nested(w, D, len), w # <<>>,
           NEW f \in Frames(D), f.size = len, NEW t \in Seq(D)
    PROVE  LET v == <<f, [Head(w) EXCEPT !.todo = t]>> \o Tail(w)
           IN Nested(v, D, len2) /\ v # <<>> /\ v[Len(v)].id = w[Len(w)].id
<1> DEFINE g == [Head(w) EXCEPT !.todo = t]
           v == <<f, g>> \o Tail(w)
<1>1. w \in Seq(Frames(D)) /\ Len(w) \in Nat /\ Len(w) >= 1
  BY DEF Nested
<1>2. Head(w) = w[1] /\ w[1] \in Frames(D)
  BY <1>1
<1>3. g \in Frames(D) /\ g.size = w[1].size /\ g.id = w[1].id
  BY <1>2 DEF Frames
<1>4. Tail(w) \in Seq(Frames(D)) /\ Len(Tail(w)) = Len(w) - 1
  BY <1>1
<1>5. v \in Seq(Frames(D)) /\ Len(v) = Len(w) + 1
  BY <1>1, <1>3, <1>4
<1>6. v[1] = f /\ v[2] = g
  BY <1>1, <1>3, <1>4
<1>7. \A i \in 3..Len(v) : v[i] = w[i - 1]
  <2>1. \A i \in 1..Len(Tail(w)) : Tail(w)[i] = w[i + 1]
    BY <1>1
  <2>2. \A i \in 3..Len(v) : v[i] = Tail(w)[i - 2]
    BY <1>1, <1>3, <1>4, <1>5
  <2> HIDE DEF g, v
  <2> QED BY <1>1, <1>4, <1>5, <2>1, <2>2
<1> HIDE DEF g, v
<1>8. \A i \in 2..Len(v) : v[i].size = w[i - 1].size /\ v[i].id = w[i - 1].id
  <2> SUFFICES ASSUME NEW i \in 2..Len(v)
               PROVE  v[i].size = w[i - 1].size /\ v[i].id = w[i - 1].id
    OBVIOUS
  <2>1. CASE i = 2
    BY <1>3, <1>6, <2>1
  <2>2. CASE i # 2
    <3>1. i \in 3..Len(v)
      BY <1>1, <1>5, <2>2
    <3> QED BY <1>7, <3>1
  <2> QED BY <2>1, <2>2
<1>9. \A i \in 1..Len(w) : w[i].size \in Nat /\ w[i].size <= len
  <2>1. \A i \in 1..Len(w) : w[i] \in Frames(D)
    BY <1>1
  <2> QED BY <2>1 DEF Nested, Frames
<1>10. \A i \in 1..Len(v) : v[i].size <= len2
  <2> SUFFICES ASSUME NEW i \in 1..Len(v) PROVE v[i].size <= len2
    OBVIOUS
  <2>1. CASE i = 1
    BY <1>6, <2>1
  <2>2. CASE i # 1
    <3>1. i \in 2..Len(v) /\ i - 1 \in 1..Len(w)
      BY <1>1, <1>5, <2>2
    <3>2. v[i].size = w[i - 1].size /\ w[i - 1].size \in Nat /\ w[i - 1].size <= len
      BY <1>8, <1>9, <3>1
    <3> QED BY <3>2
  <2> QED BY <2>1, <2>2
<1>11. ASSUME NEW i \in 1..Len(v), NEW j \in 1..Len(v), i < j
       PROVE  v[j].size <= v[i].size
  <2>1. j - 1 \in 1..Len(w) /\ v[j].size = w[j - 1].size
    BY <1>1, <1>5, <1>8, <1>11
  <2>2. CASE i = 1
    BY <2>1, <2>2, <1>6, <1>9
  <2>3. CASE i # 1
    <3>1. i - 1 \in 1..Len(w) /\ v[i].size = w[i - 1].size /\ i - 1 < j - 1
      BY <1>1, <1>5, <1>8, <1>11, <2>3
    <3> QED BY <2>1, <3>1 DEF Nested
  <2> QED BY <2>2, <2>3
<1>12. Nested(v, D, len2)
  BY <1>5, <1>10, <1>11 DEF Nested
<1>13. v # <<>> /\ v[Len(v)].id = w[Len(w)].id
  <2>1. Len(v) \in 2..Len(v) /\ Len(v) - 1 = Len(w) /\ Len(v) # 0
    BY <1>1, <1>5
  <2> QED BY <1>8, <2>1
<1> QED BY <1>12, <1>13 DEF g, v

LEMMA NestedAdvances ==
    ASSUME NEW D, NEW w, NEW len \in Nat, NEW len2 \in Nat, len <= len2,
           Nested(w, D, len), w # <<>>, NEW t \in Seq(D)
    PROVE  /\ Nested(<<[Head(w) EXCEPT !.todo = t]>>, D, len2)
           /\ [Head(w) EXCEPT !.todo = t].id = Head(w).id
<1> DEFINE g == [Head(w) EXCEPT !.todo = t]
<1>1. w \in Seq(Frames(D)) /\ Len(w) \in Nat /\ Len(w) >= 1
  BY DEF Nested
<1>2. Head(w) = w[1] /\ w[1] \in Frames(D)
  BY <1>1
<1>3. w[1].size <= len
  BY <1>1 DEF Nested
<1>4. g \in Frames(D) /\ g.size = w[1].size /\ g.size \in Nat /\ g.id = Head(w).id
  BY <1>2 DEF Frames
<1> HIDE DEF g
<1>5. <<g>> \in Seq(Frames(D)) /\ Len(<<g>>) = 1 /\ <<g>>[1] = g
  BY <1>4
<1>6. Nested(<<g>>, D, len2)
  BY <1>3, <1>4, <1>5 DEF Nested
<1> QED BY <1>4, <1>6 DEF g

\* the table cut back to what the innermost frame remembers
LEMMA NestedAscends ==
    ASSUME NEW D, NEW w, NEW len \in Nat, Nested(w, D, len), w # <<>>
    PROVE  /\ Nested(Tail(w), D, len)
           /\ Head(w).size \in Nat /\ Head(w).size <= len
           /\ Nested(Tail(w), D, Head(w).size)
           /\ Len(w) > 1 => Tail(w) # <<>> /\ Tail(w)[Len(Tail(w))].id = w[Len(w)].id
           /\ ~(Len(w) > 1) => Head(w) = w[Len(w)]
<1>1. w \in Seq(Frames(D)) /\ Len(w) \in Nat /\ Len(w) >= 1
  BY DEF Nested
<1>2. Head(w) = w[1] /\ w[1].size \in Nat /\ w[1].size <= len
  <2>1. Head(w) = w[1] /\ w[1] \in Frames(D)
    BY <1>1
  <2>2. w[1].size \in Nat
    BY <2>1 DEF Frames
  <2> QED BY <1>1, <2>1, <2>2 DEF Nested
<1>3. /\ Tail(w) \in Seq(Frames(D)) /\ Len(Tail(w)) = Len(w) - 1
      /\ \A i \in 1..Len(Tail(w)) : Tail(w)[i] = w[i + 1]
  BY <1>1
<1>4. \A i \in 1..Len(Tail(w)) : i + 1 \in 1..Len(w) /\ w[i + 1].size <= w[1].size
  BY <1>1, <1>3 DEF Nested
<1>5. ASSUME NEW i \in 1..Len(Tail(w)), NEW j \in 1..Len(Tail(w)), i < j
      PROVE  Tail(w)[j].size <= Tail(w)[i].size
  BY <1>1, <1>3, <1>4, <1>5 DEF Nested
<1>6. \A i \in 1..Len(Tail(w)) : Tail(w)[i].size <= len
  BY <1>3, <1>4 DEF Nested
<1>7. \A i \in 1..Len(Tail(w)) : Tail(w)[i].size <= Head(w).size
  BY <1>2, <1>3, <1>4
<1>8. Len(w) > 1 => Tail(w) # <<>> /\ Tail(w)[Len(Tail(w))].id = w[Len(w)].id
  <2> SUFFICES ASSUME Len(w) > 1
               PROVE  Tail(w) # <<>> /\ Tail(w)[Len(Tail(w))].id = w[Len(w)].id
    OBVIOUS
  <2>1. Len(Tail(w)) \in 1..Len(Tail(w)) /\ Len(Tail(w)) + 1 = Len(w) /\ Len(Tail(w)) # 0
    BY <1>1, <1>3
  <2> DEFINE v == Tail(w)
  <2>2. Len(v) # 0 /\ v[Len(v)] = w[Len(w)]
    BY <1>3, <2>1
  <2> HIDE DEF v
  <2>3. v # <<>>
    BY <2>2
  <2> QED BY <2>2, <2>3 DEF v
<1>9. ~(Len(w) > 1) => Head(w) = w[Len(w)]
  <2>1. Len(w) \in Nat /\ Len(w) >= 1
    BY <1>1
  <2>2. ~(Len(w) > 1) => Len(w) = 1
    BY <2>1
  <2> QED BY <1>2, <2>2
<1> QED BY <1>2, <1>3, <1>5, <1>6, <1>7, <1>8, <1>9 DEF Nested

-------------------------------------------------------------------------------
(* The inductive invariant *)

Values == {nodes[n].value : n \in DOMAIN nodes}
EntrySet == [name : Values, id : DOMAIN nodes]
NameOfNode(e) == e.name = Name(e.id)
Stored == {Identifier[name] : name \in ArchetypeNames}

BoundsInv ==
    /\ compiled \in Nat
    /\ archetypes \in Seq(Stored) /\ Len(archetypes) <= ArchetypeCapacity

TreeInv ==
    /\ Root \in DOMAIN nodes /\ nodes[Root].type = "MODULE"
    /\ IsFiniteSet(DOMAIN nodes) /\ Cardinality(DOMAIN nodes) <= NodeCapacity
    /\ \A n \in DOMAIN nodes : Children(nodes, n) \in Seq(DOMAIN nodes)

TableInv ==
    /\ symbols \in Seq(EntrySet)
    /\ \A i \in 1..Len(symbols) : NameOfNode(symbols[i])
    /\ \A i, j \in 1..Len(symbols) : symbols[i].name = symbols[j].name => i = j

\* A walk that is not over has the frame of the module at its end.
WalkInv ==
    /\ phase \in {"idle", "functions", "symbols", "archetypes"}
    /\ phase = "idle" => walk = <<>>
    /\ phase = "functions" => Len(walk) = 1
    /\ phase # "idle" =>
           walk # <<>> /\ Nested(walk, DOMAIN nodes, Len(symbols)) /\ walk[Len(walk)].id = Root

\* A reference is a node of the tree with the name referred to.
NamesAgree == \A n \in DOMAIN nodes : reference[n] # Unset => Name(reference[n]) = Name(n)

ReferenceInv == reference \in [DOMAIN nodes -> DOMAIN nodes \cup {Unset}] /\ NamesAgree

Inv == BoundsInv /\ TreeInv /\ TableInv /\ WalkInv /\ ReferenceInv

LEMMA TableGrows ==
    ASSUME TableInv, NEW n \in DOMAIN nodes, Define(n), UNCHANGED nodes
    PROVE  TableInv' /\ Len(symbols') = Len(symbols) + 1
<1> DEFINE e == [name |-> Name(n), id |-> n]
<1>1. e \in EntrySet /\ NameOfNode(e) /\ e.name = Name(n)
  BY DEF EntrySet, Values, NameOfNode, Name
<1>2. symbols' = Append(symbols, e) /\ symbols \in Seq(EntrySet) /\ Len(symbols) \in Nat
  BY DEF Define, TableInv
<1>3. \A i \in 1..Len(symbols) : symbols[i].name # e.name
  <2>1. \A i \in DOMAIN symbols : symbols[i].name # Name(n)
    BY DEF Define, Defined, Entries
  <2> QED BY <1>1, <1>2, <2>1
<1> HIDE DEF e
<1>4. /\ symbols' \in Seq(EntrySet) /\ Len(symbols') = Len(symbols) + 1
      /\ symbols'[Len(symbols) + 1] = e
      /\ \A i \in 1..Len(symbols) : symbols'[i] = symbols[i]
  BY <1>1, <1>2
<1>5. \A i \in 1..Len(symbols') : NameOfNode(symbols'[i])
  BY <1>1, <1>2, <1>4 DEF TableInv
<1>6. \A i, j \in 1..Len(symbols') : symbols'[i].name = symbols'[j].name => i = j
  BY <1>2, <1>3, <1>4 DEF TableInv
<1> QED BY <1>4, <1>5, <1>6 DEF TableInv, EntrySet, Values, NameOfNode, Name

LEMMA TableShrinks ==
    ASSUME TableInv, NEW k \in 0..Len(symbols), symbols' = SubSeq(symbols, 1, k), UNCHANGED nodes
    PROVE  TableInv' /\ Len(symbols') = k
<1>1. symbols \in Seq(EntrySet) /\ Len(symbols) \in Nat
  BY DEF TableInv
<1>2. /\ symbols' \in Seq(EntrySet) /\ Len(symbols') = k
      /\ \A i \in 1..k : symbols'[i] = symbols[i] /\ i \in 1..Len(symbols)
  BY <1>1
<1>3. \A i \in 1..Len(symbols') : NameOfNode(symbols'[i])
  BY <1>2 DEF TableInv
<1>4. \A i, j \in 1..Len(symbols') : symbols'[i].name = symbols'[j].name => i = j
  BY <1>2 DEF TableInv
<1> QED BY <1>2, <1>3, <1>4 DEF TableInv, EntrySet, Values, NameOfNode, Name

\* what the walk meets next
LEMMA Meeting ==
    ASSUME Inv, phase # "idle"
    PROVE  /\ walk # <<>> /\ Nested(walk, DOMAIN nodes, Len(symbols)) /\ Len(symbols) \in Nat
           /\ walk \in Seq(Frames(DOMAIN nodes)) /\ Top \in Frames(DOMAIN nodes)
           /\ walk[Len(walk)].id = Root
           /\ Top.todo \in Seq(DOMAIN nodes)
           /\ Top.todo # <<>> => Child \in DOMAIN nodes /\ Tail(Top.todo) \in Seq(DOMAIN nodes)
<1> DEFINE D == DOMAIN nodes
<1>1. /\ walk # <<>> /\ Nested(walk, D, Len(symbols)) /\ Len(symbols) \in Nat
      /\ walk[Len(walk)].id = Root
  BY DEF Inv, WalkInv, TableInv
<1> HIDE DEF D
<1>2. walk \in Seq(Frames(D))
  BY <1>1 DEF Nested
<1>3. Top \in Frames(D)
  BY <1>1, <1>2 DEF Top
<1>4. Top.todo \in Seq(D)
  BY <1>3 DEF Frames
<1>5. ASSUME NEW t \in Seq(D), t # <<>> PROVE Head(t) \in D /\ Tail(t) \in Seq(D)
  BY <1>5
<1>6. Top.todo # <<>> => Child \in D /\ Tail(Top.todo) \in Seq(D)
  BY <1>4, <1>5 DEF Child
<1> QED BY <1>1, <1>2, <1>3, <1>4, <1>6 DEF D

\* what a step down the tree does to the stack
LEMMA Descends ==
    ASSUME Inv, phase \in {"symbols", "archetypes"}, Top.todo # <<>>, Descend,
           UNCHANGED <<nodes, phase>>, Len(symbols') \in Nat, Len(symbols) <= Len(symbols')
    PROVE  WalkInv'
<1> DEFINE D == DOMAIN nodes
           f == Frame(Child)
           t == Tail(Top.todo)
           g == [Head(walk) EXCEPT !.todo = t]
<1>1. /\ walk # <<>> /\ Nested(walk, D, Len(symbols)) /\ Len(symbols) \in Nat
      /\ walk \in Seq(Frames(D)) /\ Top \in Frames(D)
      /\ Child \in D /\ t \in Seq(D) /\ walk[Len(walk)].id = Root
  BY Meeting
<1>2. f \in Frames(D) /\ f.size = Len(symbols)
  BY <1>1 DEF Frame, Frames, Inv, TreeInv
<1>3. g \in Frames(D)
  BY <1>1 DEF Frames, Top
<1>4. walk' = <<f, g>> \o Tail(walk)
  BY DEF Descend, Top
<1>5. /\ Nested(<<f, g>> \o Tail(walk), D, Len(symbols')) /\ <<f, g>> \o Tail(walk) # <<>>
      /\ (<<f, g>> \o Tail(walk))[Len(<<f, g>> \o Tail(walk))].id = Root
  <2> HIDE DEF D, f, t
  <2> QED BY <1>1, <1>2, NestedDescends
<1> HIDE DEF f, g
<1> QED BY <1>4, <1>5 DEF WalkInv, Inv

LEMMA Advances ==
    ASSUME Inv, phase = "functions", Top.todo # <<>>,
           walk' = <<[Top EXCEPT !.todo = Tail(@)]>>,
           UNCHANGED <<nodes, phase>>, Len(symbols') \in Nat, Len(symbols) <= Len(symbols')
    PROVE  WalkInv'
<1> DEFINE D == DOMAIN nodes
           t == Tail(Top.todo)
           g == [Head(walk) EXCEPT !.todo = t]
<1>1. /\ walk # <<>> /\ Nested(walk, D, Len(symbols)) /\ Len(symbols) \in Nat
      /\ t \in Seq(D) /\ walk[Len(walk)].id = Root
  BY Meeting
<1>2. walk' = <<g>>
  BY DEF Top
<1>3. Nested(<<g>>, D, Len(symbols')) /\ g.id = Head(walk).id
  <2> HIDE DEF D, t
  <2> QED BY <1>1, NestedAdvances
<1>4. Head(walk).id = Root
  <2>1. walk[1] = Head(walk) /\ Len(walk) = 1
    BY DEF Inv, WalkInv
  <2> QED BY <1>1, <2>1
<1> HIDE DEF g
<1>5. <<g>> # <<>> /\ Len(<<g>>) = 1 /\ <<g>>[1] = g
  OBVIOUS
<1> QED BY <1>2, <1>3, <1>4, <1>5 DEF WalkInv, Inv

\* the walk starts again at the root, and remembers the whole table
LEMMA Begins ==
    ASSUME Inv, NEW p \in {"symbols", "archetypes"}, Begin(p), UNCHANGED <<nodes, symbols>>
    PROVE  WalkInv'
<1> DEFINE f == Frame(Root)
<1>1. Len(symbols) \in Nat
  BY DEF Inv, TableInv
<1>2. f \in Frames(DOMAIN nodes) /\ f.size = Len(symbols) /\ f.id = Root
  BY <1>1 DEF Frame, Frames, Inv, TreeInv
<1>3. walk' = <<f>> /\ phase' = p
  BY DEF Begin
<1> HIDE DEF f
<1>4. <<f>> \in Seq(Frames(DOMAIN nodes)) /\ Len(<<f>>) = 1 /\ <<f>>[1] = f /\ <<f>> # <<>>
  BY <1>2
<1> QED BY <1>1, <1>2, <1>3, <1>4 DEF WalkInv, Nested

-------------------------------------------------------------------------------
(* The initial states, and one lemma per group of actions *)

LEMMA TreeKept == ASSUME TreeInv, UNCHANGED nodes PROVE TreeInv'
BY DEF TreeInv

LEMMA BoundsKept == ASSUME BoundsInv, UNCHANGED <<archetypes, compiled>> PROVE BoundsInv'
BY DEF BoundsInv

LEMMA TableKept == ASSUME TableInv, UNCHANGED <<nodes, symbols>> PROVE TableInv'
BY DEF TableInv, EntrySet, Values, NameOfNode, Name

LEMMA ReferencesKept == ASSUME ReferenceInv, UNCHANGED <<nodes, reference>> PROVE ReferenceInv'
BY DEF ReferenceInv, NamesAgree, Name

LEMMA ClearedTree ==
    /\ DOMAIN ClearedNodes = {Root}
    /\ ClearedNodes[Root].type = "MODULE"
    /\ \A n \in {Root} : Children(ClearedNodes, n) \in Seq({Root})
<1>1. ClearedNodes[Root].first_child = NodeNull
  BY DEF ClearedNodes, NewNode
<1>2. Children(ClearedNodes, Root) = <<>>
  BY <1>1 DEF Children
<1>3. <<>> \in Seq({Root})
  OBVIOUS
<1>4. DOMAIN ClearedNodes = {Root} /\ ClearedNodes[Root].type = "MODULE"
  BY DEF ClearedNodes, NewNode
<1> QED BY <1>2, <1>3, <1>4

LEMMA ClearedFits == IsFiniteSet({Root}) /\ Cardinality({Root}) <= NodeCapacity
<1>1. IsFiniteSet({Root}) /\ Cardinality({Root}) = 1
  BY FS_Singleton
<1> QED BY <1>1, NodeCapacityAssumption

LEMMA EmptySequence == ASSUME NEW S, NEW w, w = <<>> PROVE w \in Seq(S) /\ Len(w) = 0
OBVIOUS

LEMMA EmptyTable == ASSUME symbols = <<>> PROVE TableInv
<1>1. symbols \in Seq(EntrySet) /\ Len(symbols) = 0
  OBVIOUS
<1> QED BY <1>1 DEF TableInv

LEMMA InitInv == ASSUME Init PROVE Inv
<1> USE DEF Init
<1>1. BoundsInv
  <2>1. compiled = 0 /\ archetypes = <<>>
    OBVIOUS
  <2> HIDE DEF Init
  <2>2. archetypes \in Seq(Stored) /\ Len(archetypes) = 0
    BY <2>1, EmptySequence
  <2>3. Len(archetypes) <= ArchetypeCapacity /\ compiled \in Nat
    BY <2>1, <2>2, BoundsAssumption
  <2> QED BY <2>2, <2>3 DEF BoundsInv
<1>2. TreeInv
  BY ClearedTree, ClearedFits DEF TreeInv
<1>3. TableInv
  BY EmptyTable
<1>4. WalkInv
  BY DEF WalkInv
<1>5. ReferenceInv
  BY ClearedTree DEF ReferenceInv, NamesAgree
<1> QED BY <1>1, <1>2, <1>3, <1>4, <1>5 DEF Inv

LEMMA CreateArchetypeInv ==
    ASSUME Inv, NEW name \in ArchetypeNames, CreateArchetype(name)
    PROVE  Inv'
<1>1. BoundsInv'
  BY BoundsAssumption DEF Inv, BoundsInv, CreateArchetype, Stored
<1>2. TreeInv' /\ TableInv' /\ ReferenceInv'
  BY TreeKept, TableKept, ReferencesKept DEF Inv, CreateArchetype
<1>3. WalkInv'
  BY DEF Inv, WalkInv, CreateArchetype
<1> QED BY <1>1, <1>2, <1>3 DEF Inv

LEMMA CompileInv ==
    ASSUME Inv, compiled < Compilations, NEW tree \in Trees(compiled, Len(archetypes)),
           Compile(tree)
    PROVE  Inv'
<1>1. compiled \in 0..Compilations - 1 /\ Len(archetypes) \in 0..ArchetypeCapacity
  BY BoundsAssumption DEF Inv, BoundsInv
<1>2. /\ Root \in DOMAIN tree /\ tree[Root].type = "MODULE"
      /\ IsFiniteSet(DOMAIN tree) /\ Cardinality(DOMAIN tree) <= NodeCapacity
      /\ \A n \in DOMAIN tree : Children(tree, n) \in Seq(DOMAIN tree)
  BY <1>1, TreesAssumption DEF IsModule, OneTree
<1>3. BoundsInv'
  <2>1. compiled' = compiled + 1 /\ archetypes' = archetypes
    BY DEF Compile
  <2>2. BoundsInv
    BY DEF Inv
  <2> QED BY <2>1, <2>2 DEF BoundsInv, Stored
<1>4. TreeInv'
  BY <1>2 DEF TreeInv, Compile
<1>5. TableInv'
  <2>1. symbols' = <<>>
    BY DEF Compile
  <2>2. symbols' \in Seq(EntrySet') /\ Len(symbols') = 0
    BY <2>1
  <2> QED BY <2>2 DEF TableInv
<1>6. WalkInv'
  <2> DEFINE f == [id |-> Root, size |-> 0, todo |-> Children(tree, Root)]
  <2>1. f \in Frames(DOMAIN tree) /\ f.size = 0 /\ f.id = Root
    BY <1>2 DEF Frames
  <2>2. walk' = <<f>> /\ nodes' = tree /\ Len(symbols') = 0 /\ phase' = "functions"
    BY DEF Compile
  <2> HIDE DEF f
  <2>3. <<f>> \in Seq(Frames(DOMAIN tree)) /\ Len(<<f>>) = 1 /\ <<f>>[1] = f /\ <<f>> # <<>>
    BY <2>1
  <2> QED BY <2>1, <2>2, <2>3 DEF WalkInv, Nested
<1>7. ReferenceInv'
  BY DEF ReferenceInv, NamesAgree, Compile
<1> QED BY <1>3, <1>4, <1>5, <1>6, <1>7 DEF Inv

LEMMA ParseFailsInv == ASSUME Inv, ParseFails PROVE Inv'
<1> USE DEF ParseFails
<1>1. BoundsInv'
  BY DEF Inv, BoundsInv
<1>2. TreeInv'
  BY ClearedTree, ClearedFits DEF TreeInv
<1>3. TableInv'
  <2>1. symbols' \in Seq(EntrySet') /\ Len(symbols') = 0
    OBVIOUS
  <2> QED BY <2>1 DEF TableInv
<1>4. WalkInv'
  BY DEF Inv, WalkInv
<1>5. ReferenceInv'
  BY ClearedTree DEF ReferenceInv, NamesAgree
<1> QED BY <1>1, <1>2, <1>3, <1>4, <1>5 DEF Inv

\* steps that leave the tree, the table and the references alone
LEMMA QuietInv ==
    ASSUME Inv, WalkInv', UNCHANGED <<nodes, symbols, reference, archetypes, compiled>>
    PROVE  Inv'
BY TreeKept, BoundsKept, TableKept, ReferencesKept DEF Inv

\* the first error ends the compilation
LEMMA FailInv ==
    ASSUME Inv, NEW e, NEW n, FailAt(e, n),
           UNCHANGED <<nodes, symbols, reference, archetypes, compiled>>
    PROVE  Inv'
<1>1. WalkInv'
  BY DEF FailAt, WalkInv
<1> QED BY <1>1, QuietInv

\* Entering a name: the entry is new, and the frame pushed before it remembers less.
LEMMA DefineInv ==
    ASSUME Inv, Top.todo # <<>>, Define(Child),
           \/ phase = "symbols" /\ Descend
           \/ phase = "functions" /\ walk' = <<[Top EXCEPT !.todo = Tail(@)]>>,
           UNCHANGED <<nodes, phase, reference, archetypes, compiled>>
    PROVE  Inv'
<1>1. Child \in DOMAIN nodes /\ Len(symbols) \in Nat
  BY Meeting
<1>2. TableInv' /\ Len(symbols') = Len(symbols) + 1
  BY <1>1, TableGrows DEF Inv
<1>3. WalkInv'
  BY <1>1, <1>2, Descends, Advances
<1> QED BY <1>2, <1>3, TreeKept, BoundsKept, ReferencesKept DEF Inv

\* Of a name that is defined there is one entry, and it is the one found.
LEMMA ResolveSymbolInv == ASSUME Inv, ResolveSymbol, UNCHANGED compiled PROVE Inv'
<1> DEFINE D == DOMAIN nodes
           r == Lookup(Name(Child))
<1>1. phase = "symbols" /\ Top.todo # <<>> /\ Defined(Name(Child))
  BY DEF ResolveSymbol, Meets
<1>2. Child \in D /\ Len(symbols) \in Nat
  BY <1>1, Meeting
<1>3. r \in D /\ Name(r) = Name(Child)
  <2>1. symbols \in Seq(EntrySet) /\ DOMAIN symbols = 1..Len(symbols)
    BY DEF Inv, TableInv
  <2>2. PICK i \in Entries(Name(Child)) : TRUE
    BY <1>1 DEF Defined
  <2>3. \A j \in Entries(Name(Child)) : j = i
    BY <2>1, <2>2 DEF Entries, Inv, TableInv
  <2>4. i <= i
    BY <2>1, <2>2 DEF Entries
  <2>5. r = symbols[i].id
    BY <2>2, <2>3, <2>4 DEF Lookup
  <2>6. i \in 1..Len(symbols) /\ symbols[i].name = Name(Child)
    BY <2>1, <2>2 DEF Entries
  <2>7. symbols[i] \in EntrySet /\ NameOfNode(symbols[i])
    BY <2>1, <2>6 DEF Inv, TableInv
  <2> QED BY <2>5, <2>6, <2>7 DEF EntrySet, NameOfNode
<1> HIDE DEF r
<1>4. reference' = [reference EXCEPT ![Child] = r] /\ UNCHANGED nodes
  BY DEF ResolveSymbol, r
<1>5. ReferenceInv'
  BY <1>2, <1>3, <1>4 DEF Inv, ReferenceInv, NamesAgree, Name
<1>6. WalkInv'
  BY <1>1, <1>2, Descends DEF ResolveSymbol
<1> QED BY <1>5, <1>6, TreeKept, BoundsKept, TableKept DEF Inv, ResolveSymbol

\* Leaving a node: the outer frames remember no more than the frame that is left.
LEMMA LeaveScopeInv == ASSUME Inv, LeaveScope, UNCHANGED compiled PROVE Inv'
<1> DEFINE k == Head(walk).size
<1>1. /\ phase = "symbols"
      /\ walk # <<>> /\ Nested(walk, DOMAIN nodes, Len(symbols)) /\ Len(symbols) \in Nat
      /\ walk \in Seq(Frames(DOMAIN nodes)) /\ walk[Len(walk)].id = Root
  BY Meeting DEF LeaveScope
<1>2. /\ Nested(Tail(walk), DOMAIN nodes, Len(symbols))
      /\ k \in Nat /\ k <= Len(symbols)
      /\ Nested(Tail(walk), DOMAIN nodes, k)
      /\ Len(walk) > 1 => Tail(walk) # <<>> /\ Tail(walk)[Len(Tail(walk))].id = walk[Len(walk)].id
      /\ ~(Len(walk) > 1) => Head(walk) = walk[Len(walk)]
  BY <1>1, NestedAscends
<1>3. \/ UNCHANGED symbols
      \/ symbols' = SubSeq(symbols, 1, k)
  BY DEF LeaveScope, Top
<1>4. UNCHANGED <<nodes, reference, archetypes, compiled>>
  BY DEF LeaveScope
<1>5. TableInv' /\ (Len(symbols') = Len(symbols) \/ Len(symbols') = k)
  BY <1>1, <1>2, <1>3, <1>4, TableKept, TableShrinks DEF Inv
<1>6. WalkInv'
  <2>1. CASE Len(walk) > 1
    <3>1. walk' = Tail(walk) /\ UNCHANGED phase
      BY <2>1 DEF LeaveScope, Ascend
    <3> QED BY <1>1, <1>2, <1>4, <1>5, <2>1, <3>1 DEF WalkInv
  <2>2. CASE ~(Len(walk) > 1)
    <3>1. Begin("archetypes")
      BY <2>2 DEF LeaveScope, Ascend
    <3>2. UNCHANGED symbols
      <4>1. nodes[Top.id].type = "MODULE"
        BY <1>1, <1>2, <2>2 DEF Inv, TreeInv, Top
      <4> QED BY <4>1 DEF LeaveScope, Scopes
    <3> QED BY <1>4, <3>1, <3>2, Begins
  <2> QED BY <2>1, <2>2
<1> QED BY <1>4, <1>5, <1>6, TreeKept, BoundsKept, ReferencesKept DEF Inv

LEMMA ResolveSymbolsInv == ASSUME Inv, ResolveSymbols, UNCHANGED compiled PROVE Inv'
<1>1. CASE MeetFunction
  BY <1>1, DefineInv DEF MeetFunction
<1>2. CASE MeetFunctionTwice
  BY <1>2, FailInv DEF MeetFunctionTwice, AlreadyDefined
<1>3. CASE MeetStatement
  <2>1. WalkInv'
    BY <1>3, Meeting, Advances DEF MeetStatement
  <2> QED BY <1>3, <2>1, QuietInv DEF MeetStatement
<1>4. CASE BeginScopedWalk
  <2>1. WalkInv'
    BY <1>4, Begins DEF BeginScopedWalk
  <2> QED BY <1>4, <2>1, QuietInv DEF BeginScopedWalk
<1>5. CASE DeclareVariable
  BY <1>5, DefineInv DEF DeclareVariable, Meets
<1>6. CASE DeclareTwice
  BY <1>6, FailInv DEF DeclareTwice, AlreadyDefined
<1>7. CASE ResolveSymbol
  BY <1>7, ResolveSymbolInv
<1>8. CASE UnresolvedSymbol
  BY <1>8, FailInv DEF UnresolvedSymbol
<1>9. CASE EnterNode
  <2>1. WalkInv'
    BY <1>9, Meeting, Descends DEF EnterNode, Meets
  <2> QED BY <1>9, <2>1, QuietInv DEF EnterNode
<1>10. CASE LeaveScope
  BY <1>10, LeaveScopeInv
<1> QED BY <1>1, <1>2, <1>3, <1>4, <1>5, <1>6, <1>7, <1>8, <1>9, <1>10 DEF ResolveSymbols

\* The resolver of archetypes changes neither the table nor the references.
LEMMA ResolveArchetypesInv == ASSUME Inv, ResolveArchetypes, UNCHANGED compiled PROVE Inv'
<1>1. UNCHANGED <<nodes, symbols, reference, archetypes>>
  BY DEF ResolveArchetypes, ResolveArchetype, ArchetypeNotFound, NoArchetypeMentioned, LeaveNode
<1>2. CASE ResolveArchetype \/ NoArchetypeMentioned
  <2>1. phase = "archetypes" /\ Top.todo # <<>> /\ Descend /\ UNCHANGED phase
    BY <1>2 DEF ResolveArchetype, NoArchetypeMentioned, Meets
  <2>2. Len(symbols) \in Nat
    BY <2>1, Meeting
  <2>3. WalkInv'
    BY <1>1, <2>1, <2>2, Descends
  <2> QED BY <1>1, <2>3, QuietInv
<1>3. CASE ArchetypeNotFound
  BY <1>1, <1>3, FailInv DEF ArchetypeNotFound
<1>4. CASE LeaveNode
  <2>1. phase = "archetypes"
    BY <1>4 DEF LeaveNode
  <2>2. /\ walk # <<>> /\ Nested(walk, DOMAIN nodes, Len(symbols)) /\ Len(symbols) \in Nat
        /\ walk[Len(walk)].id = Root
    BY <2>1, Meeting
  <2>3. WalkInv'
    <3>1. CASE Len(walk) > 1
      <4>1. walk' = Tail(walk) /\ UNCHANGED phase
        BY <1>4, <3>1 DEF LeaveNode, Ascend
      <4> QED BY <1>1, <2>1, <2>2, <3>1, <4>1, NestedAscends DEF WalkInv
    <3>2. CASE ~(Len(walk) > 1)
      BY <1>4, <3>2 DEF LeaveNode, Ascend, WalkInv
    <3> QED BY <3>1, <3>2
  <2> QED BY <1>1, <2>3, QuietInv
<1> QED BY <1>2, <1>3, <1>4 DEF ResolveArchetypes

-------------------------------------------------------------------------------
(* The theorems *)

\* The three facts of the induction together.
LEMMA InvInductive == Spec => []Inv
<1>1. Init => Inv
  BY InitInv
<1>2. Inv /\ [Next]_vars => Inv'
  <2> SUFFICES ASSUME Inv, [Next]_vars PROVE Inv'
    OBVIOUS
  <2>1. ASSUME NEW name \in ArchetypeNames, CreateArchetype(name) PROVE Inv'
    BY <2>1, CreateArchetypeInv
  <2>2. ASSUME compiled < Compilations, NEW tree \in Trees(compiled, Len(archetypes)),
               Compile(tree)
        PROVE  Inv'
    BY <2>2, CompileInv
  <2>3. CASE ParseFails
    BY <2>3, ParseFailsInv
  <2>4. CASE Analyze /\ UNCHANGED compiled
    BY <2>4, ResolveSymbolsInv, ResolveArchetypesInv DEF Analyze
  <2>5. CASE UNCHANGED vars
    <3>1. WalkInv'
      BY <2>5 DEF Inv, WalkInv, vars, analyzerVars
    <3> QED BY <2>5, <3>1, QuietInv DEF vars, analyzerVars
  <2> QED BY <2>1, <2>2, <2>3, <2>4, <2>5 DEF Next
<1> QED BY <1>1, <1>2, PTL DEF Spec

\* The table of names never holds a name twice, whatever blocks the walk has entered and
\* left and whatever was compiled before: nulang__find_symbol finds the only entry of the
\* name, for all sources and capacities.
THEOREM NoShadowing == Spec => []NamesDistinct
<1>1. Inv => NamesDistinct
  <2> SUFFICES ASSUME Inv PROVE NamesDistinct
    OBVIOUS
  <2>1. DOMAIN symbols = 1..Len(symbols)
    BY DEF Inv, TableInv
  <2> QED BY <2>1 DEF Inv, TableInv, NamesDistinct
<1> QED BY <1>1, InvInductive, PTL

\* The arrays of the table are as large as the arena: nulang__define_symbol, which does not
\* check, never writes behind them, because no node is in the table twice.
THEOREM TableNeverOverflows == Spec => []TableFits
<1>1. Inv => TableFits
  <2> SUFFICES ASSUME Inv PROVE TableFits
    OBVIOUS
  <2> DEFINE D == DOMAIN nodes
             ids == [i \in 1..Len(symbols) |-> symbols[i].id]
  <2>1. Len(symbols) \in Nat /\ symbols \in Seq(EntrySet)
    BY DEF Inv, TableInv
  <2>2. \A i \in 1..Len(symbols) : symbols[i] \in EntrySet /\ symbols[i].name = Name(symbols[i].id)
    BY <2>1 DEF Inv, TableInv, NameOfNode
  <2>3. ids \in [1..Len(symbols) -> D]
    BY <2>2 DEF EntrySet
  <2>4. \A i, j \in 1..Len(symbols) : ids[i] = ids[j] => i = j
    BY <2>2 DEF Inv, TableInv
  <2>5. ids \in Injection(1..Len(symbols), D)
    BY <2>3, <2>4 DEF Injection, IsInjective
  <2>6. IsFiniteSet(1..Len(symbols)) /\ Cardinality(1..Len(symbols)) = Len(symbols)
    BY <2>1, FS_Interval
  <2>7. IsFiniteSet(D) /\ Cardinality(D) <= NodeCapacity /\ Cardinality(D) \in Nat
    BY FS_CardinalityType DEF Inv, TreeInv
  <2>8. Len(symbols) <= Cardinality(D)
    BY <2>5, <2>6, <2>7, FS_Injection
  <2> QED BY <2>1, <2>7, <2>8, SymbolCapacityAssumption, NodeCapacityAssumption DEF TableFits
<1> QED BY <1>1, InvInductive, PTL

\* What nulang__resolve_symbol stores for a reference is a node of the tree being analyzed,
\* never one of an earlier compilation, and it declares the name the reference has.
THEOREM ReferencesKeepNames ==
    Spec => [](reference \in [DOMAIN nodes -> DOMAIN nodes \cup {Unset}] /\ NamesAgree)
<1>1. Inv => reference \in [DOMAIN nodes -> DOMAIN nodes \cup {Unset}] /\ NamesAgree
  BY DEF Inv, ReferenceInv
<1> QED BY <1>1, InvInductive, PTL
-------------------------------------------------------------------------------
(* The type invariant *)

\* The loop over the children of the module meets children of the module only; what is
\* in the table declares a name; a type is an archetype there is.
FunctionsInv ==
    phase = "functions" => \A i \in 1..Len(Top.todo) : nodes[Top.todo[i]].parent = Root
DeclaresInv == \A i \in 1..Len(symbols) : Declares(symbols[i].id)
ArchetypeInv == archetype \in [DOMAIN nodes -> 0..Len(archetypes)]

TypesInv == Inv /\ FunctionsInv /\ DeclaresInv /\ ArchetypeInv

LEMMA InitTypes == ASSUME Init PROVE TypesInv
<1>1. phase = "idle" /\ symbols = <<>> /\ archetypes = <<>> /\ nodes = ClearedNodes
      /\ archetype = [n \in {Root} |-> NoArchetype]
  BY DEF Init
<1>2. Len(symbols) = 0 /\ Len(archetypes) = 0
  BY <1>1
<1>3. ArchetypeInv
  BY <1>1, <1>2, ClearedTree DEF ArchetypeInv, NoArchetype
<1>4. DeclaresInv
  BY <1>2 DEF DeclaresInv
<1> QED BY <1>1, <1>3, <1>4, InitInv DEF TypesInv, FunctionsInv

LEMMA CreateArchetypeTypes ==
    ASSUME TypesInv, NEW name \in ArchetypeNames, CreateArchetype(name)
    PROVE  FunctionsInv' /\ DeclaresInv' /\ ArchetypeInv'
<1>1. /\ phase = "idle" /\ archetypes' = Append(archetypes, Identifier[name])
      /\ UNCHANGED <<nodes, phase, symbols, archetype>>
  BY DEF CreateArchetype
<1>2. Len(archetypes') = Len(archetypes) + 1 /\ Len(archetypes) \in Nat
  BY <1>1 DEF TypesInv, Inv, BoundsInv
<1>3. 0..Len(archetypes) \subseteq 0..Len(archetypes')
  BY <1>2
<1> QED BY <1>1, <1>3 DEF TypesInv, FunctionsInv, DeclaresInv, ArchetypeInv, Declares, Hoisted

LEMMA CompileTypes ==
    ASSUME TypesInv, compiled < Compilations, NEW tree \in Trees(compiled, Len(archetypes)),
           Compile(tree)
    PROVE  FunctionsInv' /\ DeclaresInv' /\ ArchetypeInv'
<1> DEFINE kids == Children(tree, Root)
<1>1. /\ nodes' = tree /\ symbols' = <<>> /\ UNCHANGED archetypes
      /\ walk' = <<[id |-> Root, size |-> 0, todo |-> kids]>>
      /\ archetype' = [n \in DOMAIN tree |-> NoArchetype]
  BY DEF Compile
<1>2. compiled \in 0..Compilations - 1 /\ Len(archetypes) \in 0..ArchetypeCapacity
  BY BoundsAssumption DEF TypesInv, Inv, BoundsInv
<1>3. Root \in DOMAIN tree /\ IsForest(tree) /\ kids \in Seq(DOMAIN tree)
  BY <1>2, TreesAssumption DEF IsModule, OneTree
<1>4. \A i \in 1..Len(kids) : tree[kids[i]].parent = Root
  <2>1. {kids[i] : i \in DOMAIN kids} = {n \in DOMAIN tree : tree[n].parent = Root}
    BY <1>3 DEF IsForest, ChildrenAgree
  <2>2. DOMAIN kids = 1..Len(kids)
    BY <1>3
  <2> HIDE DEF kids
  <2> QED BY <2>1, <2>2
<1> HIDE DEF kids
<1>5. Top'.todo = kids
  BY <1>1 DEF Top
<1>6. Len(symbols') = 0
  BY <1>1
<1>7. ArchetypeInv'
  BY <1>1, <1>2 DEF ArchetypeInv, NoArchetype
<1>8. FunctionsInv'
  BY <1>1, <1>4, <1>5 DEF FunctionsInv
<1>9. DeclaresInv'
  BY <1>6 DEF DeclaresInv
<1> QED BY <1>7, <1>8, <1>9

LEMMA ParseFailsTypes ==
    ASSUME TypesInv, ParseFails
    PROVE  FunctionsInv' /\ DeclaresInv' /\ ArchetypeInv'
<1>1. /\ phase' = "idle" /\ symbols' = <<>> /\ UNCHANGED archetypes /\ nodes' = ClearedNodes
      /\ archetype' = [n \in {Root} |-> NoArchetype]
  BY DEF ParseFails
<1>2. Len(symbols') = 0 /\ Len(archetypes) \in Nat
  BY <1>1 DEF TypesInv, Inv, BoundsInv
<1>3. ArchetypeInv'
  BY <1>1, <1>2, ClearedTree DEF ArchetypeInv, NoArchetype
<1>4. DeclaresInv'
  BY <1>2 DEF DeclaresInv
<1> QED BY <1>1, <1>3, <1>4 DEF FunctionsInv

LEMMA DefineDeclares ==
    ASSUME TypesInv, NEW n \in DOMAIN nodes, Declares(n), Define(n), UNCHANGED nodes
    PROVE  DeclaresInv'
<1> DEFINE e == [name |-> Name(n), id |-> n]
<1>1. symbols' = Append(symbols, e) /\ e.id = n /\ symbols \in Seq(EntrySet)
  BY DEF Define, TypesInv, Inv, TableInv
<1>2. e \in EntrySet
  BY DEF EntrySet, Values, Name
<1> HIDE DEF e
<1>3. \A i \in 1..Len(symbols') :
         symbols'[i] = e \/ (i \in 1..Len(symbols) /\ symbols'[i] = symbols[i])
  BY <1>1, <1>2
<1>4. \A i \in 1..Len(symbols') : Declares(symbols'[i].id)
  BY <1>1, <1>3 DEF TypesInv, DeclaresInv
<1> QED BY <1>4 DEF DeclaresInv, Declares, Hoisted

LEMMA SymbolsTypes ==
    ASSUME TypesInv, ResolveSymbols
    PROVE  FunctionsInv' /\ DeclaresInv' /\ ArchetypeInv'
<1>1. UNCHANGED <<nodes, archetype, archetypes>>
  BY DEF ResolveSymbols, MeetFunction, MeetFunctionTwice, MeetStatement, BeginScopedWalk,
         DeclareVariable, DeclareTwice, ResolveSymbol, UnresolvedSymbol, EnterNode, LeaveScope,
         AlreadyDefined
<1>2. ArchetypeInv'
  BY <1>1 DEF TypesInv, ArchetypeInv
<1>3. CASE MeetFunction \/ MeetStatement
  <2>1. /\ phase = "functions" /\ Top.todo # <<>> /\ UNCHANGED phase
        /\ walk' = <<[Top EXCEPT !.todo = Tail(@)]>>
    BY <1>3 DEF MeetFunction, MeetStatement
  <2>2. Top \in Frames(DOMAIN nodes) /\ Top.todo \in Seq(DOMAIN nodes) /\ Child \in DOMAIN nodes
    BY <2>1, Meeting DEF TypesInv
  <2>3. Top'.todo = Tail(Top.todo)
    <3> DEFINE g == [Top EXCEPT !.todo = Tail(@)]
    <3>1. g.todo = Tail(Top.todo)
      BY <2>2 DEF Frames
    <3>2. walk' = <<g>>
      BY <2>1
    <3> HIDE DEF g
    <3> QED BY <3>1, <3>2 DEF Top
  <2>4. /\ 1 \in 1..Len(Top.todo) /\ Child = Top.todo[1]
        /\ \A i \in 1..Len(Tail(Top.todo)) :
              i + 1 \in 1..Len(Top.todo) /\ Tail(Top.todo)[i] = Top.todo[i + 1]
    <3> DEFINE s == Top.todo
    <3>1. s \in Seq(DOMAIN nodes) /\ s # <<>>
      BY <2>1, <2>2
    <3> HIDE DEF s
    <3>2. /\ 1 \in 1..Len(s) /\ Head(s) = s[1]
          /\ \A i \in 1..Len(Tail(s)) : i + 1 \in 1..Len(s) /\ Tail(s)[i] = s[i + 1]
      BY <3>1
    <3> QED BY <3>2 DEF s, Child
  <2>5. FunctionsInv'
    <3>1. \A i \in 1..Len(Tail(Top.todo)) : nodes[Tail(Top.todo)[i]].parent = Root
      BY <2>1, <2>4 DEF TypesInv, FunctionsInv
    <3> QED BY <1>1, <2>3, <3>1 DEF FunctionsInv
  <2>6. DeclaresInv'
    <3>1. CASE MeetFunction
      <4>1. Declares(Child)
        BY <2>1, <2>4, <3>1 DEF TypesInv, FunctionsInv, MeetFunction, Declares, Hoisted
      <4> QED BY <1>1, <2>2, <3>1, <4>1, DefineDeclares DEF MeetFunction
    <3>2. CASE MeetStatement
      BY <1>1, <3>2 DEF MeetStatement, TypesInv, DeclaresInv, Declares, Hoisted
    <3> QED BY <1>3, <3>1, <3>2
  <2> QED BY <1>2, <2>5, <2>6
<1>4. CASE DeclareVariable
  <2>1. phase = "symbols" /\ Top.todo # <<>> /\ Define(Child) /\ UNCHANGED phase
        /\ nodes[Child].type \in Declarations
    BY <1>4 DEF DeclareVariable, Meets
  <2>2. Child \in DOMAIN nodes
    BY <2>1, Meeting DEF TypesInv
  <2>3. Declares(Child)
    BY <2>1 DEF Declares, Declarations
  <2> QED BY <1>1, <1>2, <2>1, <2>2, <2>3, DefineDeclares DEF FunctionsInv
<1>5. CASE LeaveScope
  <2>1. phase = "symbols" /\ phase' \in {"symbols", "archetypes"}
    BY <1>5 DEF LeaveScope, Ascend, Begin
  <2>2. /\ walk # <<>> /\ Nested(walk, DOMAIN nodes, Len(symbols)) /\ Len(symbols) \in Nat
        /\ symbols \in Seq(EntrySet)
    BY <2>1, Meeting DEF TypesInv, Inv, TableInv
  <2>3. Head(walk).size \in Nat /\ Head(walk).size <= Len(symbols)
    BY <2>2, NestedAscends
  <2>4. \/ UNCHANGED symbols
        \/ symbols' = SubSeq(symbols, 1, Head(walk).size)
    BY <1>5 DEF LeaveScope, Top
  <2>5. \A i \in 1..Len(symbols') : i \in 1..Len(symbols) /\ symbols'[i] = symbols[i]
    BY <2>2, <2>3, <2>4
  <2>6. DeclaresInv'
    BY <1>1, <2>5 DEF TypesInv, DeclaresInv, Declares, Hoisted
  <2> QED BY <1>2, <2>1, <2>6 DEF FunctionsInv
<1>6. CASE \/ MeetFunctionTwice \/ BeginScopedWalk \/ DeclareTwice \/ ResolveSymbol
           \/ UnresolvedSymbol \/ EnterNode
  <2>1. UNCHANGED symbols /\ phase' \in {"symbols", "idle"}
    BY <1>6 DEF MeetFunctionTwice, BeginScopedWalk, DeclareTwice, ResolveSymbol,
         UnresolvedSymbol, EnterNode, AlreadyDefined, FailAt, Begin, Meets
  <2> QED BY <1>1, <1>2, <2>1 DEF TypesInv, FunctionsInv, DeclaresInv, Declares, Hoisted
<1> QED BY <1>3, <1>4, <1>5, <1>6 DEF ResolveSymbols

LEMMA ArchetypesTypes ==
    ASSUME TypesInv, ResolveArchetypes
    PROVE  FunctionsInv' /\ DeclaresInv' /\ ArchetypeInv'
<1>1. UNCHANGED <<nodes, symbols, archetypes>> /\ phase' \in {"archetypes", "idle"}
  BY DEF ResolveArchetypes, ResolveArchetype, ArchetypeNotFound, NoArchetypeMentioned,
         LeaveNode, Meets, FailAt, Ascend
<1>2. FunctionsInv' /\ DeclaresInv'
  BY <1>1 DEF TypesInv, FunctionsInv, DeclaresInv, Declares, Hoisted
<1>3. CASE ResolveArchetype
  <2>1. /\ Find(Mentions(Child)) # NoArchetype
        /\ archetype' = [archetype EXCEPT ![Child] = Find(Mentions(Child))]
    BY <1>3 DEF ResolveArchetype
  <2>2. Find(Mentions(Child)) \in 0..Len(archetypes)
    <3> DEFINE name == Mentions(Child)
    <3> HIDE DEF name
    <3>1. archetypes \in Seq(Stored) /\ DOMAIN archetypes = 1..Len(archetypes)
      BY DEF TypesInv, Inv, BoundsInv
    <3>2. PICK a \in Named(name) : \A b \in Named(name) : b <= a
      <4>1. Named(name) # {} /\ Named(name) \in SUBSET (0..Len(archetypes))
        BY <2>1, <3>1 DEF Find, Named, name
      <4>2. Len(archetypes) \in Nat
        BY <3>1
      <4> QED BY <4>1, <4>2, GreatestElement
    <3>3. Find(name) \in Named(name)
      BY <3>2 DEF Find
    <3> QED BY <3>1, <3>3 DEF Named, name
  <2> QED BY <1>1, <1>2, <2>1, <2>2 DEF TypesInv, ArchetypeInv
<1>4. CASE ArchetypeNotFound \/ NoArchetypeMentioned \/ LeaveNode
  <2>1. UNCHANGED archetype
    BY <1>4 DEF ArchetypeNotFound, NoArchetypeMentioned, LeaveNode
  <2> QED BY <1>1, <1>2, <2>1 DEF TypesInv, ArchetypeInv
<1> QED BY <1>2, <1>3, <1>4 DEF ResolveArchetypes

\* The table of names stays within its array, holds declarations of the tree being
\* analyzed only, no frame of the walk remembers more entries than there are (symbol.h:95),
\* and each resolved type is an archetype of the machine, in every compilation.
THEOREM TypeCorrect == Spec => []TypeOK
<1>1. Init => TypesInv
  BY InitTypes
<1>2. TypesInv /\ Inv' /\ [Next]_vars => TypesInv'
  <2> SUFFICES ASSUME TypesInv, Inv', [Next]_vars
               PROVE  FunctionsInv' /\ DeclaresInv' /\ ArchetypeInv'
    BY DEF TypesInv
  <2>1. ASSUME NEW name \in ArchetypeNames, CreateArchetype(name)
        PROVE  FunctionsInv' /\ DeclaresInv' /\ ArchetypeInv'
    BY <2>1, CreateArchetypeTypes
  <2>2. ASSUME compiled < Compilations, NEW tree \in Trees(compiled, Len(archetypes)),
               Compile(tree)
        PROVE  FunctionsInv' /\ DeclaresInv' /\ ArchetypeInv'
    BY <2>2, CompileTypes
  <2>3. CASE ParseFails
    BY <2>3, ParseFailsTypes
  <2>4. CASE Analyze
    BY <2>4, SymbolsTypes, ArchetypesTypes DEF Analyze
  <2>5. CASE UNCHANGED vars
    <3>1. UNCHANGED <<nodes, phase, walk, symbols, archetype, archetypes>>
      BY <2>5 DEF vars, analyzerVars
    <3>2. FunctionsInv'
      BY <3>1 DEF TypesInv, FunctionsInv, Top
    <3>3. DeclaresInv'
      BY <3>1 DEF TypesInv, DeclaresInv, Declares, Hoisted
    <3>4. ArchetypeInv'
      BY <3>1 DEF TypesInv, ArchetypeInv
    <3> QED BY <3>2, <3>3, <3>4
  <2> QED BY <2>1, <2>2, <2>3, <2>4, <2>5 DEF Next
<1>3. TypesInv /\ TableFits => TypeOK
  <2> SUFFICES ASSUME TypesInv, TableFits PROVE TypeOK
    OBVIOUS
  <2>1. symbols \in Seq(EntrySet) /\ DOMAIN symbols = 1..Len(symbols) /\ Len(symbols) \in Nat
    BY DEF TypesInv, Inv, TableInv
  <2>2. \A i \in DOMAIN symbols : symbols[i].id \in DOMAIN nodes /\ Declares(symbols[i].id)
    <3>1. \A i \in 1..Len(symbols) : symbols[i] \in EntrySet
      BY <2>1
    <3> QED BY <2>1, <3>1 DEF EntrySet, TypesInv, DeclaresInv
  <2>3. \A i \in DOMAIN walk : walk[i].id \in DOMAIN nodes /\ walk[i].size <= Len(symbols)
    <3>1. CASE walk = <<>>
      BY <3>1
    <3>2. CASE walk # <<>>
      <4> DEFINE D == DOMAIN nodes
      <4>1. Nested(walk, D, Len(symbols))
        BY <3>2 DEF TypesInv, Inv, WalkInv
      <4> HIDE DEF D
      <4>2. walk \in Seq(Frames(D)) /\ DOMAIN walk = 1..Len(walk)
        BY <4>1 DEF Nested
      <4>3. \A i \in 1..Len(walk) : walk[i] \in Frames(D) /\ walk[i].size <= Len(symbols)
        BY <4>1, <4>2 DEF Nested
      <4>4. \A i \in 1..Len(walk) : walk[i].id \in D
        BY <4>3 DEF Frames
      <4> QED BY <4>2, <4>3, <4>4 DEF D
    <3> QED BY <3>1, <3>2
  <2>4. phase \in {"idle", "functions", "symbols", "archetypes"}
    BY DEF TypesInv, Inv, WalkInv
  <2> QED BY <2>2, <2>3, <2>4 DEF TypesInv, Inv, ReferenceInv, ArchetypeInv, TypeOK
<1> QED BY <1>1, <1>2, <1>3, InvInductive, TableNeverOverflows, PTL DEF Spec

-------------------------------------------------------------------------------
(* The order of the nodes in the source *)

\* No shape has a module as a child.
LEMMA KidTypes ==
    ASSUME NEW t, NEW p, NEW kids, kids = Children(t, p), kids \in Seq(DOMAIN t), HasShape(t, p),
           NEW i \in 1..Len(kids)
    PROVE  t[kids[i]].type # "MODULE"
BY DEF HasShape, Statements, Expressions

\* One tree, with the root as its only node of the type of the module.
WholeTree ==
    /\ OneTree(nodes)
    /\ \A n \in DOMAIN nodes : Children(nodes, n) \in Seq(DOMAIN nodes)
    /\ nodes[Root].type = "MODULE"
    /\ \A n \in DOMAIN nodes : nodes[n].type = "MODULE" => n = Root

\* Nodes of two subtrees of one parent are ordered as their roots are.
LEMMA KidsPrecede ==
    ASSUME WholeTree, NEW p \in DOMAIN nodes, NEW kids, kids = Children(nodes, p),
           NEW i \in 1..Len(kids), NEW j \in 1..Len(kids), i < j,
           NEW m \in DOMAIN nodes, NEW n \in DOMAIN nodes,
           kids[i] \in Ancestors(nodes, m), kids[j] \in Ancestors(nodes, n)
    PROVE  Precedes(m, n)
<1>1. kids \in Seq(DOMAIN nodes) /\ DOMAIN kids = 1..Len(kids)
  BY DEF WholeTree
<1>2. /\ kids[i] \in DOMAIN nodes /\ nodes[kids[i]].parent = p
      /\ kids[j] \in DOMAIN nodes /\ nodes[kids[j]].parent = p
  BY <1>1, ChildrenMeant DEF WholeTree
<1>3. ASSUME NEW k \in DOMAIN nodes, nodes[k].parent = p, NEW x \in DOMAIN nodes, k \in Ancestors(nodes, x)
      PROVE  p \in Ancestors(nodes, x)
  <2>1. p # NodeNull /\ OneTree(nodes)
    BY DEF WholeTree, OneTree
  <2>2. p \in Ancestors(nodes, k)
    BY <1>3, <2>1, AncestorsStep, AncestorsStay
  <2> QED BY <1>3, <2>1, <2>2, AncestorsOfAncestors
<1>4. p \in Ancestors(nodes, m) \cap Ancestors(nodes, n)
  BY <1>2, <1>3
<1> QED BY <1>1, <1>4 DEF Precedes, Subtree

\* What comes before a node does not come after it.
LEMMA PrecedesOneWay ==
    ASSUME WholeTree, NEW m \in DOMAIN nodes, NEW n \in DOMAIN nodes, Precedes(m, n)
    PROVE  m # n /\ ~Precedes(n, m)
<1> DEFINE Anc(x) == Ancestors(nodes, x)
           Apart(p, i, j, x, y) ==
              LET kids == Children(nodes, p)
              IN i < j /\ kids[i] \in Anc(x) /\ kids[j] \in Anc(y)
           Above_(x, y) == x # y /\ x \in Anc(y)
           Beside(x, y) == \E p \in Anc(x) \cap Anc(y) :
                              \E i, j \in 1..Len(Children(nodes, p)) : Apart(p, i, j, x, y)
<1>1. OneTree(nodes) /\ \A p \in DOMAIN nodes : Children(nodes, p) \in Seq(DOMAIN nodes)
  BY DEF WholeTree
<1>2. ASSUME NEW x \in DOMAIN nodes, NEW y \in DOMAIN nodes, Precedes(x, y)
      PROVE  Above_(x, y) \/ Beside(x, y)
  <2>1. CASE x # y /\ x \in Anc(y)
    BY <2>1
  <2>2. CASE ~(x # y /\ x \in Anc(y))
    <3>1. PICK p \in Anc(x) \cap Anc(y) :
             \E i, j \in DOMAIN Children(nodes, p) :
                 i < j /\ x \in Subtree(nodes, Children(nodes, p)[i])
                       /\ y \in Subtree(nodes, Children(nodes, p)[j])
      BY <1>2, <2>2 DEF Precedes
    <3>2. p \in DOMAIN nodes
      BY <1>1, <3>1, AncestorsStay
    <3>3. DOMAIN Children(nodes, p) = 1..Len(Children(nodes, p))
      BY <1>1, <3>2
    <3> QED BY <3>1, <3>3 DEF Subtree
  <2> QED BY <2>1, <2>2
<1>3. ASSUME NEW p \in DOMAIN nodes, NEW i \in 1..Len(Children(nodes, p)), NEW j \in 1..Len(Children(nodes, p)),
             NEW x \in DOMAIN nodes, Children(nodes, p)[i] \in Anc(x), Children(nodes, p)[j] \in Anc(x)
      PROVE  i = j
  <2> DEFINE kids == Children(nodes, p)
  <2>1. kids \in Seq(DOMAIN nodes) /\ p # NodeNull
    BY <1>1 DEF OneTree
  <2>2. \A l \in 1..Len(kids) : nodes[kids[l]].parent = p
    BY <1>1, <2>1, ChildrenMeant
  <2>3. kids[i] = kids[j]
    BY <1>1, <1>3, <2>1, <2>2, OneChild
  <2> QED BY <1>1, <2>1, <2>3, ChildrenMeant
<1>4. ASSUME NEW x \in DOMAIN nodes, NEW y \in DOMAIN nodes, NEW a \in Anc(y), x \in Anc(a)
      PROVE  x \in Anc(y)
  BY <1>1, <1>4, AncestorsOfAncestors
<1>5. ASSUME NEW x \in DOMAIN nodes, Beside(x, x) PROVE FALSE
  <2>1. PICK p \in Anc(x) : \E i, j \in 1..Len(Children(nodes, p)) : Apart(p, i, j, x, x)
    BY <1>5
  <2>2. p \in DOMAIN nodes
    BY <1>1, <2>1, AncestorsStay
  <2> QED BY <1>3, <2>1, <2>2
<1>6. ASSUME NEW x \in DOMAIN nodes, NEW y \in DOMAIN nodes, x \in Anc(y),
             Beside(x, y) \/ Beside(y, x)
      PROVE  FALSE
  <2>1. PICK p \in Anc(x) \cap Anc(y) : \E i, j \in 1..Len(Children(nodes, p)) :
           i # j /\ Children(nodes, p)[i] \in Anc(x) /\ Children(nodes, p)[j] \in Anc(y)
    BY <1>6
  <2>2. PICK i \in 1..Len(Children(nodes, p)), j \in 1..Len(Children(nodes, p)) :
           i # j /\ Children(nodes, p)[i] \in Anc(x) /\ Children(nodes, p)[j] \in Anc(y)
    BY <2>1
  <2>3. p \in DOMAIN nodes
    BY <1>1, <2>1, AncestorsStay
  <2>4. Children(nodes, p)[i] \in DOMAIN nodes
    BY <1>1, <2>2, AncestorsStay
  <2>5. Children(nodes, p)[i] \in Anc(y)
    <3> HIDE DEF Anc
    <3> QED BY <1>4, <1>6, <2>2, <2>4
  <2> QED BY <1>3, <2>2, <2>3, <2>5
<1>7. ASSUME NEW x \in DOMAIN nodes, NEW y \in DOMAIN nodes,
             NEW p \in Anc(x) \cap Anc(y), NEW q \in Anc(x) \cap Anc(y), p # q, p \in Anc(q),
             NEW i \in 1..Len(Children(nodes, p)), NEW j \in 1..Len(Children(nodes, p)), i # j,
             Children(nodes, p)[i] \in Anc(x), Children(nodes, p)[j] \in Anc(y)
      PROVE  FALSE
  <2>1. p \in DOMAIN nodes /\ q \in DOMAIN nodes
    BY <1>1, AncestorsStay
  <2>2. PICK k \in DOMAIN nodes : nodes[k].parent = p /\ k \in Anc(q)
    BY <1>1, <1>7, <2>1, ThroughAChild
  <2>3. PICK l \in 1..Len(Children(nodes, p)) : Children(nodes, p)[l] = k
    BY <1>1, <2>1, <2>2, ChildrenMeant
  <2>4. k \in Anc(x) /\ k \in Anc(y)
    <3> HIDE DEF Anc
    <3> QED BY <1>4, <2>2
  <2>5. l = i /\ l = j
    BY <1>3, <1>7, <2>1, <2>3, <2>4
  <2> QED BY <1>7, <2>5
<1>8. ASSUME NEW x \in DOMAIN nodes, NEW y \in DOMAIN nodes, Beside(x, y), Beside(y, x) PROVE FALSE
  <2>1. PICK p \in Anc(x) \cap Anc(y) : \E i, j \in 1..Len(Children(nodes, p)) : Apart(p, i, j, x, y)
    BY <1>8
  <2>2. PICK i \in 1..Len(Children(nodes, p)), j \in 1..Len(Children(nodes, p)) : Apart(p, i, j, x, y)
    BY <2>1
  <2>3. PICK q \in Anc(y) \cap Anc(x) : \E g, h \in 1..Len(Children(nodes, q)) : Apart(q, g, h, y, x)
    BY <1>8
  <2>4. PICK g \in 1..Len(Children(nodes, q)), h \in 1..Len(Children(nodes, q)) : Apart(q, g, h, y, x)
    BY <2>3
  <2>5. p \in DOMAIN nodes /\ q \in DOMAIN nodes
    BY <1>1, AncestorsStay
  <2>6. i # j /\ g # h /\ i < j /\ g < h
    <3>1. i < j /\ g < h
      BY <2>2, <2>4
    <3> QED BY <3>1
  <2>7. CASE p = q
    <3>1. i = h /\ j = g
      BY <1>3, <2>2, <2>4, <2>5, <2>7
    <3>2. i \in Int /\ j \in Int
      OBVIOUS
    <3> QED BY <2>6, <3>1, <3>2
  <2>8. CASE p # q
    <3>1. p \in Anc(q) \/ q \in Anc(p)
      BY <1>1, AncestorsLine
    <3>2. CASE p \in Anc(q)
      BY <1>7, <2>2, <2>6, <2>8, <3>2
    <3>3. CASE q \in Anc(p)
      BY <1>7, <2>4, <2>6, <2>8, <3>3
    <3> QED BY <3>1, <3>2, <3>3
  <2> QED BY <2>7, <2>8
<1>9. ASSUME NEW x \in DOMAIN nodes, NEW y \in DOMAIN nodes, Above_(x, y), Above_(y, x) PROVE FALSE
  BY <1>1, <1>9, NoCycle
<1>10. m # n
  <2> HIDE DEF Beside
  <2> QED BY <1>2, <1>5
<1>11. ~Precedes(n, m)
  <2> SUFFICES ASSUME Precedes(n, m) PROVE FALSE
    OBVIOUS
  <2>1. Above_(m, n) \/ Beside(m, n)
    BY <1>2
  <2>2. Above_(n, m) \/ Beside(n, m)
    BY <1>2
  <2> HIDE DEF Beside
  <2> QED BY <1>6, <1>8, <1>9, <2>1, <2>2
<1> QED BY <1>10, <1>11

-------------------------------------------------------------------------------
(* Scopes *)

Closes(a) == nodes[a].type \in Scopes \cup {"MODULE"}
Closed(n) == {a \in Ancestors(nodes, n) \ {n} : Closes(a)}

\* The scope of a declaration is the innermost of the nodes around it that close one.
LEMMA ScopeOfInnermost ==
    ASSUME WholeTree, NEW n \in DOMAIN nodes, n # Root
    PROVE  ScopeOf(n) \in Closed(n) /\ \A b \in Closed(n) : b \in Ancestors(nodes, ScopeOf(n))
<1> DEFINE Innermost(m, a) == a \in Closed(m) /\ \A b \in Closed(m) : b \in Ancestors(nodes, a)
           S == {m \in DOMAIN nodes : m # Root => \E a \in Closed(m) : Innermost(m, a)}
<1>1. OneTree(nodes) /\ Closes(Root)
  BY DEF WholeTree, Closes
<1>2. Inherits(nodes, S)
  <2> SUFFICES ASSUME NEW m \in DOMAIN nodes, nodes[m].parent = NodeNull \/ nodes[m].parent \in S, m # Root
               PROVE  \E a \in Closed(m) : Innermost(m, a)
    BY DEF Inherits
  <2> DEFINE p == nodes[m].parent
  <2>1. nodes[m].parent # NodeNull
    BY <1>1, AncestorsStep, AncestorsStay
  <2>2. /\ Ancestors(nodes, m) = {m} \cup Ancestors(nodes, p) /\ p \in DOMAIN nodes
        /\ m \notin Ancestors(nodes, p) /\ p \in Ancestors(nodes, p)
    BY <1>1, <2>1, AncestorsStep, AncestorsStay DEF OneTree, IsForest, Acyclic
  <2>3. CASE Closes(p)
    BY <2>2, <2>3 DEF Closed
  <2>4. CASE ~Closes(p)
    <3>1. Closed(m) = Closed(p)
      BY <2>2, <2>4 DEF Closed
    <3>2. p # Root /\ p \in S
      BY <1>1, <2>1, <2>4
    <3> QED BY <3>1, <3>2
  <2> QED BY <2>3, <2>4
<1>3. DOMAIN nodes \subseteq S
  <2> HIDE DEF S
  <2> QED BY <1>1, <1>2, TreeInduction
<1>4. PICK a \in Closed(n) : \A b \in Closed(n) : b \in Ancestors(nodes, a)
  BY <1>3
<1>5. ScopeOf(n) = CHOOSE x \in Closed(n) : \A b \in Closed(n) : b \in Ancestors(nodes, x)
  BY DEF ScopeOf, Closed, Closes
<1> QED BY <1>4, <1>5

\* The functions of the module are in scope everywhere.
LEMMA HoistedScope ==
    ASSUME WholeTree, NEW d \in DOMAIN nodes, Hoisted(d)
    PROVE  d # Root /\ ScopeOf(d) = Root
<1>1. d # Root /\ nodes[d].parent = Root
  BY DEF Hoisted, WholeTree
<1>2. OneTree(nodes) /\ Root # NodeNull
  BY DEF WholeTree, OneTree
<1>3. Ancestors(nodes, d) = {d, Root}
  <2>1. Ancestors(nodes, Root) = {Root}
    BY <1>2, AncestorsStep DEF OneTree, IsForest, Acyclic
  <2> QED BY <1>1, <1>2, <2>1, AncestorsStep
<1> QED BY <1>1, <1>3, ScopeOfInnermost DEF Closed

\* A function of the module is in scope at every node.
LEMMA HoistedInScope ==
    ASSUME WholeTree, NEW d \in DOMAIN nodes, Hoisted(d), NEW n \in DOMAIN nodes
    PROVE  InScope(d, n)
BY HoistedScope, AncestorsStay DEF InScope, WholeTree

-------------------------------------------------------------------------------
(* Where the walk is *)

\* what a frame has still to visit are the last of the children
Behind(f) == Len(Children(nodes, f.id)) - Len(f.todo)
Ends(f) ==
    /\ Behind(f) \in 0..Len(Children(nodes, f.id))
    /\ \A j \in 1..Len(f.todo) : f.todo[j] = Children(nodes, f.id)[Behind(f) + j]

\* The frames are the way from the root to the node visited; each stands behind the child
\* the next inner one is for.
OnPath(w) ==
    /\ \A i \in 1..Len(w) : Ends(w[i]) /\ Ancestors(nodes, w[i].id) = {w[j].id : j \in i..Len(w)}
    /\ \A i \in 2..Len(w) : Behind(w[i]) >= 1 /\ Children(nodes, w[i].id)[Behind(w[i])] = w[i - 1].id

PathOf(w) == {w[i].id : i \in 1..Len(w)}
Awaits(f, n) == \E j \in 1..Len(f.todo) : f.todo[j] \in Ancestors(nodes, n)
Ahead(w) == {n \in DOMAIN nodes : \E i \in 1..Len(w) : Awaits(w[i], n)}
Met(w) == DOMAIN nodes \ Ahead(w)

\* The nodes met are before the others.
Ordered(w) == \A m \in Met(w), n \in Ahead(w) : Precedes(m, n)

IsWalk(w) == WholeTree /\ w \in Seq(Frames(DOMAIN nodes)) /\ w # <<>> /\ OnPath(w)

\* The parts of a frame keep their types.
LEMMA FramesOfWalk ==
    ASSUME NEW w, IsWalk(w)
    PROVE  /\ OneTree(nodes) /\ Len(w) \in Nat /\ Len(w) >= 1 /\ Head(w) = w[1] /\ 1 \in 1..Len(w)
           /\ \A i \in 1..Len(w) :
                 /\ w[i] \in Frames(DOMAIN nodes) /\ w[i].id \in DOMAIN nodes /\ w[i].size \in Nat
                 /\ w[i].todo \in Seq(DOMAIN nodes)
                 /\ Children(nodes, w[i].id) \in Seq(DOMAIN nodes)
                 /\ Len(Children(nodes, w[i].id)) \in Nat /\ Len(w[i].todo) \in Nat
<1> DEFINE D == DOMAIN nodes
<1>1. w \in Seq(Frames(D)) /\ Len(w) \in Nat /\ Len(w) >= 1 /\ Head(w) = w[1]
  BY DEF IsWalk
<1>2. \A i \in 1..Len(w) : w[i] \in Frames(D)
  BY <1>1
<1>3. \A i \in 1..Len(w) : w[i].id \in D /\ w[i].size \in Nat /\ w[i].todo \in Seq(D)
  BY <1>2 DEF Frames
<1>4. \A i \in 1..Len(w) : Children(nodes, w[i].id) \in Seq(D)
  BY <1>3 DEF IsWalk, WholeTree
<1>5. \A s \in Seq(D) : Len(s) \in Nat
  OBVIOUS
<1> QED BY <1>1, <1>2, <1>3, <1>4, <1>5 DEF IsWalk, WholeTree

\* Where the j-th of t nodes ahead stands among k children.
LEMMA PlaceBehind ==
    ASSUME NEW k \in Nat, NEW t \in Nat, NEW b \in Int, b = k - t, b >= 0, NEW j \in 1..t
    PROVE  /\ b + j \in 1..k /\ b < b + j
           /\ j # 1 => b + 1 < b + j
OBVIOUS

\* the place of the next node in the children of each frame: what a frame awaits is behind it
Cursor(i, f, e, c) ==
    /\ e \in 1..Len(Children(nodes, f.id))
    /\ Children(nodes, f.id)[e] \in Ancestors(nodes, c)
    /\ \A j \in 1..Len(f.todo) :
          \/ i = 1 /\ j = 1
          \/ \E l \in 1..Len(Children(nodes, f.id)) : e < l /\ f.todo[j] = Children(nodes, f.id)[l]

\* The next node is a child of the innermost frame, and every frame leads to it.
LEMMA NextNode ==
    ASSUME NEW w, IsWalk(w), w[1].todo # <<>>, NEW c, c = Head(w[1].todo)
    PROVE  /\ c \in DOMAIN nodes /\ nodes[c].parent = w[1].id /\ c # Root
           /\ Ancestors(nodes, c) = {c} \cup PathOf(w) /\ c \notin PathOf(w)
           /\ w[1].todo[1] = c /\ Len(w[1].todo) >= 1
           /\ Children(nodes, w[1].id)[Behind(w[1]) + 1] = c
           /\ \A i \in 1..Len(w) : \E e \in 1..Len(Children(nodes, w[i].id)) : Cursor(i, w[i], e, c)
<1> DEFINE f == w[1]
           kids == Children(nodes, f.id)
<1>1. /\ OneTree(nodes) /\ Len(w) \in Nat /\ Len(w) >= 1 /\ 1 \in 1..Len(w)
      /\ \A i \in 1..Len(w) :
            /\ w[i].id \in DOMAIN nodes /\ w[i].todo \in Seq(DOMAIN nodes)
            /\ Children(nodes, w[i].id) \in Seq(DOMAIN nodes)
            /\ Len(Children(nodes, w[i].id)) \in Nat /\ Len(w[i].todo) \in Nat
  BY FramesOfWalk
<1>2. f.todo[1] = c /\ Len(f.todo) >= 1 /\ c \in DOMAIN nodes
  BY <1>1
<1>3. Behind(f) \in Int /\ Behind(f) + 1 \in 1..Len(kids) /\ kids[Behind(f) + 1] = c
  <2>1. Len(kids) \in Nat /\ Len(f.todo) \in Nat /\ Behind(f) = Len(kids) - Len(f.todo)
    BY <1>1 DEF Behind
  <2>2. /\ Behind(f) \in 0..Len(kids)
        /\ \A j \in 1..Len(f.todo) : f.todo[j] = kids[Behind(f) + j]
    BY <1>1 DEF IsWalk, OnPath, Ends
  <2> HIDE DEF f, kids
  <2>3. Behind(f) \in Int /\ Behind(f) + 1 \in 1..Len(kids)
    BY <1>2, <2>1, <2>2
  <2>4. 1 \in 1..Len(f.todo)
    BY <1>2, <2>1
  <2> QED BY <1>2, <2>2, <2>3, <2>4
<1>4. nodes[c].parent = f.id
  BY <1>1, <1>3, ChildrenMeant
<1>5. f.id # NodeNull /\ nodes[c].parent # NodeNull
  BY <1>1, <1>4 DEF OneTree
<1>6. Ancestors(nodes, f.id) = PathOf(w)
  BY <1>1 DEF IsWalk, OnPath, PathOf
<1>7. Ancestors(nodes, c) = {c} \cup PathOf(w)
  BY <1>1, <1>2, <1>4, <1>5, <1>6, AncestorsStep
<1>8. c \notin PathOf(w)
  BY <1>1, <1>2, <1>4, <1>5, <1>6 DEF OneTree, IsForest, Acyclic
<1>9. c # Root
  BY <1>1, <1>5 DEF OneTree, IsForest, Acyclic
<1>10. Cursor(1, f, Behind(f) + 1, c)
  <2>1. \A j \in 1..Len(f.todo) : f.todo[j] = kids[Behind(f) + j]
    BY <1>1 DEF IsWalk, OnPath, Ends
  <2>2. c \in Ancestors(nodes, c)
    BY <1>7
  <2>3. ASSUME NEW j \in 1..Len(f.todo), j # 1
        PROVE  \E l \in 1..Len(kids) : Behind(f) + 1 < l /\ f.todo[j] = kids[l]
    <3>1. j # 1
      BY <2>3
    <3>2. Len(kids) \in Nat /\ Len(f.todo) \in Nat /\ Behind(f) = Len(kids) - Len(f.todo)
      BY <1>1 DEF Behind
    <3>3. Behind(f) + j \in 1..Len(kids) /\ Behind(f) + 1 < Behind(f) + j
      <4>1. Behind(f) \in Int /\ Behind(f) >= 0 /\ j \in 1..Len(f.todo) /\ j # 1
        BY <1>3, <3>1
      <4> HIDE DEF f, kids
      <4> QED BY <3>2, <4>1, PlaceBehind
    <3> QED BY <2>1, <3>3
  <2> QED BY <1>3, <2>2, <2>3 DEF Cursor
<1>11. ASSUME NEW i \in 2..Len(w) PROVE Cursor(i, w[i], Behind(w[i]), c)
  <2> DEFINE g == w[i]
             gkids == Children(nodes, g.id)
  <2>1. i \in 1..Len(w) /\ i - 1 \in 1..Len(w)
    BY <1>1
  <2>2. /\ Behind(g) \in 0..Len(gkids) /\ Behind(g) >= 1 /\ gkids[Behind(g)] = w[i - 1].id
        /\ \A j \in 1..Len(g.todo) : g.todo[j] = gkids[Behind(g) + j]
    BY <2>1 DEF IsWalk, OnPath, Ends
  <2>3. w[i - 1].id \in Ancestors(nodes, c)
    BY <1>7, <2>1 DEF PathOf
  <2>4. ASSUME NEW j \in 1..Len(g.todo)
        PROVE  Behind(g) + j \in 1..Len(gkids) /\ Behind(g) < Behind(g) + j
    <3>1. Len(gkids) \in Nat /\ Len(g.todo) \in Nat /\ Behind(g) = Len(gkids) - Len(g.todo)
      BY <1>1, <2>1 DEF Behind
    <3> HIDE DEF g, gkids
    <3> QED BY <2>2, <3>1
  <2> QED BY <2>2, <2>3, <2>4 DEF Cursor
<1>12. ASSUME NEW i \in 1..Len(w)
       PROVE  \E e \in 1..Len(Children(nodes, w[i].id)) : Cursor(i, w[i], e, c)
  <2>1. CASE i = 1
    BY <1>3, <1>10, <2>1
  <2>2. CASE i # 1
    <3>1. i \in 2..Len(w)
      BY <1>1, <2>2
    <3>2. Cursor(i, w[i], Behind(w[i]), c)
      BY <1>11, <3>1
    <3> QED BY <3>2 DEF Cursor
  <2> QED BY <2>1, <2>2
<1> QED BY <1>2, <1>3, <1>4, <1>7, <1>8, <1>9, <1>12

\* The next node comes before all the others ahead.
LEMMA NextIsFirst ==
    ASSUME NEW w, IsWalk(w), w[1].todo # <<>>, NEW c, c = Head(w[1].todo)
    PROVE  /\ c \in Ahead(w)
           /\ \A n \in Ahead(w) : n # c => Precedes(c, n)
           /\ Ordered(w) => \A m \in DOMAIN nodes : m \in Met(w) <=> Precedes(m, c)
<1>1. /\ c \in DOMAIN nodes /\ Ancestors(nodes, c) = {c} \cup PathOf(w)
      /\ w[1].todo[1] = c /\ Len(w[1].todo) >= 1
      /\ \A i \in 1..Len(w) : \E e \in 1..Len(Children(nodes, w[i].id)) : Cursor(i, w[i], e, c)
  BY NextNode
<1>2. /\ 1 \in 1..Len(w) /\ Len(w[1].todo) \in Nat
      /\ \A i \in 1..Len(w) : w[i].id \in DOMAIN nodes
  BY FramesOfWalk
<1>3. c \in Ahead(w)
  <2>1. Awaits(w[1], c)
    BY <1>1, <1>2 DEF Awaits
  <2> QED BY <1>1, <1>2, <2>1 DEF Ahead
<1>4. ASSUME NEW n \in Ahead(w), n # c PROVE Precedes(c, n)
  <2>1. n \in DOMAIN nodes
    BY DEF Ahead
  <2>2. PICK i \in 1..Len(w) : Awaits(w[i], n)
    BY DEF Ahead
  <2> DEFINE f == w[i]
             kids == Children(nodes, f.id)
  <2>3. PICK j \in 1..Len(f.todo) : f.todo[j] \in Ancestors(nodes, n)
    BY <2>2 DEF Awaits
  <2>4. PICK e \in 1..Len(kids) : Cursor(i, f, e, c)
    BY <1>1
  <2>5. CASE i = 1 /\ j = 1
    BY <1>1, <1>4, <2>3, <2>5 DEF Precedes
  <2>6. CASE ~(i = 1 /\ j = 1)
    <3>1. PICK l \in 1..Len(kids) : e < l /\ f.todo[j] = kids[l]
      BY <2>4, <2>6 DEF Cursor
    <3>2. kids[e] \in Ancestors(nodes, c)
      BY <2>4 DEF Cursor
    <3> QED BY <1>1, <1>2, <2>1, <2>3, <3>1, <3>2, KidsPrecede DEF IsWalk
  <2> QED BY <2>5, <2>6
<1>5. ASSUME Ordered(w), NEW m \in DOMAIN nodes PROVE m \in Met(w) <=> Precedes(m, c)
  <2>1. ASSUME m \in Met(w) PROVE Precedes(m, c)
    BY <1>3, <1>5, <2>1 DEF Ordered
  <2>2. ASSUME m \notin Met(w) PROVE ~Precedes(m, c)
    <3>1. m \in Ahead(w)
      BY <2>2 DEF Met
    <3>2. CASE m = c
      BY <1>1, <3>2, PrecedesOneWay DEF IsWalk
    <3>3. CASE m # c
      BY <1>1, <1>4, <3>1, <3>3, PrecedesOneWay DEF IsWalk
    <3> QED BY <3>2, <3>3
  <2> QED BY <2>1, <2>2
<1> QED BY <1>3, <1>4, <1>5

\* A node is below another when it is that node or below a child of it.
LEMMA BelowChild ==
    ASSUME WholeTree, NEW c \in DOMAIN nodes, NEW n \in DOMAIN nodes, NEW kids, kids = Children(nodes, c)
    PROVE  /\ c \in Ancestors(nodes, n) =>
                n = c \/ \E j \in 1..Len(kids) : kids[j] \in Ancestors(nodes, n)
           /\ \A j \in 1..Len(kids) :
                kids[j] \in Ancestors(nodes, n) => c \in Ancestors(nodes, n) /\ n # c
<1>1. OneTree(nodes) /\ kids \in Seq(DOMAIN nodes) /\ c # NodeNull
  BY DEF WholeTree, OneTree
<1>2. /\ \A i \in 1..Len(kids) : kids[i] \in DOMAIN nodes /\ nodes[kids[i]].parent = c
      /\ \A m \in DOMAIN nodes : nodes[m].parent = c => \E i \in 1..Len(kids) : kids[i] = m
  BY <1>1, ChildrenMeant
<1>3. ASSUME c \in Ancestors(nodes, n), n # c
      PROVE  \E j \in 1..Len(kids) : kids[j] \in Ancestors(nodes, n)
  <2>1. PICK k \in DOMAIN nodes : nodes[k].parent = c /\ k \in Ancestors(nodes, n)
    BY <1>1, <1>3, ThroughAChild
  <2> QED BY <1>2, <2>1
<1>4. ASSUME NEW j \in 1..Len(kids), kids[j] \in Ancestors(nodes, n)
      PROVE  c \in Ancestors(nodes, n) /\ n # c
  <2>1. kids[j] \in DOMAIN nodes /\ nodes[kids[j]].parent = c
    BY <1>2
  <2>2. c \in Ancestors(nodes, kids[j]) /\ kids[j] \notin Ancestors(nodes, c)
    BY <1>1, <2>1, AncestorsStep, AncestorsStay DEF OneTree, IsForest, Acyclic
  <2>3. c \in Ancestors(nodes, n)
    BY <1>1, <1>4, <2>2, AncestorsOfAncestors
  <2> QED BY <1>4, <2>2, <2>3
<1> QED BY <1>3, <1>4

\* What a frame awaits beside the next node is not above it.
LEMMA OthersApart ==
    ASSUME NEW w, IsWalk(w), w[1].todo # <<>>, NEW c, c = Head(w[1].todo),
           NEW i \in 1..Len(w), NEW j \in 1..Len(w[i].todo), ~(i = 1 /\ j = 1)
    PROVE  w[i].todo[j] \notin Ancestors(nodes, c)
<1> DEFINE f == w[i]
           kids == Children(nodes, f.id)
<1>1. c \in DOMAIN nodes /\ \E e \in 1..Len(kids) : Cursor(i, f, e, c)
  BY NextNode
<1>2. OneTree(nodes) /\ f.id \in DOMAIN nodes /\ kids \in Seq(DOMAIN nodes)
  BY FramesOfWalk
<1>3. PICK e \in 1..Len(kids) : Cursor(i, f, e, c)
  BY <1>1
<1>4. kids[e] \in Ancestors(nodes, c)
  BY <1>3 DEF Cursor
<1>5. PICK l \in 1..Len(kids) : e < l /\ f.todo[j] = kids[l]
  BY <1>3 DEF Cursor
<1>6. /\ \A k \in 1..Len(kids) : nodes[kids[k]].parent = f.id
      /\ \A k, m \in 1..Len(kids) : kids[k] = kids[m] => k = m
  BY <1>2, ChildrenMeant
<1>7. f.id # NodeNull
  BY <1>2 DEF OneTree
<1>8. ASSUME kids[l] \in Ancestors(nodes, c) PROVE FALSE
  <2>1. kids[l] = kids[e]
    BY <1>1, <1>2, <1>4, <1>6, <1>7, <1>8, OneChild
  <2> QED BY <1>5, <1>6, <2>1
<1> QED BY <1>5, <1>8

\* v is w with its first frame replaced by g and f before it.
Pushed(v, w, f, g) ==
    /\ v \in Seq(Frames(DOMAIN nodes)) /\ v # <<>> /\ Len(v) = Len(w) + 1
    /\ v[1] = f /\ v[2] = g
    /\ \A i \in 3..Len(v) : v[i] = w[i - 1]

\* The step down of Descend, frame by frame.
LEMMA DescendPushes ==
    ASSUME NEW w, IsWalk(w), NEW f \in Frames(DOMAIN nodes), NEW t \in Seq(DOMAIN nodes)
    PROVE  Pushed(<<f, [Head(w) EXCEPT !.todo = t]>> \o Tail(w), w, f, [Head(w) EXCEPT !.todo = t])
<1> DEFINE D == DOMAIN nodes
           g == [Head(w) EXCEPT !.todo = t]
           v == <<f, g>> \o Tail(w)
<1>1. w \in Seq(Frames(D)) /\ Len(w) \in Nat /\ Len(w) >= 1
  BY FramesOfWalk DEF IsWalk
<1>2. Head(w) = w[1] /\ w[1] \in Frames(D)
  BY <1>1
<1>3. g \in Frames(D)
  BY <1>2 DEF Frames
<1>4. Tail(w) \in Seq(Frames(D)) /\ Len(Tail(w)) = Len(w) - 1
  BY <1>1
<1>5. v \in Seq(Frames(D)) /\ Len(v) = Len(w) + 1
  BY <1>1, <1>3, <1>4
<1>6. v[1] = f /\ v[2] = g /\ v # <<>>
  BY <1>1, <1>3, <1>4, <1>5
<1>7. \A i \in 3..Len(v) : v[i] = w[i - 1]
  <2>1. \A i \in 1..Len(Tail(w)) : Tail(w)[i] = w[i + 1]
    BY <1>1
  <2>2. \A i \in 3..Len(v) : v[i] = Tail(w)[i - 2]
    BY <1>1, <1>3, <1>4, <1>5
  <2> HIDE DEF g, v
  <2> QED BY <1>1, <1>4, <1>5, <2>1, <2>2
<1> QED BY <1>5, <1>6, <1>7 DEF Pushed

\* A step down: the next node becomes the innermost frame, and is all that is met by it.
LEMMA WalkDescends ==
    ASSUME NEW w, IsWalk(w), w[1].todo # <<>>, NEW c, c = Head(w[1].todo),
           NEW f \in Frames(DOMAIN nodes), f.id = c, f.todo = Children(nodes, c),
           NEW g \in Frames(DOMAIN nodes), g.id = w[1].id, g.todo = Tail(w[1].todo),
           NEW v, Pushed(v, w, f, g)
    PROVE  /\ IsWalk(v) /\ PathOf(v) = PathOf(w) \cup {c} /\ Ahead(v) = Ahead(w) \ {c}
           /\ Ordered(w) => Ordered(v)
<1> DEFINE D == DOMAIN nodes
           todo == w[1].todo
           kids == Children(nodes, w[1].id)
           ckids == Children(nodes, c)
<1>1. /\ OneTree(nodes) /\ Len(w) \in Nat /\ Len(w) >= 1 /\ 1 \in 1..Len(w)
      /\ \A i \in 1..Len(w) :
            /\ w[i].id \in D /\ w[i].todo \in Seq(D)
            /\ Children(nodes, w[i].id) \in Seq(D)
            /\ Len(Children(nodes, w[i].id)) \in Nat /\ Len(w[i].todo) \in Nat
  BY FramesOfWalk
<1>2. /\ c \in D /\ nodes[c].parent = w[1].id
      /\ Ancestors(nodes, c) = {c} \cup PathOf(w) /\ c \notin PathOf(w)
      /\ todo[1] = c /\ Len(todo) >= 1
      /\ kids[Behind(w[1]) + 1] = c
  BY NextNode
<1>3. ckids \in Seq(D) /\ Len(ckids) \in Nat
  BY <1>2 DEF IsWalk, WholeTree
<1>4. /\ v \in Seq(Frames(D)) /\ v # <<>> /\ Len(v) = Len(w) + 1
      /\ v[1] = f /\ v[2] = g /\ \A i \in 3..Len(v) : v[i] = w[i - 1]
  BY DEF Pushed
<1>5. \A i \in 2..Len(v) : i - 1 \in 1..Len(w) /\ v[i].id = w[i - 1].id
  <2> SUFFICES ASSUME NEW i \in 2..Len(v) PROVE i - 1 \in 1..Len(w) /\ v[i].id = w[i - 1].id
    OBVIOUS
  <2>1. i - 1 \in 1..Len(w)
    BY <1>1, <1>4
  <2>2. CASE i = 2
    BY <1>4, <2>1, <2>2
  <2>3. CASE i # 2
    <3>1. i \in 3..Len(v)
      BY <1>1, <1>4, <2>3
    <3> QED BY <1>4, <2>1, <3>1
  <2> QED BY <2>2, <2>3
<1>6. /\ Len(g.todo) = Len(todo) - 1
      /\ \A j \in 1..Len(g.todo) : j + 1 \in 1..Len(todo) /\ g.todo[j] = todo[j + 1]
  BY <1>1, <1>2
<1>7. Ends(f)
  <2>1. Behind(f) = 0 /\ \A j \in 1..Len(f.todo) : 0 + j = j
    BY <1>3 DEF Behind
  <2> QED BY <1>3, <2>1 DEF Ends
<1>8. Ends(g) /\ Behind(g) = Behind(w[1]) + 1 /\ Behind(g) >= 1 /\ kids[Behind(g)] = c
  <2>1. /\ Behind(w[1]) \in 0..Len(kids) /\ Behind(w[1]) = Len(kids) - Len(todo)
        /\ Len(kids) \in Nat /\ Len(todo) \in Nat
        /\ \A j \in 1..Len(todo) : todo[j] = kids[Behind(w[1]) + j]
    BY <1>1 DEF IsWalk, OnPath, Ends, Behind
  <2>2. Behind(g) = Len(kids) - Len(g.todo)
    BY DEF Behind
  <2> HIDE DEF kids, todo
  <2>3. Behind(g) = Behind(w[1]) + 1 /\ Behind(g) \in 0..Len(kids) /\ Behind(g) >= 1
    BY <1>2, <1>6, <2>1, <2>2
  <2>4. \A j \in 1..Len(g.todo) : Behind(w[1]) + (j + 1) = Behind(g) + j
    BY <2>1, <2>3
  <2>5. \A j \in 1..Len(g.todo) : g.todo[j] = kids[Behind(g) + j]
    BY <1>6, <2>1, <2>4
  <2> QED BY <1>2, <2>3, <2>5 DEF Ends, kids
<1>9. OnPath(v)
  <2>1. ASSUME NEW i \in 1..Len(v) PROVE Ends(v[i])
    <3>1. CASE i = 1
      BY <1>4, <1>7, <3>1
    <3>2. CASE i = 2
      BY <1>4, <1>8, <3>2
    <3>3. CASE i # 1 /\ i # 2
      <4>1. i \in 3..Len(v) /\ i - 1 \in 1..Len(w)
        BY <1>1, <1>4, <3>3
      <4> QED BY <1>4, <4>1 DEF IsWalk, OnPath
    <3> QED BY <3>1, <3>2, <3>3
  <2>2. ASSUME NEW i \in 2..Len(v) PROVE Ancestors(nodes, v[i].id) = {v[j].id : j \in i..Len(v)}
    <3>1. i - 1 \in 1..Len(w) /\ v[i].id = w[i - 1].id
      BY <1>5
    <3>2. Ancestors(nodes, w[i - 1].id) = {w[j].id : j \in (i - 1)..Len(w)}
      BY <3>1 DEF IsWalk, OnPath
    <3>3. \A j \in i..Len(v) : j - 1 \in (i - 1)..Len(w) /\ v[j].id = w[j - 1].id
      BY <1>1, <1>4, <1>5
    <3>4. \A j \in (i - 1)..Len(w) : j + 1 \in i..Len(v) /\ w[j].id = v[j + 1].id
      <4> TAKE j \in (i - 1)..Len(w)
      <4>1. j + 1 \in i..Len(v) /\ (j + 1) - 1 = j
        BY <1>1, <1>4
      <4> QED BY <3>3, <4>1
    <3>5. ASSUME NEW x \in {w[j].id : j \in (i - 1)..Len(w)} PROVE x \in {v[j].id : j \in i..Len(v)}
      <4>1. PICK j \in (i - 1)..Len(w) : x = w[j].id
        OBVIOUS
      <4> QED BY <3>4, <4>1
    <3>6. ASSUME NEW x \in {v[j].id : j \in i..Len(v)} PROVE x \in {w[j].id : j \in (i - 1)..Len(w)}
      <4>1. PICK j \in i..Len(v) : x = v[j].id
        OBVIOUS
      <4> QED BY <3>3, <4>1
    <3> QED BY <3>1, <3>2, <3>5, <3>6
  <2>3. Ancestors(nodes, v[1].id) = {v[j].id : j \in 1..Len(v)}
    <3>1. \A j \in 1..Len(v) : j = 1 \/ (j - 1 \in 1..Len(w) /\ v[j].id = w[j - 1].id)
      <4> TAKE j \in 1..Len(v)
      <4>1. j # 1 => j \in 2..Len(v)
        BY <1>1, <1>4
      <4> QED BY <1>5, <4>1
    <3>2. \A j \in 1..Len(w) : j + 1 \in 1..Len(v) /\ w[j].id = v[j + 1].id
      <4> TAKE j \in 1..Len(w)
      <4>1. j + 1 \in 2..Len(v) /\ j + 1 \in 1..Len(v) /\ (j + 1) - 1 = j
        BY <1>1, <1>4
      <4> QED BY <1>5, <4>1
    <3>3. 1 \in 1..Len(v) /\ v[1].id = c
      BY <1>1, <1>4
    <3>4. ASSUME NEW j \in 1..Len(w) PROVE w[j].id \in {v[k].id : k \in 1..Len(v)}
      BY <3>2
    <3>5. ASSUME NEW j \in 1..Len(v) PROVE v[j].id \in {c} \cup {w[k].id : k \in 1..Len(w)}
      BY <3>1, <3>3
    <3>6. c \in {v[k].id : k \in 1..Len(v)}
      BY <3>3
    <3>7. {c} \cup {w[j].id : j \in 1..Len(w)} = {v[j].id : j \in 1..Len(v)}
      BY <3>4, <3>5, <3>6
    <3> QED BY <1>2, <3>3, <3>7 DEF PathOf
  <2>4. ASSUME NEW i \in 2..Len(v)
        PROVE  Behind(v[i]) >= 1 /\ Children(nodes, v[i].id)[Behind(v[i])] = v[i - 1].id
    <3>1. CASE i = 2
      BY <1>4, <1>8, <3>1
    <3>2. CASE i # 2
      <4>1. i \in 3..Len(v) /\ i - 1 \in 2..Len(w) /\ i - 1 \in 2..Len(v) /\ (i - 1) - 1 \in 1..Len(w)
        BY <1>1, <1>4, <3>2
      <4>2. v[i] = w[i - 1] /\ v[i - 1].id = w[(i - 1) - 1].id
        BY <1>4, <1>5, <4>1
      <4> QED BY <4>1, <4>2 DEF IsWalk, OnPath
    <3> QED BY <3>1, <3>2
  <2>5. \A i \in 1..Len(v) : Ancestors(nodes, v[i].id) = {v[j].id : j \in i..Len(v)}
    <3> TAKE i \in 1..Len(v)
    <3>1. i = 1 \/ i \in 2..Len(v)
      BY <1>1, <1>4
    <3> QED BY <2>2, <2>3, <3>1
  <2> QED BY <2>1, <2>4, <2>5 DEF OnPath
<1>10. PathOf(v) = PathOf(w) \cup {c}
  <2>1. 1 \in 1..Len(v)
    BY <1>1, <1>4
  <2>2. Ancestors(nodes, v[1].id) = PathOf(v)
    BY <1>9, <2>1 DEF OnPath, PathOf
  <2> QED BY <1>2, <1>4, <2>2
<1>11. Ahead(v) = Ahead(w) \ {c}
  <2>1. ASSUME NEW n \in D, Awaits(f, n) PROVE n \in Ahead(w) /\ n # c
    <3>1. PICK j \in 1..Len(ckids) : ckids[j] \in Ancestors(nodes, n)
      BY <2>1 DEF Awaits
    <3>2. c \in Ancestors(nodes, n) /\ n # c
      BY <1>2, <3>1, BelowChild DEF IsWalk
    <3>3. Awaits(w[1], n)
      BY <1>1, <1>2, <3>2 DEF Awaits
    <3> QED BY <1>1, <3>2, <3>3 DEF Ahead
  <2>2. ASSUME NEW n \in D, NEW i \in 1..Len(w), NEW j \in 1..Len(w[i].todo),
               ~(i = 1 /\ j = 1), w[i].todo[j] \in Ancestors(nodes, n)
        PROVE  n \in Ahead(w) /\ n # c
    <3>1. n # c
      BY <2>2, OthersApart
    <3>2. Awaits(w[i], n)
      BY <2>2 DEF Awaits
    <3> QED BY <3>1, <3>2 DEF Ahead
  <2>4. ASSUME NEW n \in D, Awaits(g, n) PROVE n \in Ahead(w) /\ n # c
    <3>1. PICK j \in 1..Len(g.todo) : g.todo[j] \in Ancestors(nodes, n)
      BY <2>4 DEF Awaits
    <3>2. j + 1 \in 1..Len(todo) /\ todo[j + 1] = g.todo[j] /\ j + 1 # 1
      BY <1>6
    <3> QED BY <1>1, <2>2, <3>1, <3>2
  <2>5. ASSUME NEW n \in Ahead(v) PROVE n \in Ahead(w) /\ n # c
    <3>1. n \in D
      BY DEF Ahead
    <3>2. PICK i \in 1..Len(v) : Awaits(v[i], n)
      BY DEF Ahead
    <3>3. CASE i = 1
      BY <1>4, <2>1, <3>1, <3>2, <3>3
    <3>4. CASE i = 2
      BY <1>4, <2>4, <3>1, <3>2, <3>4
    <3>5. CASE i # 1 /\ i # 2
      <4>1. i \in 3..Len(v) /\ i - 1 \in 1..Len(w) /\ i - 1 # 1
        BY <1>1, <1>4, <3>5
      <4>2. v[i] = w[i - 1]
        BY <1>4, <4>1
      <4>3. PICK j \in 1..Len(w[i - 1].todo) : w[i - 1].todo[j] \in Ancestors(nodes, n)
        BY <3>2, <4>2 DEF Awaits
      <4> QED BY <2>2, <3>1, <4>1, <4>3
    <3> QED BY <3>3, <3>4, <3>5
  <2>6. ASSUME NEW n \in Ahead(w), n # c PROVE n \in Ahead(v)
    <3>1. n \in D
      BY DEF Ahead
    <3>2. PICK i \in 1..Len(w) : Awaits(w[i], n)
      BY DEF Ahead
    <3>3. PICK j \in 1..Len(w[i].todo) : w[i].todo[j] \in Ancestors(nodes, n)
      BY <3>2 DEF Awaits
    <3>4. CASE i = 1 /\ j = 1
      <4>1. Awaits(f, n)
        BY <1>2, <2>6, <3>1, <3>3, <3>4, BelowChild DEF IsWalk, Awaits
      <4>2. 1 \in 1..Len(v)
        BY <1>1, <1>4
      <4> QED BY <1>4, <3>1, <4>1, <4>2 DEF Ahead
    <3>5. CASE i = 1 /\ j # 1
      <4>1. j # 1
        BY <3>5
      <4>2. j - 1 \in 1..Len(g.todo) /\ (j - 1) + 1 = j
        BY <1>1, <1>6, <3>5, <4>1
      <4>3. Awaits(g, n)
        BY <1>6, <3>3, <3>5, <4>2 DEF Awaits
      <4>4. 2 \in 1..Len(v)
        BY <1>1, <1>4
      <4> QED BY <1>4, <3>1, <4>3, <4>4 DEF Ahead
    <3>6. CASE i # 1
      <4>1. i + 1 \in 3..Len(v) /\ i + 1 \in 1..Len(v) /\ (i + 1) - 1 = i
        BY <1>1, <1>4, <3>6
      <4> QED BY <1>4, <3>1, <3>2, <4>1 DEF Ahead
    <3> QED BY <3>4, <3>5, <3>6
  <2> QED BY <2>5, <2>6
<1>12. IsWalk(v)
  BY <1>4, <1>9 DEF IsWalk
<1>13. ASSUME Ordered(w) PROVE Ordered(v)
  BY <1>2, <1>11, <1>13, NextIsFirst DEF Ordered, Met
<1> QED BY <1>10, <1>11, <1>12, <1>13

\* A node taken from those ahead is one more behind.
LEMMA BehindAdvances ==
    ASSUME NEW f, NEW g, g.id = f.id, Ends(f), Len(Children(nodes, f.id)) \in Nat,
           Len(f.todo) \in Nat, Len(f.todo) >= 1, Len(g.todo) = Len(f.todo) - 1
    PROVE  /\ Behind(g) = Behind(f) + 1 /\ Behind(g) \in 1..Len(Children(nodes, f.id))
           /\ Behind(g) = Len(Children(nodes, f.id)) - Len(g.todo) /\ Len(g.todo) \in Nat
<1> DEFINE k == Len(Children(nodes, f.id))
           t == Len(f.todo)
           u == Len(g.todo)
<1>1. k \in Nat /\ t \in Nat /\ t >= 1 /\ u = t - 1
  OBVIOUS
<1>2. Behind(f) = k - t /\ Behind(g) = k - u /\ Behind(f) >= 0
  BY DEF Behind, Ends
<1> HIDE DEF k, t, u
<1>3. Behind(g) = Behind(f) + 1 /\ Behind(g) \in 1..k /\ Behind(g) = k - u /\ u \in Nat
  BY <1>1, <1>2
<1> QED BY <1>3 DEF k, u

\* The frames of a walk without the innermost one.
LEMMA TailFrames ==
    ASSUME NEW S, NEW w \in Seq(S), Len(w) > 1
    PROVE  /\ Tail(w) \in Seq(S) /\ Tail(w) # <<>> /\ Len(Tail(w)) \in Nat
           /\ Len(Tail(w)) = Len(w) - 1 /\ 1 \in 1..Len(Tail(w))
           /\ \A i \in 1..Len(Tail(w)) : i + 1 \in 2..Len(w) /\ i + 1 \in 1..Len(w) /\ Tail(w)[i] = w[i + 1]
<1>1. Len(w) \in Nat /\ Tail(w) \in Seq(S) /\ Len(Tail(w)) = Len(w) - 1
  OBVIOUS
<1>2. \A i \in 1..Len(Tail(w)) : i + 1 \in 2..Len(w) /\ i + 1 \in 1..Len(w) /\ Tail(w)[i] = w[i + 1]
  OBVIOUS
<1> DEFINE n == Len(Tail(w))
<1>3. n = Len(w) - 1 /\ n \in Nat
  BY <1>1
<1> HIDE DEF n
<1>4. n # 0 /\ 1 \in 1..n
  BY <1>1, <1>3
<1>5. Tail(w) # <<>>
  <2>1. n # 0
    BY <1>4
  <2>2. ASSUME NEW v, v = <<>> PROVE Len(v) = 0
    BY <2>2
  <2> QED BY <2>1, <2>2 DEF n
<1> QED BY <1>1, <1>2, <1>3, <1>4, <1>5 DEF n

\* The places of a frame and of its neighbours with and without the innermost one.
LEMMA PlaceInTail ==
    ASSUME NEW m \in Nat, NEW k, k = m - 1, NEW i \in 2..k
    PROVE  i \in 1..k /\ i - 1 \in 1..k /\ i + 1 \in 2..m /\ (i - 1) + 1 = i /\ (i + 1) - 1 = i
  OBVIOUS

\* A step up: nothing is met by it, and the node that is left is off the path.
LEMMA WalkAscends ==
    ASSUME NEW w, IsWalk(w), w[1].todo = <<>>, Len(w) > 1, NEW v, v = Tail(w)
    PROVE  /\ IsWalk(v) /\ Ahead(v) = Ahead(w)
           /\ PathOf(w) = PathOf(v) \cup {w[1].id} /\ w[1].id \notin PathOf(v)
<1> DEFINE D == DOMAIN nodes
<1>1. /\ OneTree(nodes) /\ w \in Seq(Frames(D)) /\ Len(w) \in Nat /\ 1 \in 1..Len(w) /\ 2 \in 1..Len(w)
      /\ \A i \in 1..Len(w) :
            /\ w[i].id \in D /\ w[i].todo \in Seq(D) /\ Children(nodes, w[i].id) \in Seq(D)
            /\ Len(Children(nodes, w[i].id)) \in Nat /\ Len(w[i].todo) \in Nat
  BY FramesOfWalk DEF IsWalk
<1>2. /\ v \in Seq(Frames(D)) /\ Len(v) = Len(w) - 1
      /\ \A i \in 1..Len(v) : i + 1 \in 2..Len(w) /\ i + 1 \in 1..Len(w) /\ v[i] = w[i + 1]
  BY <1>1, TailFrames
<1>3. v # <<>> /\ 1 \in 1..Len(v)
  BY <1>1, TailFrames
<1>4. \A i \in 2..Len(w) : i - 1 \in 1..Len(v) /\ w[i] = v[i - 1]
  <2> TAKE i \in 2..Len(w)
  <2>1. i - 1 \in 1..Len(v) /\ (i - 1) + 1 = i
    BY <1>1, <1>2
  <2> QED BY <1>2, <2>1
<1>5. ASSUME NEW i \in 1..Len(v) PROVE Ancestors(nodes, v[i].id) = {v[j].id : j \in i..Len(v)}
  <2>1. Ancestors(nodes, w[i + 1].id) = {w[j].id : j \in (i + 1)..Len(w)}
    BY <1>2 DEF IsWalk, OnPath
  <2>2. \A j \in i..Len(v) : j + 1 \in (i + 1)..Len(w) /\ v[j].id = w[j + 1].id
    <3> TAKE j \in i..Len(v)
    <3>1. j \in 1..Len(v) /\ j + 1 \in (i + 1)..Len(w)
      BY <1>1, <1>2
    <3> QED BY <1>2, <3>1
  <2>3. \A j \in (i + 1)..Len(w) : j - 1 \in i..Len(v) /\ w[j].id = v[j - 1].id
    <3> TAKE j \in (i + 1)..Len(w)
    <3>1. j \in 2..Len(w) /\ j - 1 \in i..Len(v)
      BY <1>1, <1>2
    <3> QED BY <1>4, <3>1
  <2>4. ASSUME NEW x \in {w[j].id : j \in (i + 1)..Len(w)} PROVE x \in {v[j].id : j \in i..Len(v)}
    <3>1. PICK j \in (i + 1)..Len(w) : x = w[j].id
      OBVIOUS
    <3> QED BY <2>3, <3>1
  <2>5. ASSUME NEW x \in {v[j].id : j \in i..Len(v)} PROVE x \in {w[j].id : j \in (i + 1)..Len(w)}
    <3>1. PICK j \in i..Len(v) : x = v[j].id
      OBVIOUS
    <3> QED BY <2>2, <3>1
  <2> QED BY <1>2, <2>1, <2>4, <2>5
<1>6. ASSUME NEW i \in 2..Len(v)
      PROVE  Behind(v[i]) >= 1 /\ Children(nodes, v[i].id)[Behind(v[i])] = v[i - 1].id
  <2>1. i \in 1..Len(v) /\ i - 1 \in 1..Len(v) /\ i + 1 \in 2..Len(w) /\ (i - 1) + 1 = i /\ (i + 1) - 1 = i
    BY <1>1, <1>2, PlaceInTail
  <2>2. v[i] = w[i + 1] /\ v[i - 1] = w[i]
    BY <1>2, <2>1
  <2> QED BY <2>1, <2>2 DEF IsWalk, OnPath
<1>7. IsWalk(v)
  <2>1. \A i \in 1..Len(v) : Ends(v[i])
    BY <1>2 DEF IsWalk, OnPath
  <2> QED BY <1>2, <1>3, <1>5, <1>6, <2>1 DEF IsWalk, OnPath
<1>8. Ahead(v) = Ahead(w)
  <2>1. \A n : ~Awaits(w[1], n)
    <3>1. Len(w[1].todo) = 0
      BY <1>1
    <3> QED BY <3>1 DEF Awaits
  <2>2. ASSUME NEW n \in Ahead(w) PROVE n \in Ahead(v)
    <3>1. n \in D
      BY DEF Ahead
    <3>2. PICK i \in 1..Len(w) : Awaits(w[i], n)
      BY DEF Ahead
    <3>3. i \in 2..Len(w)
      <4>1. i # 1
        BY <2>1, <3>2
      <4> QED BY <1>1, <4>1
    <3> QED BY <1>4, <3>1, <3>2, <3>3 DEF Ahead
  <2>3. ASSUME NEW n \in Ahead(v) PROVE n \in Ahead(w)
    BY <1>2 DEF Ahead
  <2> QED BY <2>2, <2>3
<1>9. PathOf(w) = PathOf(v) \cup {w[1].id}
  <2>1. ASSUME NEW x \in PathOf(w) PROVE x \in PathOf(v) \cup {w[1].id}
    <3>1. PICK i \in 1..Len(w) : x = w[i].id
      BY DEF PathOf
    <3>2. i # 1 => i \in 2..Len(w)
      BY <1>1
    <3> QED BY <1>4, <3>1, <3>2 DEF PathOf
  <2>2. ASSUME NEW x \in PathOf(v) PROVE x \in PathOf(w)
    BY <1>2 DEF PathOf
  <2> QED BY <1>1, <2>1, <2>2 DEF PathOf
<1>10. w[1].id \notin PathOf(v)
  <2>1. 2 \in 2..Len(w) /\ 2 - 1 = 1
    BY <1>1
  <2>2. /\ Behind(w[2]) >= 1 /\ Children(nodes, w[2].id)[Behind(w[2])] = w[1].id
        /\ Behind(w[2]) \in 0..Len(Children(nodes, w[2].id))
    BY <1>1, <2>1 DEF IsWalk, OnPath, Ends
  <2>3. Behind(w[2]) \in 1..Len(Children(nodes, w[2].id))
    BY <2>2
  <2>4. nodes[w[1].id].parent = w[2].id
    BY <1>1, <2>2, <2>3, ChildrenMeant
  <2>5. w[1].id \notin Ancestors(nodes, w[2].id)
    BY <1>1, <2>4 DEF OneTree, IsForest, Acyclic
  <2>6. v[1] = w[2]
    BY <1>2, <1>3
  <2>7. Ancestors(nodes, v[1].id) = PathOf(v)
    BY <1>3, <1>5 DEF PathOf
  <2> QED BY <2>5, <2>6, <2>7
<1> QED BY <1>7, <1>8, <1>9, <1>10

\* The walk of a module begins with everything but its root ahead.
LEMMA WalkBegins ==
    ASSUME WholeTree, NEW f \in Frames(DOMAIN nodes), f.id = Root, f.todo = Children(nodes, Root),
           NEW v, v = <<f>>
    PROVE  /\ IsWalk(v) /\ PathOf(v) = {Root} /\ Ahead(v) = DOMAIN nodes \ {Root} /\ Ordered(v)
<1> DEFINE D == DOMAIN nodes
           kids == Children(nodes, Root)
<1>1. v \in Seq(Frames(D)) /\ Len(v) = 1 /\ v[1] = f /\ v # <<>>
  OBVIOUS
<1>2. OneTree(nodes) /\ Root \in D /\ kids \in Seq(D) /\ Len(kids) \in Nat
  BY DEF WholeTree, OneTree
<1>3. Ancestors(nodes, Root) = {Root}
  BY <1>2, AncestorsStep DEF OneTree, IsForest, Acyclic
<1>4. Ends(f)
  <2>1. Behind(f) = 0 /\ \A j \in 1..Len(f.todo) : 0 + j = j
    BY <1>2 DEF Behind
  <2> QED BY <1>2, <2>1 DEF Ends
<1>5. PathOf(v) = {Root} /\ \A i \in 1..Len(v) : i = 1 /\ {v[j].id : j \in i..Len(v)} = {Root}
  BY <1>1 DEF PathOf
<1>6. IsWalk(v)
  <2>1. \A i \in 2..Len(v) : FALSE
    BY <1>1
  <2> QED BY <1>1, <1>3, <1>4, <1>5, <2>1 DEF IsWalk, OnPath
<1>7. Ahead(v) = D \ {Root}
  <2>1. \A n \in D : Awaits(f, n) <=> n # Root
    <3> TAKE n \in D
    <3>1. Root \in Ancestors(nodes, n)
      BY <1>2, AncestorsStay
    <3> QED BY <1>2, <3>1, BelowChild DEF Awaits
  <2>2. \A n \in D : n \in Ahead(v) <=> Awaits(f, n)
    BY <1>1 DEF Ahead
  <2>3. Ahead(v) \subseteq D
    BY DEF Ahead
  <2> QED BY <2>1, <2>2, <2>3
<1>8. Ordered(v)
  <2> SUFFICES ASSUME NEW m \in Met(v), NEW n \in Ahead(v) PROVE Precedes(m, n)
    BY DEF Ordered
  <2>1. m = Root /\ n # Root /\ n \in D
    BY <1>2, <1>7 DEF Met
  <2>2. Root \in Ancestors(nodes, n)
    BY <1>2, <2>1, AncestorsStay
  <2> QED BY <2>1, <2>2 DEF Precedes
<1> QED BY <1>5, <1>6, <1>7, <1>8

InTodo(w, n) == \E j \in 1..Len(w[1].todo) : w[1].todo[j] = n

\* The loop over the functions passes the children of the root without entering them.
Passes(w, v, c) ==
    /\ IsWalk(w) /\ Len(w) = 1 /\ w[1].id = Root /\ w[1].todo # <<>> /\ c = Head(w[1].todo)
    /\ v \in Seq(Frames(DOMAIN nodes)) /\ Len(v) = 1
    /\ v[1] \in Frames(DOMAIN nodes) /\ v[1].id = Root /\ v[1].todo = Tail(w[1].todo)

\* A frame that passes a node without entering it: only that node is not ahead any more.
LEMMA WalkAdvances ==
    ASSUME NEW w, NEW v, NEW c, Passes(w, v, c)
    PROVE  /\ IsWalk(v)
           /\ \A n \in DOMAIN nodes : InTodo(v, n) <=> n # c /\ InTodo(w, n)
           /\ InTodo(w, c)
<1> DEFINE D == DOMAIN nodes
           g == v[1]
           todo == w[1].todo
           kids == Children(nodes, Root)
<1>0. /\ IsWalk(w) /\ Len(w) = 1 /\ w[1].id = Root /\ w[1].todo # <<>> /\ c = Head(w[1].todo)
      /\ v \in Seq(Frames(DOMAIN nodes)) /\ Len(v) = 1
      /\ g \in Frames(DOMAIN nodes) /\ g.id = Root /\ g.todo = Tail(w[1].todo)
  BY DEF Passes
<1> HIDE DEF g
<1>1. /\ OneTree(nodes) /\ 1 \in 1..Len(w) /\ Root \in D
      /\ todo \in Seq(D) /\ kids \in Seq(D) /\ Len(kids) \in Nat /\ Len(todo) \in Nat
  BY <1>0, FramesOfWalk
<1>2. c \in D /\ todo[1] = c /\ Len(todo) >= 1 /\ kids[Behind(w[1]) + 1] = c
  BY <1>0, NextNode
<1>3. /\ Len(g.todo) = Len(todo) - 1
      /\ \A j \in 1..Len(g.todo) : j + 1 \in 1..Len(todo) /\ g.todo[j] = todo[j + 1]
  BY <1>0, <1>1, <1>2
<1>4. /\ Behind(w[1]) \in 0..Len(kids) /\ Behind(w[1]) = Len(kids) - Len(todo)
      /\ \A j \in 1..Len(todo) : todo[j] = kids[Behind(w[1]) + j]
  BY <1>0, <1>1 DEF IsWalk, OnPath, Ends, Behind
<1>5. /\ Behind(g) = Behind(w[1]) + 1 /\ Behind(g) \in 1..Len(kids) /\ Behind(g) = Len(kids) - Len(g.todo)
      /\ Len(g.todo) \in Nat
  <2>1. Ends(w[1])
    BY <1>0, <1>1 DEF IsWalk, OnPath
  <2>2. g.id = w[1].id
    BY <1>0
  <2>3. kids = Children(nodes, w[1].id)
    BY <1>0
  <2>4. /\ Len(Children(nodes, w[1].id)) \in Nat
        /\ Len(w[1].todo) \in Nat /\ Len(w[1].todo) >= 1 /\ Len(g.todo) = Len(w[1].todo) - 1
    BY <1>1, <1>2, <1>3
  <2>5. /\ Behind(g) = Behind(w[1]) + 1 /\ Behind(g) \in 1..Len(Children(nodes, w[1].id))
        /\ Behind(g) = Len(Children(nodes, w[1].id)) - Len(g.todo) /\ Len(g.todo) \in Nat
    BY <2>1, <2>2, <2>4, BehindAdvances, Zenon
  <2> HIDE DEF kids
  <2> QED BY <2>3, <2>5
<1>6. \A j \in 1..Len(g.todo) : g.todo[j] = kids[Behind(g) + j]
  <2>1. \A j \in 1..Len(g.todo) : Behind(w[1]) + (j + 1) = Behind(g) + j
    <3> HIDE DEF kids, todo
    <3> QED BY <1>4, <1>5
  <2> QED BY <1>3, <1>4, <2>1
<1>7. v \in Seq(Frames(D)) /\ Len(v) = 1 /\ v[1] = g /\ v # <<>>
  <2>1. ASSUME v = <<>> PROVE FALSE
    <3>1. Len(v) = 0
      BY <2>1
    <3> QED BY <1>0, <3>1
  <2> QED BY <1>0, <2>1 DEF g
<1>8. IsWalk(v)
  <2>1. \A i \in 2..Len(v) : FALSE
    BY <1>7
  <2>2. Ends(g)
    <3>1. Children(nodes, g.id) = kids
      BY <1>0
    <3>2. Behind(g) \in 0..Len(kids)
      BY <1>5
    <3> HIDE DEF kids
    <3> QED BY <1>6, <3>1, <3>2 DEF Ends
  <2>3. Ancestors(nodes, Root) = {Root}
    BY <1>1, AncestorsStep DEF OneTree, IsForest, Acyclic
  <2>4. \A i \in 1..Len(v) : i = 1 /\ {v[j].id : j \in i..Len(v)} = {Root}
    BY <1>0, <1>7
  <2> QED BY <1>0, <1>7, <2>1, <2>2, <2>3, <2>4 DEF IsWalk, OnPath
<1>9. ASSUME NEW j \in 1..Len(g.todo)
      PROVE  Behind(g) + j \in 1..Len(kids) /\ Behind(g) < Behind(g) + j
  <2>1. Behind(g) \in Int /\ Behind(g) >= 0
    BY <1>5
  <2> HIDE DEF kids
  <2> QED BY <1>1, <1>5, <2>1, PlaceBehind
<1>10. kids[Behind(g)] = c
  BY <1>2, <1>5
<1>11. ASSUME NEW j \in 1..Len(g.todo) PROVE Precedes(c, g.todo[j]) /\ g.todo[j] # c /\ g.todo[j] \in D
  <2>1. g.todo[j] \in D /\ kids[Behind(g) + j] = g.todo[j]
    BY <1>1, <1>3, <1>6
  <2>2. c \in Ancestors(nodes, c) /\ g.todo[j] \in Ancestors(nodes, g.todo[j])
    BY <1>1, <1>2, <2>1, AncestorsStay
  <2>3. Precedes(c, g.todo[j])
    BY <1>1, <1>2, <1>5, <1>9, <1>10, <1>0, <2>1, <2>2, KidsPrecede DEF IsWalk
  <2> QED BY <1>0, <1>2, <2>1, <2>3, PrecedesOneWay DEF IsWalk
<1>12. ASSUME NEW n \in D, n # c, NEW j \in 1..Len(todo), todo[j] = n
       PROVE  \E i \in 1..Len(g.todo) : g.todo[i] = n
  <2>1. j # 1
    BY <1>2, <1>12
  <2>2. j - 1 \in 1..Len(g.todo) /\ (j - 1) + 1 = j
    BY <1>1, <1>3, <2>1
  <2> QED BY <1>3, <1>12, <2>2
<1>13. ASSUME NEW n \in D PROVE InTodo(v, n) <=> n # c /\ InTodo(w, n)
  <2>1. ASSUME InTodo(v, n) PROVE n # c /\ InTodo(w, n)
    <3>1. PICK j \in 1..Len(g.todo) : g.todo[j] = n
      BY <1>7, <2>1 DEF InTodo
    <3>2. j + 1 \in 1..Len(todo) /\ todo[j + 1] = n
      BY <1>3, <3>1
    <3>3. n # c
      BY <1>11, <3>1
    <3> QED BY <3>2, <3>3 DEF InTodo
  <2>2. ASSUME n # c, InTodo(w, n) PROVE InTodo(v, n)
    <3>1. PICK j \in 1..Len(todo) : todo[j] = n
      BY <2>2 DEF InTodo
    <3>2. PICK i \in 1..Len(g.todo) : g.todo[i] = n
      BY <1>12, <2>2, <3>1
    <3> QED BY <1>7, <3>2 DEF InTodo
  <2> QED BY <2>1, <2>2
<1>14. InTodo(w, c)
  <2>1. 1 \in 1..Len(todo)
    BY <1>1, <1>2
  <2> QED BY <1>2, <2>1 DEF InTodo
<1> QED BY <1>8, <1>13, <1>14

-------------------------------------------------------------------------------
(* What the table holds *)

Ids(s) == {s[k].id : k \in 1..Len(s)}
IsLocal(d) == nodes[d].type \in Declarations

\* before the walk: the functions of the module that are passed
FunctionTable(w, s) == \A d \in DOMAIN nodes : d \in Ids(s) <=> Hoisted(d) /\ ~InTodo(w, d)

\* during the walk: all of them, and the declarations met whose scope is open
ScopeTable(w, s) ==
    \A d \in DOMAIN nodes :
        d \in Ids(s) <=> Hoisted(d) \/ (IsLocal(d) /\ d \in Met(w) /\ ScopeOf(d) \in PathOf(w))

\* A frame remembers the size of the table in front of what it declares.
Sizes(w, s) ==
    \A i \in 1..Len(w), k \in 1..Len(s) :
        k > w[i].size <=> ~Hoisted(s[k].id) /\ w[i].id \in Ancestors(nodes, s[k].id)

\* The scope of a local declaration is a node strictly above it.
LEMMA LocalNotRoot ==
    ASSUME WholeTree, NEW d \in DOMAIN nodes, IsLocal(d)
    PROVE  /\ d # Root /\ ~Hoisted(d) /\ ~Closes(d)
           /\ ScopeOf(d) \in Ancestors(nodes, d) /\ ScopeOf(d) # d /\ Closes(ScopeOf(d))
           /\ \A b \in Ancestors(nodes, d) : Closes(b) => b \in Ancestors(nodes, ScopeOf(d))
<1>1. d # Root /\ ~Hoisted(d) /\ ~Closes(d)
  BY DEF WholeTree, IsLocal, Declarations, Hoisted, Closes, Scopes
<1>2. ScopeOf(d) \in Closed(d) /\ \A b \in Closed(d) : b \in Ancestors(nodes, ScopeOf(d))
  BY <1>1, ScopeOfInnermost
<1>3. \A b \in Ancestors(nodes, d) : Closes(b) => b \in Closed(d)
  BY <1>1 DEF Closed
<1> QED BY <1>1, <1>2, <1>3 DEF Closed

\* The declarations in the table are those in scope at the next node.
LEMMA TableIsScope ==
    ASSUME NEW w, IsWalk(w), Ordered(w), w[1].todo # <<>>, NEW c, c = Head(w[1].todo), ~Closes(c),
           NEW s, ScopeTable(w, s),
           NEW d \in DOMAIN nodes, Declares(d), d # c
    PROVE  d \in Ids(s) <=> InScope(d, c)
<1>1. /\ c \in DOMAIN nodes /\ Ancestors(nodes, c) = {c} \cup PathOf(w)
      /\ d \in Met(w) <=> Precedes(d, c)
  BY NextNode, NextIsFirst
<1>2. WholeTree
  BY DEF IsWalk
<1>3. CASE Hoisted(d)
  BY <1>1, <1>2, <1>3, HoistedInScope DEF ScopeTable
<1>4. CASE ~Hoisted(d)
  <2>1. IsLocal(d)
    BY <1>4 DEF Declares, IsLocal, Declarations
  <2>2. ScopeOf(d) # c
    BY <1>2, <2>1, LocalNotRoot
  <2>3. ScopeOf(d) \in Ancestors(nodes, c) <=> ScopeOf(d) \in PathOf(w)
    BY <1>1, <2>2
  <2> QED BY <1>1, <1>4, <2>1, <2>3 DEF ScopeTable, InScope
<1> QED BY <1>3, <1>4

\* The table at the next node, which may have opened a scope.
LEMMA ScopesDescend ==
    ASSUME NEW w, IsWalk(w), w[1].todo # <<>>, NEW c, c = Head(w[1].todo),
           NEW v, PathOf(v) = PathOf(w) \cup {c}, Ahead(v) = Ahead(w) \ {c},
           NEW d \in DOMAIN nodes, IsLocal(d), d # c
    PROVE  (d \in Met(v) /\ ScopeOf(d) \in PathOf(v)) <=> (d \in Met(w) /\ ScopeOf(d) \in PathOf(w))
<1>1. Len(w[1].todo) >= 1 /\ w[1].todo[1] = c /\ 1 \in 1..Len(w) /\ Len(w[1].todo) \in Nat
  BY NextNode, FramesOfWalk
<1>2. ScopeOf(d) \in Ancestors(nodes, d)
  BY LocalNotRoot DEF IsWalk
<1>3. ScopeOf(d) = c => d \in Ahead(w)
  <2>1. 1 \in 1..Len(w[1].todo)
    BY <1>1
  <2> QED BY <1>1, <1>2, <2>1 DEF Ahead, Awaits
<1>4. d \in Met(v) <=> d \in Met(w)
  BY DEF Met
<1>5. d \in Met(w) => ScopeOf(d) # c
  BY <1>3 DEF Met
<1> QED BY <1>4, <1>5

\* The next node is not below a declaration in the table, functions excepted.
LEMMA EntryHasSize ==
    ASSUME NEW w, IsWalk(w), w[1].todo # <<>>, NEW c, c = Head(w[1].todo),
           NEW s, ScopeTable(w, s), NEW k \in 1..Len(s), s[k].id \in DOMAIN nodes
    PROVE  Hoisted(s[k].id) \/ c \notin Ancestors(nodes, s[k].id)
<1>1. Len(w[1].todo) >= 1 /\ w[1].todo[1] = c /\ 1 \in 1..Len(w) /\ Len(w[1].todo) \in Nat
  BY NextNode, FramesOfWalk
<1>2. s[k].id \in Ids(s)
  BY DEF Ids
<1>3. Hoisted(s[k].id) \/ s[k].id \in Met(w)
  BY <1>2 DEF ScopeTable
<1>4. c \in Ancestors(nodes, s[k].id) => s[k].id \in Ahead(w)
  <2>1. 1 \in 1..Len(w[1].todo)
    BY <1>1
  <2> QED BY <1>1, <2>1 DEF Ahead, Awaits
<1> QED BY <1>3, <1>4 DEF Met

\* A node that is not a declaration leaves the table alone.
LEMMA TableEnters ==
    ASSUME NEW w, IsWalk(w), w[1].todo # <<>>, NEW c, c = Head(w[1].todo), ~IsLocal(c),
           NEW s, Len(s) \in Nat, \A k \in 1..Len(s) : s[k].id \in DOMAIN nodes,
           ScopeTable(w, s), Sizes(w, s),
           NEW f, f.id = c, f.size = Len(s), NEW g, g.id = w[1].id, g.size = w[1].size,
           NEW v, Pushed(v, w, f, g), PathOf(v) = PathOf(w) \cup {c}, Ahead(v) = Ahead(w) \ {c}
    PROVE  ScopeTable(v, s) /\ Sizes(v, s)
<1>1. ScopeTable(v, s)
  <2>1. ASSUME NEW d \in DOMAIN nodes, IsLocal(d)
        PROVE  (d \in Met(v) /\ ScopeOf(d) \in PathOf(v)) <=> (d \in Met(w) /\ ScopeOf(d) \in PathOf(w))
    BY <2>1, ScopesDescend
  <2> QED BY <2>1 DEF ScopeTable
<1>2. ASSUME NEW i \in 1..Len(v), NEW k \in 1..Len(s)
      PROVE  k > v[i].size <=> ~Hoisted(s[k].id) /\ v[i].id \in Ancestors(nodes, s[k].id)
  <2>1. Len(w) \in Nat /\ Len(w) >= 1 /\ 1 \in 1..Len(w)
    BY FramesOfWalk
  <2>2. Len(v) = Len(w) + 1 /\ v[1] = f /\ v[2] = g /\ \A j \in 3..Len(v) : v[j] = w[j - 1]
    BY DEF Pushed
  <2>3. CASE i = 1
    <3>1. ~(k > v[i].size)
      BY <2>2, <2>3
    <3>2. Hoisted(s[k].id) \/ c \notin Ancestors(nodes, s[k].id)
      BY EntryHasSize
    <3> QED BY <2>2, <2>3, <3>1, <3>2
  <2>4. CASE i = 2
    BY <2>1, <2>2, <2>4 DEF Sizes
  <2>5. CASE i # 1 /\ i # 2
    <3>1. i \in 3..Len(v) /\ i - 1 \in 1..Len(w)
      BY <2>1, <2>2, <2>5
    <3> QED BY <2>2, <3>1 DEF Sizes
  <2> QED BY <2>3, <2>4, <2>5
<1> QED BY <1>1, <1>2 DEF Sizes

\* t is table s with a declaration more
Entered(t, s, c) ==
    /\ Len(t) = Len(s) + 1 /\ t[Len(s) + 1].id = c
    /\ \A k \in 1..Len(s) : t[k] = s[k]

\* A declaration is entered behind what the frames remember.
LEMMA TableDefines ==
    ASSUME NEW w, IsWalk(w), w[1].todo # <<>>, NEW c, c = Head(w[1].todo), IsLocal(c),
           NEW s, Len(s) \in Nat, \A k \in 1..Len(s) : s[k].id \in DOMAIN nodes,
           ScopeTable(w, s), Sizes(w, s), \A i \in 1..Len(w) : w[i].size <= Len(s),
           NEW f, f.id = c, f.size = Len(s), NEW g, g.id = w[1].id, g.size = w[1].size,
           NEW v, Pushed(v, w, f, g), PathOf(v) = PathOf(w) \cup {c}, Ahead(v) = Ahead(w) \ {c},
           NEW t, Entered(t, s, c)
    PROVE  ScopeTable(v, t) /\ Sizes(v, t)
<1>0. Len(t) = Len(s) + 1 /\ t[Len(s) + 1].id = c /\ \A k \in 1..Len(s) : t[k] = s[k]
  BY DEF Entered
<1>1. /\ c \in DOMAIN nodes /\ Ancestors(nodes, c) = {c} \cup PathOf(w)
  BY NextNode
<1>2. ~Hoisted(c) /\ ScopeOf(c) \in Ancestors(nodes, c) /\ ScopeOf(c) # c
  BY <1>1, LocalNotRoot DEF IsWalk
<1>3. \A d : d \in Ids(t) <=> d \in Ids(s) \/ d = c
  <2>1. \A k \in 1..Len(t) : k \in 1..Len(s) \/ k = Len(s) + 1
    BY <1>0
  <2>2. Len(s) + 1 \in 1..Len(t) /\ \A k \in 1..Len(s) : k \in 1..Len(t)
    BY <1>0
  <2>3. ASSUME NEW d \in Ids(t) PROVE d \in Ids(s) \/ d = c
    <3>1. PICK k \in 1..Len(t) : d = t[k].id
      BY DEF Ids
    <3> QED BY <1>0, <2>1, <3>1 DEF Ids
  <2>4. ASSUME NEW d \in Ids(s) PROVE d \in Ids(t)
    <3>1. PICK k \in 1..Len(s) : d = s[k].id
      BY DEF Ids
    <3> QED BY <1>0, <2>2, <3>1 DEF Ids
  <2>5. c \in Ids(t)
    BY <1>0, <2>2 DEF Ids
  <2> QED BY <2>3, <2>4, <2>5
<1>4. ScopeTable(v, t)
  <2> SUFFICES ASSUME NEW d \in DOMAIN nodes
               PROVE  d \in Ids(t) <=> Hoisted(d) \/ (IsLocal(d) /\ d \in Met(v) /\ ScopeOf(d) \in PathOf(v))
    BY DEF ScopeTable
  <2>1. CASE d = c
    BY <1>1, <1>2, <1>3, <2>1 DEF Met
  <2>2. CASE d # c
    BY <1>3, <2>2, ScopesDescend DEF ScopeTable
  <2> QED BY <2>1, <2>2
<1>5. ASSUME NEW i \in 1..Len(v), NEW k \in 1..Len(t)
      PROVE  k > v[i].size <=> ~Hoisted(t[k].id) /\ v[i].id \in Ancestors(nodes, t[k].id)
  <2>1. Len(w) \in Nat /\ Len(w) >= 1 /\ 1 \in 1..Len(w) /\ \A j \in 1..Len(w) : w[j].size \in Nat
    BY FramesOfWalk
  <2>2. Len(v) = Len(w) + 1 /\ v[1] = f /\ v[2] = g /\ \A j \in 3..Len(v) : v[j] = w[j - 1]
    BY DEF Pushed
  <2>3. v[i].id \in PathOf(v) /\ v[i].size <= Len(s) /\ v[i].size \in Nat
    <3>1. i = 1 \/ i = 2 \/ (i \in 3..Len(v) /\ i - 1 \in 1..Len(w))
      BY <2>1, <2>2
    <3> QED BY <2>1, <2>2, <3>1 DEF PathOf
  <2>4. CASE k = Len(s) + 1
    <3>1. v[i].id \in Ancestors(nodes, c)
      BY <1>1, <2>3
    <3>2. k > v[i].size
      BY <2>3, <2>4
    <3> QED BY <1>0, <1>2, <2>4, <3>1, <3>2
  <2>5. CASE k # Len(s) + 1
    <3>1. k \in 1..Len(s) /\ t[k] = s[k]
      BY <1>0, <2>5
    <3>2. CASE i = 1
      <4>1. ~(k > v[i].size)
        BY <2>2, <3>1, <3>2
      <4>2. Hoisted(s[k].id) \/ c \notin Ancestors(nodes, s[k].id)
        BY <3>1, EntryHasSize
      <4> QED BY <2>2, <3>1, <3>2, <4>1, <4>2
    <3>3. CASE i = 2
      BY <2>1, <2>2, <3>1, <3>3 DEF Sizes
    <3>4. CASE i # 1 /\ i # 2
      <4>1. i \in 3..Len(v) /\ i - 1 \in 1..Len(w)
        BY <2>1, <2>2, <3>4
      <4> QED BY <2>2, <3>1, <4>1 DEF Sizes
    <3> QED BY <3>2, <3>3, <3>4
  <2> QED BY <2>4, <2>5
<1> QED BY <1>4, <1>5 DEF Sizes

\* What is cut off at the end of a scope is what the scope declared.
LEMMA TableLeaves ==
    ASSUME NEW w, IsWalk(w), w[1].todo = <<>>, Len(w) > 1,
           NEW s, Len(s) \in Nat, \A k \in 1..Len(s) : s[k].id \in DOMAIN nodes,
           ScopeTable(w, s), Sizes(w, s), w[1].size <= Len(s),
           NEW v, v = Tail(w),
           NEW t, \A k \in 1..Len(t) : t[k] = s[k],
           Len(t) = IF nodes[w[1].id].type \in Scopes THEN w[1].size ELSE Len(s)
    PROVE  ScopeTable(v, t) /\ Sizes(v, t)
<1> DEFINE x == w[1].id
<1>1. /\ OneTree(nodes) /\ Len(w) \in Nat /\ 1 \in 1..Len(w)
      /\ x \in DOMAIN nodes /\ w[1].size \in Nat /\ w \in Seq(Frames(DOMAIN nodes))
  BY FramesOfWalk DEF IsWalk
<1>2. /\ IsWalk(v) /\ Ahead(v) = Ahead(w)
      /\ PathOf(w) = PathOf(v) \cup {x} /\ x \notin PathOf(v)
  BY WalkAscends
<1>3. /\ \A i \in 1..Len(v) : i + 1 \in 1..Len(w) /\ v[i] = w[i + 1]
      /\ 1 \in 1..Len(v)
  BY <1>1, TailFrames
<1>4. Len(t) \in Nat /\ Len(t) <= Len(s) /\ \A k \in 1..Len(t) : k \in 1..Len(s)
  BY <1>1
<1>5. x # Root /\ nodes[x].type # "MODULE"
  <2>1. Root \in Ancestors(nodes, v[1].id)
    BY <1>1, <1>2, <1>3, FramesOfWalk, AncestorsStay
  <2>2. Ancestors(nodes, v[1].id) = PathOf(v)
    BY <1>2, <1>3 DEF IsWalk, OnPath, PathOf
  <2> QED BY <1>1, <1>2, <2>1, <2>2 DEF IsWalk, WholeTree
<1>6. Ancestors(nodes, x) = PathOf(w)
  BY <1>1 DEF IsWalk, OnPath, PathOf
<1>7. ASSUME NEW d \in DOMAIN nodes PROVE d \in Ids(t) <=> d \in Ids(s) /\
         (nodes[x].type \in Scopes => Hoisted(d) \/ x \notin Ancestors(nodes, d))
  <2>1. CASE nodes[x].type \in Scopes
    <3>1. Len(t) = w[1].size
      BY <2>1
    <3>2. ASSUME d \in Ids(t) PROVE d \in Ids(s) /\ (Hoisted(d) \/ x \notin Ancestors(nodes, d))
      <4>1. PICK k \in 1..Len(t) : d = t[k].id
        BY <3>2 DEF Ids
      <4>2. k \in 1..Len(s) /\ d = s[k].id /\ ~(k > w[1].size)
        BY <1>1, <1>4, <3>1, <4>1
      <4> QED BY <1>1, <4>2 DEF Ids, Sizes
    <3>3. ASSUME d \in Ids(s), Hoisted(d) \/ x \notin Ancestors(nodes, d) PROVE d \in Ids(t)
      <4>1. PICK k \in 1..Len(s) : d = s[k].id
        BY <3>3 DEF Ids
      <4>2. ~(k > w[1].size)
        BY <1>1, <3>3, <4>1 DEF Sizes
      <4>3. k \in 1..Len(t)
        BY <1>1, <3>1, <4>2
      <4> QED BY <4>1, <4>3 DEF Ids
    <3> QED BY <2>1, <3>2, <3>3
  <2>2. CASE nodes[x].type \notin Scopes
    <3>1. Len(t) = Len(s)
      BY <2>2
    <3> QED BY <2>2, <3>1 DEF Ids
  <2> QED BY <2>1, <2>2
<1>8. ScopeTable(v, t)
  <2> SUFFICES ASSUME NEW d \in DOMAIN nodes
               PROVE  d \in Ids(t) <=> Hoisted(d) \/ (IsLocal(d) /\ d \in Met(v) /\ ScopeOf(d) \in PathOf(v))
    BY DEF ScopeTable
  <2>1. d \in Ids(s) <=> Hoisted(d) \/ (IsLocal(d) /\ d \in Met(w) /\ ScopeOf(d) \in PathOf(w))
    BY DEF ScopeTable
  <2>2. Met(v) = Met(w)
    BY <1>2 DEF Met
  <2>3. CASE Hoisted(d)
    BY <1>7, <2>1, <2>3
  <2>4. CASE ~Hoisted(d) /\ ~IsLocal(d)
    BY <1>7, <2>1, <2>4
  <2>5. CASE ~Hoisted(d) /\ IsLocal(d)
    <3>1. /\ ScopeOf(d) \in Ancestors(nodes, d) /\ Closes(ScopeOf(d)) /\ ~Closes(d)
          /\ \A b \in Ancestors(nodes, d) : Closes(b) => b \in Ancestors(nodes, ScopeOf(d))
      BY <2>5, LocalNotRoot DEF IsWalk
    <3>2. CASE nodes[x].type \in Scopes
      <4>1. ASSUME ScopeOf(d) \in PathOf(w) PROVE x \in Ancestors(nodes, d) <=> ScopeOf(d) = x
        <5>1. ASSUME x \in Ancestors(nodes, d) PROVE ScopeOf(d) = x
          <6>1. x \in Ancestors(nodes, ScopeOf(d))
            BY <3>1, <3>2, <5>1 DEF Closes
          <6>2. ScopeOf(d) \in Ancestors(nodes, x)
            BY <1>6, <4>1
          <6> QED BY <1>1, <6>1, <6>2, NoCycle
        <5> QED BY <3>1, <5>1
      <4> QED BY <1>2, <1>7, <2>1, <2>2, <2>5, <3>2, <4>1
    <3>3. CASE nodes[x].type \notin Scopes
      <4>1. ScopeOf(d) # x
        BY <1>5, <3>1, <3>3 DEF Closes
      <4> QED BY <1>2, <1>7, <2>1, <2>2, <2>5, <3>3, <4>1
    <3> QED BY <3>2, <3>3
  <2> QED BY <2>3, <2>4, <2>5
<1>9. Sizes(v, t)
  BY <1>3, <1>4 DEF Sizes
<1> QED BY <1>8, <1>9

\* The walk begins with the functions of the module in the table.
LEMMA TableBegins ==
    ASSUME WholeTree, NEW s, Len(s) \in Nat, \A k \in 1..Len(s) : s[k].id \in DOMAIN nodes,
           \A d \in DOMAIN nodes : d \in Ids(s) <=> Hoisted(d),
           NEW v, Len(v) = 1, v[1].size = Len(s), PathOf(v) = {Root}, Ahead(v) = DOMAIN nodes \ {Root}
    PROVE  ScopeTable(v, s) /\ Sizes(v, s)
<1>1. ScopeTable(v, s)
  <2>1. \A d \in DOMAIN nodes : d \in Met(v) => ~IsLocal(d)
    BY DEF Met, IsLocal, Declarations, WholeTree
  <2> QED BY <2>1 DEF ScopeTable
<1>2. ASSUME NEW i \in 1..Len(v), NEW k \in 1..Len(s)
      PROVE  ~(k > v[i].size) /\ Hoisted(s[k].id)
  <2>1. i = 1
    OBVIOUS
  <2>2. s[k].id \in Ids(s)
    BY DEF Ids
  <2> QED BY <2>1, <2>2
<1> QED BY <1>1, <1>2 DEF Sizes

-------------------------------------------------------------------------------
(* What the next node of a walk means *)

\* What the search of the table says of a name.
LEMMA DefinedNames ==
    ASSUME TableInv, NEW x
    PROVE  /\ Defined(x) <=> \E d \in Ids(symbols) : Name(d) = x
           /\ \A d \in Ids(symbols) : d \in DOMAIN nodes /\ (Name(d) = x => Lookup(x) = d)
<1>1. /\ symbols \in Seq(EntrySet) /\ DOMAIN symbols = 1..Len(symbols) /\ Len(symbols) \in Nat
      /\ \A i, j \in 1..Len(symbols) : symbols[i].name = symbols[j].name => i = j
  BY DEF TableInv
<1>2. ASSUME NEW i \in 1..Len(symbols)
      PROVE  symbols[i].id \in DOMAIN nodes /\ symbols[i].name = Name(symbols[i].id)
  <2>1. symbols[i] \in EntrySet
    BY <1>1
  <2> QED BY <2>1 DEF TableInv, EntrySet, NameOfNode
<1>3. \A i \in 1..Len(symbols) : symbols[i].id \in Ids(symbols)
  BY DEF Ids
<1>4. ASSUME NEW i \in 1..Len(symbols), symbols[i].name = x PROVE Lookup(x) = symbols[i].id
  <2>1. i \in Entries(x) /\ \A j \in Entries(x) : j = i
    BY <1>1, <1>4 DEF Entries
  <2>2. i <= i
    OBVIOUS
  <2> QED BY <2>1, <2>2 DEF Lookup
<1>5. ASSUME NEW d \in Ids(symbols) PROVE \E i \in 1..Len(symbols) : d = symbols[i].id
  BY DEF Ids
<1>6. \A d \in Ids(symbols) : d \in DOMAIN nodes /\ (Name(d) = x => Lookup(x) = d)
  BY <1>2, <1>4, <1>5
<1>7. ASSUME Defined(x) PROVE \E d \in Ids(symbols) : Name(d) = x
  <2>1. PICK i \in Entries(x) : TRUE
    BY <1>7 DEF Defined
  <2>2. i \in 1..Len(symbols) /\ symbols[i].name = x
    BY <1>1, <2>1 DEF Entries
  <2> QED BY <1>2, <1>3, <2>2
<1>8. ASSUME NEW d \in Ids(symbols), Name(d) = x PROVE Defined(x)
  <2>1. PICK i \in 1..Len(symbols) : d = symbols[i].id
    BY <1>5
  <2>2. i \in Entries(x)
    BY <1>1, <1>2, <1>8, <2>1 DEF Entries
  <2> QED BY <2>2 DEF Defined
<1> QED BY <1>6, <1>7, <1>8

\* What a name means at the next node, is what the table holds under that name.
LEMMA MeantInTable ==
    ASSUME NEW w, IsWalk(w), Ordered(w), w[1].todo # <<>>, NEW c, c = Head(w[1].todo), ~Closes(c),
           NEW s, ScopeTable(w, s), \A d \in Ids(s) : d \in DOMAIN nodes
    PROVE  /\ Meant(c) \ {c} = {d \in Ids(s) : Name(d) = Name(c)}
           /\ ~Hoisted(c) /\ c \notin Ids(s)
<1>1. c \in DOMAIN nodes /\ c \in Ahead(w)
  BY NextNode, NextIsFirst
<1>2. ~Hoisted(c)
  BY DEF Closes, Hoisted, Scopes
<1>3. c \notin Ids(s)
  BY <1>1, <1>2 DEF ScopeTable, Met
<1>4. \A d \in Ids(s) : Declares(d)
  BY DEF ScopeTable, Declares, IsLocal, Declarations
<1>5. \A d \in DOMAIN nodes : Declares(d) /\ d # c => (d \in Ids(s) <=> InScope(d, c))
  BY TableIsScope
<1> QED BY <1>2, <1>3, <1>4, <1>5 DEF Meant

\* A variable or an argument collides exactly when its name is in the table.
LEMMA VariableCollides ==
    ASSUME TableInv, IsWalk(walk), Ordered(walk), ScopeTable(walk, symbols), walk[1].todo # <<>>,
           NEW c, c = Head(walk[1].todo), nodes[c].type \in Declarations
    PROVE  Faulty(c) <=> Defined(Name(c))
<1>1. ~Closes(c) /\ Declares(c) /\ nodes[c].type # "SYMREF"
  BY DEF Closes, Declarations, Scopes, Declares
<1>2. \A d \in Ids(symbols) : d \in DOMAIN nodes
  BY DefinedNames
<1>3. Meant(c) \ {c} = {d \in Ids(symbols) : Name(d) = Name(c)} /\ ~Hoisted(c)
  BY <1>1, <1>2, MeantInTable
<1>4. Defined(Name(c)) <=> \E d \in Ids(symbols) : Name(d) = Name(c)
  BY DefinedNames
<1>5. Collides(c) = {d \in Ids(symbols) : Name(d) = Name(c)}
  BY <1>3 DEF Collides
<1> QED BY <1>1, <1>4, <1>5 DEF Faulty

\* A name is unresolved exactly when it means nothing; otherwise it means what is found.
LEMMA NameMeans ==
    ASSUME TableInv, IsWalk(walk), Ordered(walk), ScopeTable(walk, symbols), walk[1].todo # <<>>,
           NEW c, c = Head(walk[1].todo), nodes[c].type = "SYMREF"
    PROVE  /\ ~Declares(c)
           /\ Faulty(c) <=> ~Defined(Name(c))
           /\ Defined(Name(c)) => Meant(c) = {Lookup(Name(c))} /\ Lookup(Name(c)) \in DOMAIN nodes
<1>1. ~Closes(c) /\ ~Declares(c)
  BY DEF Closes, Scopes, Declares, Hoisted
<1>2. \A d \in Ids(symbols) : d \in DOMAIN nodes /\ (Name(d) = Name(c) => Lookup(Name(c)) = d)
  BY DefinedNames
<1>3. Meant(c) \ {c} = {d \in Ids(symbols) : Name(d) = Name(c)}
  BY <1>1, <1>2, MeantInTable
<1>4. Defined(Name(c)) <=> \E d \in Ids(symbols) : Name(d) = Name(c)
  BY DefinedNames
<1>5. c \notin Meant(c)
  BY <1>1 DEF Meant
<1>6. Meant(c) = {d \in Ids(symbols) : Name(d) = Name(c)}
  BY <1>3, <1>5
<1>7. Faulty(c) <=> ~Defined(Name(c))
  BY <1>1, <1>4, <1>6 DEF Faulty
<1>8. ASSUME Defined(Name(c)) PROVE Meant(c) = {Lookup(Name(c))} /\ Lookup(Name(c)) \in DOMAIN nodes
  <2>1. PICK d \in Ids(symbols) : Name(d) = Name(c)
    BY <1>4, <1>8
  <2>2. Lookup(Name(c)) = d /\ d \in DOMAIN nodes
    BY <1>2, <2>1
  <2> QED BY <1>2, <1>6, <2>1, <2>2
<1> QED BY <1>1, <1>7, <1>8

\* The other nodes break no rule where functions do not.
LEMMA OthersFaultless ==
    ASSUME FaultyFunctions = {}, NEW c \in DOMAIN nodes, nodes[c].type \notin Declarations, nodes[c].type # "SYMREF"
    PROVE  ~Faulty(c)
<1>1. Declares(c) => Hoisted(c)
  BY DEF Declares, Declarations
<1> QED BY <1>1 DEF Faulty, FaultyFunctions

\* The functions of the module that are passed are those before the next one.
LEMMA FunctionsPassed ==
    ASSUME NEW w, IsWalk(w), Len(w) = 1, w[1].id = Root, w[1].todo # <<>>, NEW c, c = Head(w[1].todo),
           NEW d \in DOMAIN nodes, nodes[d].parent = Root, d # c
    PROVE  /\ InTodo(w, d) => Precedes(c, d)
           /\ Precedes(d, c) <=> ~InTodo(w, d)
<1> DEFINE kids == Children(nodes, Root)
           todo == w[1].todo
           b == Behind(w[1])
<1>1. /\ OneTree(nodes) /\ Root \in DOMAIN nodes /\ WholeTree /\ 1 \in 1..Len(w)
      /\ kids \in Seq(DOMAIN nodes) /\ Len(kids) \in Nat /\ Len(todo) \in Nat
  BY FramesOfWalk DEF IsWalk
<1>2. c \in DOMAIN nodes /\ todo[1] = c /\ Len(todo) >= 1 /\ kids[b + 1] = c
  BY NextNode
<1>3. /\ b = Len(kids) - Len(todo) /\ b \in 0..Len(kids)
      /\ \A j \in 1..Len(todo) : todo[j] = kids[b + j]
  BY <1>1 DEF IsWalk, OnPath, Ends, Behind
<1>4. PICK i \in 1..Len(kids) : kids[i] = d
  BY <1>1, ChildrenMeant
<1> HIDE DEF kids, todo, b
<1>5. b + 1 \in 1..Len(kids) /\ i # b + 1 /\ b \in Int
  BY <1>1, <1>2, <1>3, <1>4
<1>6. d \in Ancestors(nodes, d) /\ c \in Ancestors(nodes, c)
  BY <1>1, <1>2, AncestorsStay
<1>7. CASE i < b + 1
  <2>1. Precedes(d, c)
    BY <1>1, <1>2, <1>4, <1>5, <1>6, <1>7, KidsPrecede DEF kids
  <2>2. ~InTodo(w, d)
    <3> SUFFICES ASSUME NEW j \in 1..Len(todo), todo[j] = d PROVE FALSE
      BY DEF InTodo, todo
    <3>1. kids[b + j] = kids[i] /\ b + j \in 1..Len(kids)
      BY <1>1, <1>3, <1>4
    <3>2. b + j = i
      BY <1>1, <3>1, ChildrenMeant DEF kids
    <3> QED BY <1>1, <1>5, <1>7, <3>2
  <2> QED BY <2>1, <2>2
<1>8. CASE i > b + 1
  <2>1. Precedes(c, d)
    BY <1>1, <1>2, <1>4, <1>5, <1>6, <1>8, KidsPrecede DEF kids
  <2>2. i - b \in 1..Len(todo) /\ b + (i - b) = i
    BY <1>1, <1>3, <1>5, <1>8
  <2>3. todo[i - b] = d
    BY <1>3, <1>4, <2>2
  <2>4. InTodo(w, d)
    BY <2>2, <2>3 DEF InTodo, todo
  <2> QED BY <1>1, <1>2, <2>1, <2>4, PrecedesOneWay
<1> QED BY <1>1, <1>5, <1>7, <1>8

\* A function of the module collides exactly when its name is in the table.
LEMMA FunctionCollides ==
    ASSUME TableInv, IsWalk(walk), Len(walk) = 1, walk[1].id = Root, FunctionTable(walk, symbols),
           walk[1].todo # <<>>, NEW c, c = Head(walk[1].todo), Hoisted(c)
    PROVE  Collides(c) # {} <=> Defined(Name(c))
<1>1. c \in DOMAIN nodes /\ WholeTree /\ c \notin Ids(symbols)
  <2>1. c \in DOMAIN nodes /\ walk[1].todo[1] = c /\ Len(walk[1].todo) >= 1
    BY NextNode
  <2>2. 1 \in 1..Len(walk[1].todo)
    BY <2>1, FramesOfWalk
  <2> QED BY <2>1, <2>2 DEF IsWalk, FunctionTable, InTodo
<1>2. ASSUME NEW d \in DOMAIN nodes
      PROVE  d \in Collides(c) <=> d \in Ids(symbols) /\ Name(d) = Name(c)
  <2>1. CASE d = c
    BY <1>1, <2>1 DEF Collides
  <2>2. CASE d # c /\ Hoisted(d)
    <3>1. InScope(d, c) /\ Declares(d)
      BY <1>1, <2>2, HoistedInScope DEF Declares
    <3>2. Precedes(d, c) <=> ~InTodo(walk, d)
      <4>1. nodes[d].parent = Root /\ d # c
        BY <2>2 DEF Hoisted
      <4> QED BY <4>1, FunctionsPassed
    <3> QED BY <2>2, <3>1, <3>2 DEF Collides, Meant, FunctionTable
  <2>3. CASE ~Hoisted(d)
    BY <2>3 DEF Collides, FunctionTable
  <2> QED BY <2>1, <2>2, <2>3
<1>3. \A d \in Ids(symbols) : d \in DOMAIN nodes
  BY DefinedNames
<1>4. Defined(Name(c)) <=> \E d \in Ids(symbols) : Name(d) = Name(c)
  BY DefinedNames
<1>5. Collides(c) \subseteq DOMAIN nodes
  BY DEF Collides, Meant
<1> QED BY <1>2, <1>3, <1>4, <1>5

\* The first of a set of nodes is the one that precedes the others.
LEMMA FirstOfSet ==
    ASSUME WholeTree, NEW S \in SUBSET (DOMAIN nodes), NEW c \in S, \A m \in S : m # c => Precedes(c, m)
    PROVE  First(S) = c
<1>1. \A m \in S \ {c} : Precedes(c, m)
  OBVIOUS
<1>2. ASSUME NEW n \in S, \A m \in S \ {n} : Precedes(n, m) PROVE n = c
  <2> SUFFICES ASSUME n # c PROVE FALSE
    OBVIOUS
  <2>1. Precedes(n, c) /\ Precedes(c, n)
    BY <1>2
  <2> QED BY <2>1, PrecedesOneWay
<1> QED BY <1>1, <1>2 DEF First

-------------------------------------------------------------------------------
(* What the walks have found *)

\* Of the functions passed none collides.
FunctionsMet(w, s) ==
    /\ FunctionTable(w, s)
    /\ \A n \in DOMAIN nodes : Hoisted(n) /\ ~InTodo(w, n) => Collides(n) = {}

\* The nodes met break no rule, and each name among them has a reference.
SymbolsMet(w, s, r) ==
    /\ Ordered(w) /\ ScopeTable(w, s) /\ Sizes(w, s)
    /\ FaultyFunctions = {}
    /\ \A n \in Met(w) : ~Faulty(n) /\ (nodes[n].type = "SYMREF" => r[n] # Unset)

\* The types the nodes met mention are resolved.
TypesMet(w, r, a) ==
    /\ Ordered(w)
    /\ \A n \in DOMAIN nodes : nodes[n].type = "SYMREF" => r[n] # Unset
    /\ \A n \in Met(w) : Mentions(n) # "" => Find(Mentions(n)) # NoArchetype /\ a[n] = Find(Mentions(n))

Lexical(r) == \A n \in DOMAIN nodes : r[n] # Unset => Meant(n) = {r[n]}

Found(p, w, s, r, a) ==
    /\ Lexical(r)
    /\ p # "idle" => OnPath(w)
    /\ p = "functions" => FunctionsMet(w, s)
    /\ p = "symbols" => SymbolsMet(w, s, r)
    /\ p = "archetypes" => TypesMet(w, r, a)

LexInv ==
    /\ WholeTree
    /\ phase # "idle" => error = ""
    /\ Found(phase, walk, symbols, reference, archetype)

\* What is said of a walk is said of it in the next state, when the tree is left alone,
LEMMA WalkKept ==
    ASSUME UNCHANGED nodes
    PROVE  /\ OnPath(walk') => OnPath(walk)'
           /\ Met(walk') = Met(walk)' /\ Ahead(walk') = Ahead(walk)' /\ PathOf(walk') = PathOf(walk)'
           /\ \A n : InTodo(walk', n) = InTodo(walk, n)'
           /\ Ids(symbols') = Ids(symbols)'
<1>1. OnPath(walk') => OnPath(walk)'
  BY DEF OnPath, Ends, Behind
<1>2. Ahead(walk') = Ahead(walk)'
  BY DEF Ahead, Awaits
<1>3. Met(walk') = Met(walk)'
  BY <1>2 DEF Met
<1> QED BY <1>1, <1>2, <1>3 DEF PathOf, InTodo, Ids

\* and so are the rules of scope
LEMMA RulesKept ==
    ASSUME UNCHANGED nodes, NEW n
    PROVE  /\ \A m : Precedes(m, n) = Precedes(m, n)'
           /\ Hoisted(n) = Hoisted(n)' /\ IsLocal(n) = IsLocal(n)' /\ ScopeOf(n) = ScopeOf(n)'
           /\ Meant(n) = Meant(n)' /\ Collides(n) = Collides(n)' /\ Faulty(n) = Faulty(n)'
<1>1. \A m, k : Precedes(m, k) = Precedes(m, k)'
  BY DEF Precedes
<1>2. \A m : Hoisted(m) = Hoisted(m)' /\ IsLocal(m) = IsLocal(m)' /\ ScopeOf(m) = ScopeOf(m)'
             /\ Declares(m) = Declares(m)'
  BY DEF Hoisted, IsLocal, ScopeOf, Declares
<1>3. \A m, k : InScope(m, k) = InScope(m, k)'
  BY <1>1, <1>2 DEF InScope
<1>4. Meant(n) = Meant(n)'
  BY <1>2, <1>3 DEF Meant, Name
<1>5. Collides(n) = Collides(n)'
  BY <1>1, <1>2, <1>4 DEF Collides
<1> QED BY <1>1, <1>2, <1>4, <1>5 DEF Faulty

\* and the invariant.
LEMMA FoundKept ==
    ASSUME LexInv, UNCHANGED <<nodes, archetypes>>, phase' # "idle" => error' = "",
           Found(phase', walk', symbols', reference', archetype')
    PROVE  LexInv'
<1>1. WholeTree'
  BY DEF LexInv, WholeTree
<1>2. Lexical(reference)'
  BY RulesKept DEF Found, Lexical
<1>3. (phase # "idle" => OnPath(walk))'
  BY WalkKept DEF Found
<1>4. ASSUME phase' = "functions" PROVE FunctionsMet(walk, symbols)'
  <2>1. FunctionTable(walk', symbols')
        /\ \A n \in DOMAIN nodes : Hoisted(n) /\ ~InTodo(walk', n) => Collides(n) = {}
    BY <1>4 DEF Found, FunctionsMet
  <2> QED BY <2>1, WalkKept, RulesKept DEF FunctionsMet, FunctionTable
<1>5. ASSUME Ordered(walk') PROVE Ordered(walk)'
  BY <1>5, WalkKept, RulesKept DEF Ordered
<1>6. ASSUME phase' = "symbols" PROVE SymbolsMet(walk, symbols, reference)'
  <2>1. SymbolsMet(walk', symbols', reference')
    BY <1>6 DEF Found
  <2>2. ScopeTable(walk, symbols)'
    BY <2>1, WalkKept, RulesKept DEF SymbolsMet, ScopeTable
  <2>3. Sizes(walk, symbols)'
    BY <2>1, RulesKept DEF SymbolsMet, Sizes
  <2>4. (FaultyFunctions = {})'
    BY <2>1, RulesKept DEF SymbolsMet, FaultyFunctions
  <2>5. (\A n \in Met(walk) : ~Faulty(n) /\ (nodes[n].type = "SYMREF" => reference[n] # Unset))'
    BY <2>1, WalkKept, RulesKept DEF SymbolsMet
  <2>6. Ordered(walk)'
    BY <1>5, <2>1 DEF SymbolsMet
  <2> QED BY <2>2, <2>3, <2>4, <2>5, <2>6 DEF SymbolsMet
<1>7. ASSUME phase' = "archetypes" PROVE TypesMet(walk, reference, archetype)'
  <2>1. TypesMet(walk', reference', archetype')
    BY <1>7 DEF Found
  <2>2. \A n : Mentions(n)' = Mentions(n)
    BY DEF Mentions
  <2>3. ASSUME NEW x PROVE Find(x)' = Find(x)
    <3>1. Named(x)' = Named(x)
      BY DEF Named
    <3>2. Find(x)' = IF Named(x)' = {} THEN NoArchetype
                     ELSE CHOOSE a \in Named(x)' : \A b \in Named(x)' : b <= a
      BY DEF Find, NoArchetype
    <3>3. Find(x) = IF Named(x) = {} THEN NoArchetype
                     ELSE CHOOSE a \in Named(x) : \A b \in Named(x) : b <= a
      BY DEF Find, NoArchetype
    <3> QED BY <3>1, <3>2, <3>3
  <2>4. (\A n \in Met(walk) : Mentions(n) # "" =>
            Find(Mentions(n)) # NoArchetype /\ archetype[n] = Find(Mentions(n)))'
    BY <2>1, <2>2, <2>3, WalkKept DEF TypesMet, NoArchetype
  <2>5. Ordered(walk)'
    BY <1>5, <2>1 DEF TypesMet
  <2> QED BY <2>1, <2>4, <2>5 DEF TypesMet
<1> QED BY <1>1, <1>2, <1>3, <1>4, <1>6, <1>7 DEF LexInv, Found

-------------------------------------------------------------------------------
(* The beginning of a compilation *)

\* The cleared arena is a tree.
LEMMA EmptyTree ==
    ASSUME NEW t, t = ClearedNodes
    PROVE  /\ OneTree(t) /\ DOMAIN t = {Root} /\ t[Root].type = "MODULE"
           /\ \A n \in DOMAIN t : Children(t, n) \in Seq(DOMAIN t)
<1>1. /\ DOMAIN t = {Root} /\ t[Root].type = "MODULE"
      /\ \A n \in DOMAIN t : Children(t, n) \in Seq(DOMAIN t)
  BY ClearedTree
<1>2. t[Root].parent = NodeNull /\ t[Root].first_child = NodeNull /\ t[Root].last_child = NodeNull
  BY DEF ClearedNodes, NewNode
<1>3. Children(t, Root) = <<>>
  BY <1>2 DEF Children
<1>4. Root # NodeNull /\ Root # Unset
  BY DEF Root, NodeNull, Unset
<1>5. IsFiniteSet(DOMAIN t) /\ Cardinality(DOMAIN t) = 1
  BY <1>1, FS_Singleton
<1>6. ChildrenAgree(t)
  <2>1. \A i \in DOMAIN <<>> : FALSE
    OBVIOUS
  <2> QED BY <1>1, <1>2, <1>3, <1>4, <2>1 DEF ChildrenAgree
<1>7. Root \in Ancestors(t, Root)
  <2>1. Root \in DOMAIN t /\ Linked(t)
    BY <1>1, <1>2, <1>4, <1>5 DEF Linked
  <2>2. /\ Size(t) \in Nat /\ Climb(t, Root)[0] = Root
        /\ Ancestors(t, Root) = {Climb(t, Root)[i] : i \in 0..Size(t)} \ {NodeNull}
    BY <2>1, LinksClimb
  <2>3. 0 \in 0..Size(t)
    BY <2>2
  <2> QED BY <1>4, <2>2, <2>3
<1>8. Acyclic(t)
  BY <1>1, <1>2 DEF Acyclic
<1> QED BY <1>1, <1>2, <1>4, <1>5, <1>6, <1>7, <1>8 DEF OneTree, IsForest

\* the state in which the resolver is called
Opening ==
    /\ WholeTree
    /\ phase = "functions" /\ symbols = <<>> /\ error = ""
    /\ walk = <<[id |-> Root, size |-> 0, todo |-> Children(nodes, Root)]>>
    /\ reference = [n \in DOMAIN nodes |-> Unset]

\* Nothing is found when the resolver begins.
LEMMA OpeningFound == Opening => LexInv
<1> SUFFICES ASSUME Opening PROVE LexInv
  OBVIOUS
<1> DEFINE f == [id |-> Root, size |-> 0, todo |-> Children(nodes, Root)]
           kids == Children(nodes, Root)
<1>1. /\ WholeTree /\ phase = "functions" /\ error = "" /\ walk = <<f>>
      /\ \A n \in DOMAIN nodes : reference[n] = Unset
  BY DEF Opening
<1>2. Ids(symbols) = {}
  <2>1. Len(symbols) = 0
    BY DEF Opening
  <2> QED BY <2>1 DEF Ids
<1>3. /\ OneTree(nodes) /\ Root \in DOMAIN nodes /\ kids \in Seq(DOMAIN nodes)
  BY <1>1 DEF WholeTree, OneTree
<1>4. f \in Frames(DOMAIN nodes) /\ f.id = Root /\ f.todo = kids
  BY <1>3 DEF Frames
<1> HIDE DEF f
<1>5. IsWalk(walk) /\ walk[1] = f
  BY <1>1, <1>4, WalkBegins
<1>6. ASSUME NEW d \in DOMAIN nodes, Hoisted(d) PROVE InTodo(walk, d)
  <2>1. PICK i \in 1..Len(kids) : kids[i] = d
    BY <1>3, <1>6, ChildrenMeant DEF Hoisted
  <2> QED BY <1>4, <1>5, <2>1 DEF InTodo
<1>7. FunctionsMet(walk, symbols)
  BY <1>2, <1>6 DEF FunctionsMet, FunctionTable
<1> QED BY <1>1, <1>5, <1>7 DEF LexInv, Found, Lexical, IsWalk

\* A source that was parsed is handed to the resolver.
LEMMA CompileFound ==
    ASSUME Inv, compiled < Compilations, NEW tree \in Trees(compiled, Len(archetypes)), Compile(tree)
    PROVE  LexInv'
<1>1. compiled \in 0..Compilations - 1 /\ Len(archetypes) \in 0..ArchetypeCapacity
  BY BoundsAssumption DEF Inv, BoundsInv
<1>2. /\ OneTree(tree) /\ tree[Root].type = "MODULE" /\ Root \in DOMAIN tree
      /\ \A k \in DOMAIN tree : HasShape(tree, k) /\ Children(tree, k) \in Seq(DOMAIN tree)
  BY <1>1, TreesAssumption DEF IsModule, OneTree
<1>3. ASSUME NEW n \in DOMAIN tree, tree[n].type = "MODULE" PROVE n = Root
  <2> SUFFICES ASSUME n # Root PROVE FALSE
    OBVIOUS
  <2> DEFINE p == tree[n].parent
             kids == Children(tree, p)
  <2>1. p \in DOMAIN tree
    <3>1. Root \in Ancestors(tree, n)
      BY <1>2, AncestorsStay
    <3>2. p = NodeNull => Ancestors(tree, n) = {n}
      BY <1>2, AncestorsStep
    <3> QED BY <1>2, <3>1, <3>2 DEF OneTree
  <2>2. kids \in Seq(DOMAIN tree) /\ HasShape(tree, p)
    BY <1>2, <2>1
  <2>3. PICK i \in 1..Len(kids) : kids[i] = n
    BY <1>2, <2>1, <2>2, ChildrenMeant
  <2> QED BY <1>3, <2>2, <2>3, KidTypes
<1>4. WholeTree'
  <2>1. nodes' = tree
    BY DEF Compile
  <2> QED BY <1>2, <1>3, <2>1 DEF WholeTree
<1>5. Opening'
  BY <1>4 DEF Opening, Compile
<1>6. (Opening => LexInv)'
  BY OpeningFound, PTL
<1> QED BY <1>5, <1>6

\* without a tree there is nothing to find
Blank ==
    /\ nodes = ClearedNodes /\ phase = "idle"
    /\ reference = [n \in {Root} |-> Unset]

\* Nothing is found in an idle compiler that holds the cleared arena.
LEMMA BlankFound == Blank => LexInv
<1> SUFFICES ASSUME Blank PROVE LexInv
  OBVIOUS
<1>1. nodes = ClearedNodes /\ phase = "idle" /\ \A n \in {Root} : reference[n] = Unset
  BY DEF Blank
<1>2. /\ OneTree(nodes) /\ DOMAIN nodes = {Root} /\ nodes[Root].type = "MODULE"
      /\ \A n \in DOMAIN nodes : Children(nodes, n) \in Seq(DOMAIN nodes)
  BY <1>1, EmptyTree
<1>3. WholeTree
  BY <1>2 DEF WholeTree
<1>4. Found(phase, walk, symbols, reference, archetype)
  BY <1>1, <1>2 DEF Found, Lexical
<1> QED BY <1>1, <1>3, <1>4 DEF LexInv

\* A source that is refused leaves the cleared arena.
LEMMA ParseFailsFound == ASSUME LexInv, Inv, ParseFails, phase = "idle" PROVE LexInv'
<1>1. Blank'
  BY DEF Blank, ParseFails
<1>2. (Blank => LexInv)'
  BY BlankFound, PTL
<1> QED BY <1>1, <1>2

\* between two compilations, and when one has ended
LEMMA IdleFound ==
    ASSUME LexInv, UNCHANGED <<nodes, reference>>, phase' = "idle"
    PROVE  LexInv'
<1>1. WholeTree'
  BY DEF LexInv, WholeTree
<1>2. Lexical(reference)'
  BY RulesKept DEF LexInv, Found, Lexical
<1>3. Found(phase, walk, symbols, reference, archetype)'
  BY <1>2 DEF Found
<1> QED BY <1>1, <1>3 DEF LexInv

\* during a compilation
LEMMA Walking ==
    ASSUME Inv, LexInv, phase # "idle"
    PROVE  /\ IsWalk(walk) /\ WholeTree /\ TableInv /\ Len(symbols) \in Nat /\ error = ""
           /\ Top = walk[1] /\ Top \in Frames(DOMAIN nodes) /\ Top.todo \in Seq(DOMAIN nodes)
           /\ Lexical(reference)
           /\ \A k \in 1..Len(symbols) : symbols[k].id \in DOMAIN nodes
           /\ \A i \in 1..Len(walk) : walk[i].size <= Len(symbols)
           /\ Top.todo # <<>> =>
                 Child = Head(walk[1].todo) /\ Child \in DOMAIN nodes /\ Tail(Top.todo) \in Seq(DOMAIN nodes)
<1>1. /\ walk # <<>> /\ Len(symbols) \in Nat /\ walk \in Seq(Frames(DOMAIN nodes))
      /\ Nested(walk, DOMAIN nodes, Len(symbols))
      /\ Top \in Frames(DOMAIN nodes) /\ Top.todo \in Seq(DOMAIN nodes)
      /\ Top.todo # <<>> => Child \in DOMAIN nodes /\ Tail(Top.todo) \in Seq(DOMAIN nodes)
  BY Meeting
<1>2. IsWalk(walk) /\ WholeTree /\ Lexical(reference) /\ error = ""
  BY <1>1 DEF LexInv, Found, IsWalk
<1>3. Top = walk[1]
  BY <1>1 DEF Top
<1>4. Top.todo # <<>> => Child = Head(walk[1].todo)
  BY <1>3 DEF Child
<1>5. \A k \in 1..Len(symbols) : symbols[k].id \in DOMAIN nodes
  <2>1. symbols \in Seq(EntrySet)
    BY DEF Inv, TableInv
  <2>2. \A k \in 1..Len(symbols) : symbols[k] \in EntrySet
    BY <2>1
  <2> QED BY <2>2 DEF EntrySet
<1>6. \A i \in 1..Len(walk) : walk[i].size <= Len(symbols)
  BY <1>1 DEF Nested
<1> QED BY <1>1, <1>2, <1>3, <1>4, <1>5, <1>6 DEF Inv

\* a walk of the module alone, in the loop over the functions
LEMMA WalkOfModule ==
    ASSUME Inv, phase = "functions"
    PROVE  Len(walk) = 1 /\ walk[1].id = Root
BY DEF Inv, WalkInv

\* A step of the loop over the functions of the module.
LEMMA AdvanceFound ==
    ASSUME Inv, LexInv, phase = "functions", Top.todo # <<>>,
           UNCHANGED <<nodes, archetypes, phase, error, reference>>,
           walk' = <<[Top EXCEPT !.todo = Tail(@)]>>,
           IF Hoisted(Child) THEN Collides(Child) = {} /\ Ids(symbols') = Ids(symbols) \cup {Child}
           ELSE symbols' = symbols
    PROVE  LexInv'
<1> DEFINE c == Child
           g == [Top EXCEPT !.todo = Tail(@)]
<1>1. /\ IsWalk(walk) /\ WholeTree /\ Top = walk[1] /\ Top \in Frames(DOMAIN nodes)
      /\ c = Head(walk[1].todo) /\ c \in DOMAIN nodes /\ Tail(Top.todo) \in Seq(DOMAIN nodes)
      /\ Lexical(reference) /\ error = "" /\ walk[1].todo # <<>>
  BY Walking
<1>2. Len(walk) = 1 /\ walk[1].id = Root
  BY WalkOfModule
<1>3. g \in Frames(DOMAIN nodes) /\ g.id = Root /\ g.todo = Tail(walk[1].todo)
  BY <1>1, <1>2 DEF Frames
<1>4. walk' = <<g>>
  OBVIOUS
<1> HIDE DEF c, g
<1>5. walk' \in Seq(Frames(DOMAIN nodes)) /\ Len(walk') = 1 /\ walk'[1] = g
  BY <1>3, <1>4
<1>6. /\ IsWalk(walk') /\ InTodo(walk, c)
      /\ \A n \in DOMAIN nodes : InTodo(walk', n) <=> n # c /\ InTodo(walk, n)
  <2>1. Passes(walk, walk', c)
    BY <1>1, <1>2, <1>3, <1>5 DEF Passes
  <2> QED BY <2>1, WalkAdvances
<1>7. FunctionsMet(walk, symbols)
  BY DEF LexInv, Found
<1>8. \A d \in DOMAIN nodes : d \in Ids(symbols') <=> d \in Ids(symbols) \/ (Hoisted(c) /\ d = c)
  BY DEF c
<1>9. FunctionsMet(walk', symbols')
  <2>1. FunctionTable(walk', symbols')
    BY <1>6, <1>7, <1>8 DEF FunctionsMet, FunctionTable
  <2>2. Hoisted(c) => Collides(c) = {}
    BY DEF c
  <2> QED BY <1>6, <1>7, <2>1, <2>2 DEF FunctionsMet
<1>10. OnPath(walk')
  BY <1>6 DEF IsWalk
<1>11. Found(phase', walk', symbols', reference', archetype')
  BY <1>1, <1>9, <1>10 DEF Found
<1> QED BY <1>1, <1>11, FoundKept

\* A name entered is that of the node.
LEMMA IdsGrow ==
    ASSUME NEW s, NEW e, NEW t, Len(s) \in Nat, Len(t) = Len(s) + 1, t[Len(s) + 1] = e,
           \A k \in 1..Len(s) : t[k] = s[k]
    PROVE  Ids(t) = Ids(s) \cup {e.id}
<1>1. Len(s) \in Nat /\ Len(t) = Len(s) + 1 /\ t[Len(s) + 1] = e
  OBVIOUS
<1>2. ASSUME NEW d \in Ids(t) PROVE d \in Ids(s) \cup {e.id}
  <2>1. PICK k \in 1..Len(t) : d = t[k].id
    BY DEF Ids
  <2>2. k \in 1..Len(s) \/ k = Len(s) + 1
    BY <1>1
  <2> QED BY <1>1, <2>1, <2>2 DEF Ids
<1>3. ASSUME NEW d \in Ids(s) PROVE d \in Ids(t)
  <2>1. PICK k \in 1..Len(s) : d = s[k].id
    BY DEF Ids
  <2>2. k \in 1..Len(t) /\ d = t[k].id
    BY <1>1, <2>1
  <2> QED BY <2>2 DEF Ids
<1>4. e.id \in Ids(t)
  <2>1. Len(s) + 1 \in 1..Len(t) /\ e.id = t[Len(s) + 1].id
    BY <1>1
  <2> QED BY <2>1 DEF Ids
<1> QED BY <1>1, <1>2, <1>3, <1>4

\* A definition adds one entry, of a name that was not there.
LEMMA DefineGrows ==
    ASSUME TableInv, NEW n \in DOMAIN nodes, Define(n)
    PROVE  /\ ~Defined(Name(n))
           /\ Ids(symbols') = Ids(symbols) \cup {n} /\ Len(symbols') = Len(symbols) + 1
           /\ symbols'[Len(symbols) + 1].id = n
           /\ \A k \in 1..Len(symbols) : symbols'[k] = symbols[k]
<1> DEFINE e == [name |-> Name(n), id |-> n]
<1>1. e \in EntrySet /\ e.id = n /\ symbols \in Seq(EntrySet)
  BY DEF EntrySet, Values, Name, TableInv
<1>2. symbols' = Append(symbols, e) /\ ~Defined(Name(n))
  BY DEF Define
<1> HIDE DEF e
<1>3. /\ Len(symbols) \in Nat /\ Len(symbols') = Len(symbols) + 1
      /\ symbols'[Len(symbols) + 1] = e
      /\ \A k \in 1..Len(symbols) : symbols'[k] = symbols[k]
  BY <1>1, <1>2
<1>4. Ids(symbols') = Ids(symbols) \cup {e.id}
  BY <1>3, IdsGrow
<1> QED BY <1>1, <1>2, <1>3, <1>4

\* The first loop enters the functions of the module, in order.
LEMMA FunctionsFound ==
    ASSUME Inv, LexInv, MeetFunction \/ MeetStatement
    PROVE  LexInv'
<1>1. /\ phase = "functions" /\ Top.todo # <<>> /\ walk' = <<[Top EXCEPT !.todo = Tail(@)]>>
      /\ UNCHANGED <<nodes, archetypes, phase, error, reference>>
  BY DEF MeetFunction, MeetStatement
<1>2. /\ IsWalk(walk) /\ TableInv /\ Child = Head(walk[1].todo) /\ Child \in DOMAIN nodes
      /\ walk[1].todo # <<>>
  BY <1>1, Walking
<1>3. Len(walk) = 1 /\ walk[1].id = Root
  BY <1>1, WalkOfModule
<1>4. CASE MeetFunction
  <2>1. nodes[Child].parent = Root
    BY <1>2, <1>3, NextNode
  <2>2. Hoisted(Child) /\ Define(Child)
    BY <1>4, <2>1 DEF MeetFunction, Hoisted
  <2>3. Ids(symbols') = Ids(symbols) \cup {Child} /\ ~Defined(Name(Child))
    BY <1>2, <2>2, DefineGrows
  <2>4. FunctionTable(walk, symbols)
    BY <1>1 DEF LexInv, Found, FunctionsMet
  <2>5. Collides(Child) = {}
    BY <1>2, <1>3, <2>2, <2>3, <2>4, FunctionCollides
  <2> QED BY <1>1, <2>2, <2>3, <2>5, AdvanceFound
<1>5. CASE MeetStatement
  <2>1. ~Hoisted(Child) /\ symbols' = symbols
    BY <1>5 DEF MeetStatement, Hoisted
  <2> QED BY <1>1, <2>1, AdvanceFound
<1> QED BY <1>4, <1>5

\* Once every function is entered the walk of the whole tree begins.
LEMMA BeginFound ==
    ASSUME Inv, LexInv, BeginScopedWalk
    PROVE  LexInv'
<1> DEFINE f == Frame(Root)
<1>1. /\ phase = "functions" /\ Top.todo = <<>> /\ Begin("symbols")
      /\ UNCHANGED <<nodes, symbols, reference, archetypes, error>>
  BY DEF BeginScopedWalk
<1>2. /\ WholeTree /\ Len(symbols) \in Nat /\ Lexical(reference) /\ error = "" /\ Top = walk[1]
      /\ \A k \in 1..Len(symbols) : symbols[k].id \in DOMAIN nodes
  BY <1>1, Walking
<1>3. f \in Frames(DOMAIN nodes) /\ f.id = Root /\ f.todo = Children(nodes, Root) /\ f.size = Len(symbols)
  BY <1>2 DEF Frame, Frames, WholeTree, OneTree
<1>4. walk' = <<f>> /\ phase' = "symbols"
  BY <1>1 DEF Begin
<1> HIDE DEF f
<1>5. /\ IsWalk(walk') /\ PathOf(walk') = {Root} /\ Ahead(walk') = DOMAIN nodes \ {Root}
      /\ Ordered(walk')
  BY <1>2, <1>3, <1>4, WalkBegins
<1>6. \A n \in DOMAIN nodes : ~InTodo(walk, n)
  <2>1. walk[1].todo = <<>>
    BY <1>1, <1>2
  <2>2. Len(walk[1].todo) = 0
    BY <2>1
  <2> QED BY <2>2 DEF InTodo
<1>7. /\ \A d \in DOMAIN nodes : d \in Ids(symbols) <=> Hoisted(d)
      /\ FaultyFunctions = {}
  BY <1>1, <1>6 DEF LexInv, Found, FunctionsMet, FunctionTable, FaultyFunctions
<1>8. Len(walk') = 1 /\ walk'[1].size = Len(symbols)
  BY <1>3, <1>4
<1>9. ScopeTable(walk', symbols) /\ Sizes(walk', symbols)
  BY <1>2, <1>5, <1>7, <1>8, TableBegins
<1>10. \A n \in Met(walk') : ~Faulty(n) /\ (nodes[n].type = "SYMREF" => reference'[n] # Unset)
  <2> SUFFICES ASSUME NEW n \in Met(walk')
               PROVE  ~Faulty(n) /\ (nodes[n].type = "SYMREF" => reference'[n] # Unset)
    OBVIOUS
  <2>1. n = Root /\ n \in DOMAIN nodes
    BY <1>5 DEF Met
  <2>2. nodes[n].type = "MODULE"
    BY <1>2, <2>1 DEF WholeTree
  <2> QED BY <1>7, <2>1, <2>2, OthersFaultless DEF Declarations
<1>11. SymbolsMet(walk', symbols', reference')
  BY <1>1, <1>5, <1>7, <1>9, <1>10 DEF SymbolsMet
<1>12. Found(phase', walk', symbols', reference', archetype')
  BY <1>1, <1>2, <1>4, <1>5, <1>11 DEF Found, IsWalk
<1> QED BY <1>1, <1>2, <1>12, FoundKept

-------------------------------------------------------------------------------
(* The walk of the resolver of symbols *)

\* v is walk w one node further down
Enters(w, v, c) ==
    /\ IsWalk(v) /\ PathOf(v) = PathOf(w) \cup {c} /\ Ahead(v) = Ahead(w) \ {c}
    /\ Ordered(w) => Ordered(v)

\* Descend enters the next node.
LEMMA DescendEnters ==
    ASSUME Inv, LexInv, phase # "idle", Top.todo # <<>>, Descend
    PROVE  /\ Enters(walk, walk', Child)
           /\ \E f, g \in Frames(DOMAIN nodes) :
                 /\ Pushed(walk', walk, f, g) /\ f.id = Child /\ f.size = Len(symbols)
                 /\ g.id = walk[1].id /\ g.size = walk[1].size
<1> DEFINE c == Child
           t == Tail(Top.todo)
           f == Frame(c)
           g == [Head(walk) EXCEPT !.todo = t]
<1>1. /\ IsWalk(walk) /\ WholeTree /\ Len(symbols) \in Nat
      /\ Top = walk[1] /\ Top = Head(walk) /\ Top \in Frames(DOMAIN nodes) /\ walk[1].todo # <<>>
      /\ c = Head(walk[1].todo) /\ c \in DOMAIN nodes /\ t \in Seq(DOMAIN nodes)
  BY Walking DEF Top
<1>2. f \in Frames(DOMAIN nodes) /\ f.id = c /\ f.todo = Children(nodes, c) /\ f.size = Len(symbols)
  BY <1>1 DEF Frame, Frames, WholeTree
<1>3. g \in Frames(DOMAIN nodes) /\ g.id = walk[1].id /\ g.todo = Tail(walk[1].todo) /\ g.size = walk[1].size
  BY <1>1 DEF Frames
<1>4. walk' = <<f, g>> \o Tail(walk)
  BY DEF Descend, Top
<1>5. Pushed(walk', walk, f, g)
  <2>1. Pushed(<<f, g>> \o Tail(walk), walk, f, g)
    <3> HIDE DEF f, t
    <3> QED BY <1>1, <1>2, DescendPushes
  <2> QED BY <1>4, <2>1
<1> HIDE DEF c, f, g, t
<1>6. Enters(walk, walk', c)
  BY <1>1, <1>2, <1>3, <1>5, WalkDescends DEF Enters
<1> QED BY <1>2, <1>3, <1>5, <1>6 DEF c

\* The nodes met by the walk are one more.
LEMMA SymbolsDescend ==
    ASSUME Inv, LexInv, phase = "symbols", Top.todo # <<>>, Descend,
           UNCHANGED <<nodes, phase, archetypes, error>>,
           ScopeTable(walk', symbols'), Sizes(walk', symbols'),
           ~Faulty(Child), nodes[Child].type = "SYMREF" => reference'[Child] # Unset,
           \A n \in DOMAIN nodes : n # Child => reference'[n] = reference[n],
           Lexical(reference')
    PROVE  LexInv'
<1>1. Enters(walk, walk', Child)
  BY DescendEnters
<1>2. SymbolsMet(walk, symbols, reference) /\ error = ""
  BY DEF LexInv, Found
<1>3. Met(walk') \subseteq Met(walk) \cup {Child} /\ Met(walk') \subseteq DOMAIN nodes
  BY <1>1 DEF Met, Enters
<1>4. \A n \in Met(walk') : ~Faulty(n) /\ (nodes[n].type = "SYMREF" => reference'[n] # Unset)
  BY <1>2, <1>3 DEF SymbolsMet
<1>5. SymbolsMet(walk', symbols', reference')
  BY <1>1, <1>2, <1>4 DEF SymbolsMet, Enters
<1>6. OnPath(walk')
  BY <1>1 DEF Enters, IsWalk
<1>7. Found(phase', walk', symbols', reference', archetype')
  BY <1>5, <1>6 DEF Found
<1> QED BY <1>2, <1>7, FoundKept

\* the next node of this walk
LEMMA NextOfSymbols ==
    ASSUME Inv, LexInv, phase = "symbols", Top.todo # <<>>
    PROVE  /\ IsWalk(walk) /\ TableInv /\ walk[1].todo # <<>> /\ Child = Head(walk[1].todo)
           /\ Child \in DOMAIN nodes /\ Lexical(reference) /\ Len(symbols) \in Nat
           /\ Ordered(walk) /\ ScopeTable(walk, symbols) /\ Sizes(walk, symbols) /\ FaultyFunctions = {}
           /\ \A k \in 1..Len(symbols) : symbols[k].id \in DOMAIN nodes
           /\ \A i \in 1..Len(walk) : walk[i].size <= Len(symbols)
<1>1. /\ IsWalk(walk) /\ TableInv /\ Top = walk[1] /\ Child = Head(walk[1].todo)
      /\ Child \in DOMAIN nodes /\ Lexical(reference) /\ Len(symbols) \in Nat
      /\ \A k \in 1..Len(symbols) : symbols[k].id \in DOMAIN nodes
      /\ \A i \in 1..Len(walk) : walk[i].size <= Len(symbols)
  BY Walking
<1>2. SymbolsMet(walk, symbols, reference)
  BY DEF LexInv, Found
<1> QED BY <1>1, <1>2 DEF SymbolsMet

\* A declaration met is an entry of the table, under the size its scope will restore.
LEMMA DeclareFound ==
    ASSUME Inv, LexInv, DeclareVariable
    PROVE  LexInv'
<1>1. /\ phase = "symbols" /\ Top.todo # <<>> /\ nodes[Child].type \in Declarations
      /\ Define(Child) /\ Descend
      /\ UNCHANGED <<nodes, phase, reference, archetypes, error>>
  BY DEF DeclareVariable, Meets
<1>2. /\ IsWalk(walk) /\ TableInv /\ walk[1].todo # <<>> /\ Child = Head(walk[1].todo)
      /\ Child \in DOMAIN nodes /\ Lexical(reference) /\ Len(symbols) \in Nat
      /\ Ordered(walk) /\ ScopeTable(walk, symbols) /\ Sizes(walk, symbols)
      /\ \A k \in 1..Len(symbols) : symbols[k].id \in DOMAIN nodes
      /\ \A i \in 1..Len(walk) : walk[i].size <= Len(symbols)
  BY <1>1, NextOfSymbols
<1>3. /\ ~Defined(Name(Child)) /\ Len(symbols') = Len(symbols) + 1
      /\ symbols'[Len(symbols) + 1].id = Child
      /\ \A k \in 1..Len(symbols) : symbols'[k] = symbols[k]
  BY <1>1, <1>2, DefineGrows
<1>4. ~Faulty(Child)
  BY <1>1, <1>2, <1>3, VariableCollides
<1>5. Enters(walk, walk', Child)
  BY <1>1, DescendEnters
<1>6. PICK f, g \in Frames(DOMAIN nodes) :
         /\ Pushed(walk', walk, f, g) /\ f.id = Child /\ f.size = Len(symbols)
         /\ g.id = walk[1].id /\ g.size = walk[1].size
  BY <1>1, DescendEnters
<1>7. PathOf(walk') = PathOf(walk) \cup {Child} /\ Ahead(walk') = Ahead(walk) \ {Child} /\ IsLocal(Child)
  BY <1>1, <1>5 DEF Enters, IsLocal
<1>8. ScopeTable(walk', symbols') /\ Sizes(walk', symbols')
  <2>1. Entered(symbols', symbols, Child)
    BY <1>3 DEF Entered
  <2> QED BY <1>2, <1>6, <1>7, <2>1, TableDefines
<1>9. Lexical(reference') /\ nodes[Child].type # "SYMREF"
  BY <1>1, <1>2 DEF Declarations
<1> QED BY <1>1, <1>4, <1>8, <1>9, SymbolsDescend

\* The table is left alone by every other node.
LEMMA EnterKeepsTable ==
    ASSUME Inv, LexInv, phase = "symbols", Top.todo # <<>>, nodes[Child].type \notin Declarations,
           Descend, UNCHANGED symbols
    PROVE  ScopeTable(walk', symbols') /\ Sizes(walk', symbols')
<1>1. /\ IsWalk(walk) /\ TableInv /\ walk[1].todo # <<>> /\ Child = Head(walk[1].todo)
      /\ Child \in DOMAIN nodes /\ Len(symbols) \in Nat
      /\ ScopeTable(walk, symbols) /\ Sizes(walk, symbols)
      /\ \A k \in 1..Len(symbols) : symbols[k].id \in DOMAIN nodes
  BY NextOfSymbols
<1>2. Enters(walk, walk', Child)
  BY DescendEnters
<1>3. PICK f, g \in Frames(DOMAIN nodes) :
         /\ Pushed(walk', walk, f, g) /\ f.id = Child /\ f.size = Len(symbols)
         /\ g.id = walk[1].id /\ g.size = walk[1].size
  BY DescendEnters
<1>4. PathOf(walk') = PathOf(walk) \cup {Child} /\ Ahead(walk') = Ahead(walk) \ {Child} /\ ~IsLocal(Child)
  BY <1>2 DEF Enters, IsLocal
<1>5. ScopeTable(walk', symbols) /\ Sizes(walk', symbols)
  BY <1>1, <1>3, <1>4, TableEnters
<1> QED BY <1>5

\* A name met is found in the table as the rules of scope mean it.
LEMMA ResolveFound ==
    ASSUME Inv, LexInv, ResolveSymbol
    PROVE  LexInv'
<1>1. /\ phase = "symbols" /\ Top.todo # <<>> /\ nodes[Child].type = "SYMREF"
      /\ Defined(Name(Child)) /\ Descend
      /\ reference' = [reference EXCEPT ![Child] = Lookup(Name(Child))]
      /\ UNCHANGED <<nodes, phase, symbols, archetypes, error>>
  BY DEF ResolveSymbol, Meets
<1>2. /\ IsWalk(walk) /\ TableInv /\ walk[1].todo # <<>> /\ Child = Head(walk[1].todo)
      /\ Child \in DOMAIN nodes /\ Lexical(reference)
      /\ Ordered(walk) /\ ScopeTable(walk, symbols)
  BY <1>1, NextOfSymbols
<1>3. ~Faulty(Child) /\ Meant(Child) = {Lookup(Name(Child))} /\ Lookup(Name(Child)) \in DOMAIN nodes
  BY <1>1, <1>2, NameMeans
<1>4. /\ reference'[Child] = Lookup(Name(Child))
      /\ \A n \in DOMAIN nodes : n # Child => reference'[n] = reference[n]
  <2>1. reference \in [DOMAIN nodes -> DOMAIN nodes \cup {Unset}]
    BY DEF Inv, ReferenceInv
  <2> QED BY <1>1, <1>2, <2>1
<1>5. reference'[Child] # Unset
  <2>1. Unset \notin DOMAIN nodes
    BY <1>2 DEF IsWalk, WholeTree, OneTree
  <2> QED BY <1>3, <1>4, <2>1
<1>6. Lexical(reference')
  BY <1>2, <1>3, <1>4 DEF Lexical
<1>7. ScopeTable(walk', symbols') /\ Sizes(walk', symbols')
  <2>1. nodes[Child].type \notin Declarations
    BY <1>1 DEF Declarations
  <2> QED BY <1>1, <2>1, EnterKeepsTable
<1> QED BY <1>1, <1>3, <1>4, <1>5, <1>6, <1>7, SymbolsDescend

\* Entering a node that neither declares nor refers finds nothing new.
LEMMA EnterFound ==
    ASSUME Inv, LexInv, EnterNode
    PROVE  LexInv'
<1>1. /\ phase = "symbols" /\ Top.todo # <<>> /\ Descend
      /\ nodes[Child].type \notin Declarations /\ nodes[Child].type # "SYMREF"
      /\ UNCHANGED <<nodes, phase, symbols, reference, archetypes, error>>
  BY DEF EnterNode, Meets
<1>2. Child \in DOMAIN nodes /\ Lexical(reference) /\ FaultyFunctions = {}
  BY <1>1, NextOfSymbols
<1>3. ~Faulty(Child)
  BY <1>1, <1>2, OthersFaultless
<1>4. ScopeTable(walk', symbols') /\ Sizes(walk', symbols')
  BY <1>1, EnterKeepsTable
<1> QED BY <1>1, <1>2, <1>3, <1>4, SymbolsDescend

\* Once the walk is over every node is met.
LEMMA NothingAhead ==
    ASSUME NEW w, IsWalk(w), w[1].todo = <<>>, ~(Len(w) > 1)
    PROVE  Ahead(w) = {} /\ Met(w) = DOMAIN nodes
<1>1. Len(w) \in Nat /\ Len(w) >= 1
  BY FramesOfWalk
<1>2. \A i \in 1..Len(w) : i = 1
  BY <1>1
<1>3. Len(w[1].todo) = 0
  OBVIOUS
<1>4. \A n : ~Awaits(w[1], n)
  BY <1>3 DEF Awaits
<1> QED BY <1>2, <1>4 DEF Ahead, Met

\* The first entries of a sequence.
LEMMA FirstEntries ==
    ASSUME NEW S, NEW s \in Seq(S), NEW k \in Nat, k <= Len(s), NEW t, t = SubSeq(s, 1, k)
    PROVE  Len(t) = k /\ \A i \in 1..Len(t) : t[i] = s[i]
OBVIOUS

\* Leaving a scope cuts the table to the entries whose scope is still open.
LEMMA LeaveFound ==
    ASSUME Inv, LexInv, LeaveScope
    PROVE  /\ LexInv'
           /\ phase' = "archetypes" => FaultyNodes = {}
<1>1. /\ phase = "symbols" /\ Top.todo = <<>>
      /\ UNCHANGED <<nodes, reference, archetypes, error>>
      /\ symbols' = IF nodes[Top.id].type \in Scopes THEN SubSeq(symbols, 1, Top.size) ELSE symbols
  BY DEF LeaveScope, Ascend
<1>2. /\ IsWalk(walk) /\ WholeTree /\ Top = walk[1] /\ Lexical(reference) /\ error = ""
      /\ Len(symbols) \in Nat /\ walk[1].todo = <<>>
      /\ \A k \in 1..Len(symbols) : symbols[k].id \in DOMAIN nodes
      /\ \A i \in 1..Len(walk) : walk[i].size <= Len(symbols)
  BY <1>1, Walking
<1>3. SymbolsMet(walk, symbols, reference)
  BY <1>1 DEF LexInv, Found
<1>4. CASE Len(walk) > 1
  <2>1. walk' = Tail(walk) /\ UNCHANGED phase
    BY <1>4 DEF LeaveScope, Ascend
  <2>2. IsWalk(walk') /\ Ahead(walk') = Ahead(walk)
    BY <1>2, <1>4, <2>1, WalkAscends
  <2>3. ScopeTable(walk', symbols') /\ Sizes(walk', symbols')
    <3>1. ScopeTable(walk, symbols) /\ Sizes(walk, symbols)
      BY <1>3 DEF SymbolsMet
    <3>2. walk[1].size \in Nat /\ walk[1].size <= Len(symbols)
      <4>1. 1 \in 1..Len(walk)
        BY <1>2, FramesOfWalk
      <4> QED BY <1>2, <4>1, FramesOfWalk
    <3>3. /\ Len(symbols') = IF nodes[walk[1].id].type \in Scopes THEN walk[1].size ELSE Len(symbols)
          /\ \A k \in 1..Len(symbols') : symbols'[k] = symbols[k]
      <4>1. symbols \in Seq(EntrySet)
        BY DEF Inv, TableInv
      <4>2. CASE nodes[walk[1].id].type \in Scopes
        <5>1. symbols' = SubSeq(symbols, 1, walk[1].size)
          BY <1>1, <1>2, <4>2
        <5>2. Len(symbols') = walk[1].size /\ \A k \in 1..Len(symbols') : symbols'[k] = symbols[k]
          <6> DEFINE k == walk[1].size
                     s == symbols
                     t == symbols'
          <6>1. s \in Seq(EntrySet) /\ k \in Nat /\ k <= Len(s) /\ t = SubSeq(s, 1, k)
            BY <1>2, <3>2, <4>1, <5>1
          <6> HIDE DEF k, s, t
          <6>2. Len(t) = k /\ \A i \in 1..Len(t) : t[i] = s[i]
            BY <6>1, FirstEntries
          <6> QED BY <6>2 DEF k, s, t
        <5> QED BY <4>2, <5>2
      <4>3. CASE nodes[walk[1].id].type \notin Scopes
        BY <1>1, <1>2, <4>3
      <4> QED BY <4>2, <4>3
    <3> QED BY <1>2, <1>4, <2>1, <3>1, <3>2, <3>3, TableLeaves
  <2>4. Met(walk') = Met(walk) /\ (Ordered(walk) => Ordered(walk'))
    BY <2>2 DEF Met, Ordered
  <2>5. SymbolsMet(walk', symbols', reference')
    BY <1>1, <1>3, <2>3, <2>4 DEF SymbolsMet
  <2>6. Found(phase', walk', symbols', reference', archetype')
    BY <1>1, <1>2, <2>1, <2>2, <2>5 DEF Found, IsWalk
  <2> QED BY <1>1, <1>2, <2>1, <2>6, FoundKept
<1>5. CASE ~(Len(walk) > 1)
  <2> DEFINE f == Frame(Root)
  <2>1. Begin("archetypes")
    BY <1>5 DEF LeaveScope, Ascend
  <2>2. f \in Frames(DOMAIN nodes) /\ f.id = Root /\ f.todo = Children(nodes, Root)
    BY <1>2 DEF Frame, Frames, WholeTree, OneTree
  <2>3. walk' = <<f>> /\ phase' = "archetypes"
    BY <2>1 DEF Begin
  <2> HIDE DEF f
  <2>4. IsWalk(walk') /\ Ordered(walk') /\ Ahead(walk') = DOMAIN nodes \ {Root}
    BY <1>2, <2>2, <2>3, WalkBegins
  <2>5. Met(walk) = DOMAIN nodes
    BY <1>2, <1>5, NothingAhead
  <2>6. \A n \in DOMAIN nodes : ~Faulty(n) /\ (nodes[n].type = "SYMREF" => reference[n] # Unset)
    BY <1>3, <2>5 DEF SymbolsMet
  <2>7. ASSUME NEW n \in Met(walk') PROVE Mentions(n) = ""
    <3>1. n = Root
      BY <2>4, <2>7 DEF Met
    <3> QED BY <1>2, <3>1 DEF Mentions, WholeTree
  <2>8. TypesMet(walk', reference', archetype')
    BY <1>1, <2>4, <2>6, <2>7 DEF TypesMet
  <2>9. Found(phase', walk', symbols', reference', archetype')
    BY <1>1, <1>2, <2>3, <2>4, <2>8 DEF Found, IsWalk
  <2>10. FaultyNodes = {}
    BY <2>6 DEF FaultyNodes
  <2> QED BY <1>1, <1>2, <2>9, <2>10, FoundKept
<1> QED BY <1>4, <1>5

-------------------------------------------------------------------------------
(* The verdict on a source *)

\* what a compilation that fails in the resolver of symbols reports
Reported ==
    /\ phase' = "idle" /\ FaultyNodes # {} /\ span' = ToReport
    /\ (error' = "SYMBOL_ALREADY_DEFINED") = Declares(span')

\* A second function of one name is the first error of the source.
LEMMA FunctionReported ==
    ASSUME Inv, LexInv, MeetFunctionTwice
    PROVE  LexInv' /\ Reported
<1>1. /\ phase = "functions" /\ Top.todo # <<>> /\ nodes[Child].type = "FUNDECL"
      /\ Defined(Name(Child)) /\ error' = "SYMBOL_ALREADY_DEFINED" /\ span' = Child /\ phase' = "idle"
      /\ UNCHANGED <<nodes, reference>>
  BY DEF MeetFunctionTwice, AlreadyDefined, FailAt
<1>2. /\ IsWalk(walk) /\ WholeTree /\ TableInv /\ Child = Head(walk[1].todo) /\ Child \in DOMAIN nodes
      /\ walk[1].todo # <<>>
  BY <1>1, Walking
<1>3. Len(walk) = 1 /\ walk[1].id = Root
  BY <1>1, WalkOfModule
<1>4. FunctionsMet(walk, symbols)
  BY <1>1 DEF LexInv, Found
<1>5. Hoisted(Child)
  <2>1. nodes[Child].parent = Root
    BY <1>2, <1>3, NextNode
  <2> QED BY <1>1, <2>1 DEF Hoisted
<1>6. Collides(Child) # {}
  BY <1>1, <1>2, <1>3, <1>4, <1>5, FunctionCollides DEF FunctionsMet
<1>7. Child \in FaultyFunctions /\ Declares(Child)
  BY <1>2, <1>5, <1>6 DEF FaultyFunctions, Declares
<1>8. ASSUME NEW m \in FaultyFunctions, m # Child PROVE Precedes(Child, m)
  <2>1. m \in DOMAIN nodes /\ nodes[m].parent = Root /\ InTodo(walk, m)
    BY <1>4, <1>8 DEF FunctionsMet, FaultyFunctions, Hoisted
  <2> QED BY <1>2, <1>3, <1>8, <2>1, FunctionsPassed
<1>9. FaultyFunctions \in SUBSET (DOMAIN nodes)
  BY DEF FaultyFunctions
<1>10. First(FaultyFunctions) = Child
  BY <1>2, <1>7, <1>8, <1>9, FirstOfSet
<1>11. FaultyFunctions # {} /\ ToReport = Child
  BY <1>7, <1>10 DEF ToReport
<1>12. FaultyNodes # {}
  BY <1>2, <1>6, <1>7 DEF FaultyNodes, Faulty
<1>13. LexInv'
  BY <1>1, IdleFound
<1> QED BY <1>1, <1>7, <1>11, <1>12, <1>13 DEF Reported

\* A second declaration, and a name without one, is the first error of the source.
LEMMA NodeReported ==
    ASSUME Inv, LexInv, DeclareTwice \/ UnresolvedSymbol
    PROVE  LexInv' /\ Reported
<1>1. /\ phase = "symbols" /\ Top.todo # <<>> /\ span' = Child /\ phase' = "idle"
      /\ UNCHANGED <<nodes, reference>>
  BY DEF DeclareTwice, UnresolvedSymbol, AlreadyDefined, FailAt, Meets
<1>2. /\ IsWalk(walk) /\ TableInv /\ walk[1].todo # <<>> /\ Child = Head(walk[1].todo)
      /\ Child \in DOMAIN nodes /\ Ordered(walk) /\ ScopeTable(walk, symbols) /\ FaultyFunctions = {}
  BY <1>1, NextOfSymbols
<1>3. Faulty(Child) /\ (error' = "SYMBOL_ALREADY_DEFINED") = Declares(Child)
  <2>1. CASE DeclareTwice
    <3>1. nodes[Child].type \in Declarations /\ Defined(Name(Child)) /\ error' = "SYMBOL_ALREADY_DEFINED"
      BY <2>1 DEF DeclareTwice, AlreadyDefined, FailAt, Meets
    <3>2. Faulty(Child)
      BY <1>2, <3>1, VariableCollides
    <3>3. Declares(Child)
      BY <3>1 DEF Declares, Declarations
    <3>4. Declares(Child) \in BOOLEAN
      BY DEF Declares
    <3> QED BY <3>1, <3>2, <3>3, <3>4
  <2>2. CASE UnresolvedSymbol
    <3>1. nodes[Child].type = "SYMREF" /\ ~Defined(Name(Child)) /\ error' = "UNRESOLVED_SYMBOL"
      BY <2>2 DEF UnresolvedSymbol, FailAt, Meets
    <3>2. Faulty(Child) /\ ~Declares(Child)
      BY <1>2, <3>1, NameMeans
    <3>3. error' # "SYMBOL_ALREADY_DEFINED"
      BY <3>1
    <3>4. Declares(Child) \in BOOLEAN
      BY DEF Declares
    <3> QED BY <3>2, <3>3, <3>4
  <2> QED BY <2>1, <2>2
<1>4. \A n \in Met(walk) : ~Faulty(n)
  BY <1>1 DEF LexInv, Found, SymbolsMet
<1>5. ASSUME NEW m \in FaultyNodes, m # Child PROVE Precedes(Child, m)
  <2>1. m \in DOMAIN nodes /\ m \notin Met(walk)
    BY <1>4, <1>5 DEF FaultyNodes
  <2>2. m \in Ahead(walk)
    BY <2>1 DEF Met
  <2> QED BY <1>2, <1>5, <2>2, NextIsFirst
<1>6. FaultyNodes \in SUBSET (DOMAIN nodes) /\ Child \in FaultyNodes
  BY <1>2, <1>3 DEF FaultyNodes
<1>7. First(FaultyNodes) = Child
  <2>1. WholeTree
    BY <1>2 DEF IsWalk
  <2> QED BY <1>5, <1>6, <2>1, FirstOfSet
<1>8. ToReport = Child
  BY <1>2, <1>7 DEF ToReport
<1>9. LexInv'
  BY <1>1, IdleFound
<1> QED BY <1>1, <1>3, <1>6, <1>8, <1>9 DEF Reported

-------------------------------------------------------------------------------
(* The walk of the resolver of archetypes *)

\* The archetype found is the last created under the name.
LEMMA FindsNewest ==
    ASSUME Inv, NEW x
    PROVE  /\ Find(x) = NoArchetype => \A a \in DOMAIN archetypes : archetypes[a] # x
           /\ Find(x) # NoArchetype =>
                 /\ Find(x) \in DOMAIN archetypes /\ archetypes[Find(x)] = x
                 /\ \A a \in Find(x) + 1..Len(archetypes) : archetypes[a] # x
<1>1. archetypes \in Seq(Stored) /\ DOMAIN archetypes = 1..Len(archetypes) /\ Len(archetypes) \in Nat
  BY DEF Inv, BoundsInv
<1>2. CASE Named(x) = {}
  <2>1. Find(x) = NoArchetype
    BY <1>2 DEF Find
  <2> QED BY <1>2, <2>1 DEF Named
<1>3. CASE Named(x) # {}
  <2>1. Named(x) \in SUBSET (0..Len(archetypes))
    BY <1>1 DEF Named
  <2>2. PICK m \in Named(x) : \A b \in Named(x) : b <= m
    BY <1>1, <1>3, <2>1, GreatestElement
  <2>3. Find(x) \in Named(x) /\ \A b \in Named(x) : b <= Find(x)
    BY <1>3, <2>2 DEF Find
  <2>4. Find(x) \in 1..Len(archetypes) /\ archetypes[Find(x)] = x
    BY <1>1, <2>3 DEF Named
  <2>5. ASSUME NEW a \in Find(x) + 1..Len(archetypes) PROVE archetypes[a] # x
    <3>1. a \in 1..Len(archetypes) /\ ~(a <= Find(x))
      BY <1>1, <2>4
    <3> QED BY <1>1, <2>3, <3>1 DEF Named
  <2>6. Find(x) # NoArchetype
    BY <2>4 DEF NoArchetype
  <2> QED BY <1>1, <2>4, <2>5, <2>6
<1> QED BY <1>2, <1>3

\* A step down of the second walk.
LEMMA TypesDescend ==
    ASSUME Inv, LexInv, phase = "archetypes", Top.todo # <<>>, Descend,
           UNCHANGED <<nodes, phase, archetypes, error, reference>>,
           \A n \in DOMAIN nodes : n # Child => archetype'[n] = archetype[n],
           Mentions(Child) # "" =>
               Find(Mentions(Child)) # NoArchetype /\ archetype'[Child] = Find(Mentions(Child))
    PROVE  LexInv'
<1>1. Enters(walk, walk', Child)
  BY DescendEnters
<1>2. TypesMet(walk, reference, archetype) /\ error = "" /\ Lexical(reference)
  BY DEF LexInv, Found
<1>3. Met(walk') \subseteq Met(walk) \cup {Child} /\ Met(walk') \subseteq DOMAIN nodes
  BY <1>1 DEF Met, Enters
<1>4. ASSUME NEW n \in Met(walk'), Mentions(n) # ""
      PROVE  Find(Mentions(n)) # NoArchetype /\ archetype'[n] = Find(Mentions(n))
  <2>1. CASE n = Child
    BY <1>4, <2>1
  <2>2. CASE n # Child
    BY <1>2, <1>3, <1>4, <2>2 DEF TypesMet
  <2> QED BY <2>1, <2>2
<1>5. TypesMet(walk', reference', archetype')
  BY <1>1, <1>2, <1>4 DEF TypesMet, Enters
<1>6. OnPath(walk')
  BY <1>1 DEF Enters, IsWalk
<1>7. Found(phase', walk', symbols', reference', archetype')
  BY <1>2, <1>5, <1>6 DEF Found
<1> QED BY <1>2, <1>7, FoundKept

\* A mention of a type finds the newest archetype of its name.
LEMMA TypeFound ==
    ASSUME Inv, LexInv, ArchetypeInv, ResolveArchetype \/ NoArchetypeMentioned
    PROVE  LexInv' /\ phase' = "archetypes"
<1>1. /\ phase = "archetypes" /\ Top.todo # <<>> /\ Descend
      /\ UNCHANGED <<nodes, phase, archetypes, error, reference>>
  BY DEF ResolveArchetype, NoArchetypeMentioned, Meets
<1>2. Child \in DOMAIN nodes
  BY <1>1, Walking
<1>3. CASE ResolveArchetype
  <2>1. /\ Find(Mentions(Child)) # NoArchetype
        /\ archetype' = [archetype EXCEPT ![Child] = Find(Mentions(Child))]
    BY <1>3 DEF ResolveArchetype
  <2>2. DOMAIN archetype = DOMAIN nodes
    BY DEF ArchetypeInv
  <2>3. /\ archetype'[Child] = Find(Mentions(Child))
        /\ \A n \in DOMAIN nodes : n # Child => archetype'[n] = archetype[n]
    BY <1>2, <2>1, <2>2
  <2> QED BY <1>1, <2>1, <2>3, TypesDescend
<1>4. CASE NoArchetypeMentioned
  <2>1. Mentions(Child) = "" /\ archetype' = archetype
    BY <1>4 DEF NoArchetypeMentioned
  <2> QED BY <1>1, <2>1, TypesDescend
<1> QED BY <1>3, <1>4

\* The second walk ends when it has met every node.
LEMMA NodeLeft ==
    ASSUME Inv, LexInv, LeaveNode
    PROVE  /\ LexInv'
           /\ phase' = "idle" => Met(walk) = DOMAIN nodes /\ error' = ""
<1>1. /\ phase = "archetypes" /\ Top.todo = <<>>
      /\ UNCHANGED <<nodes, symbols, reference, archetype, archetypes, error>>
  BY DEF LeaveNode, Ascend
<1>2. IsWalk(walk) /\ Top = walk[1] /\ Lexical(reference) /\ error = "" /\ walk[1].todo = <<>>
  BY <1>1, Walking
<1>3. CASE Len(walk) > 1
  <2>1. walk' = Tail(walk) /\ UNCHANGED phase
    BY <1>3 DEF LeaveNode, Ascend
  <2>2. IsWalk(walk') /\ Ahead(walk') = Ahead(walk)
    BY <1>2, <1>3, <2>1, WalkAscends
  <2>3. Met(walk') = Met(walk) /\ (Ordered(walk) => Ordered(walk'))
    BY <2>2 DEF Met, Ordered
  <2>4. TypesMet(walk, reference, archetype)
    BY <1>1 DEF LexInv, Found
  <2>5. TypesMet(walk', reference', archetype')
    BY <1>1, <2>3, <2>4 DEF TypesMet
  <2>6. Found(phase', walk', symbols', reference', archetype')
    BY <1>1, <1>2, <2>1, <2>2, <2>5 DEF Found, IsWalk
  <2> QED BY <1>1, <1>2, <2>1, <2>6, FoundKept
<1>4. CASE ~(Len(walk) > 1)
  <2>1. phase' = "idle"
    BY <1>4 DEF LeaveNode, Ascend
  <2>2. Met(walk) = DOMAIN nodes
    BY <1>2, <1>4, NothingAhead
  <2> QED BY <1>1, <1>2, <2>1, <2>2, IdleFound
<1> QED BY <1>3, <1>4

\* What ArchetypesAreNewest says of a step that ends a compilation.
Unknown(n) == Mentions(n) # "" /\ Mentions(n) \notin {archetypes[a] : a \in DOMAIN archetypes}
Newest(n, a) ==
    /\ archetypes[a] = Mentions(n)
    /\ \A b \in a + 1..Len(archetypes) : archetypes[b] # Mentions(n)
Ended ==
    LET unknown == {n \in DOMAIN nodes : Unknown(n)} IN
    IF error' = ""
    THEN unknown = {} /\ \A n \in DOMAIN nodes : Mentions(n) # "" => Newest(n, archetype'[n])
    ELSE unknown # {} /\ span' = First(unknown)

\* A type is unknown when the search among the archetypes finds none.
LEMMA UnknownIsNotFound ==
    ASSUME Inv, NEW n
    PROVE  Unknown(n) <=> Mentions(n) # "" /\ Find(Mentions(n)) = NoArchetype
<1>1. /\ Find(Mentions(n)) = NoArchetype => \A a \in DOMAIN archetypes : archetypes[a] # Mentions(n)
      /\ Find(Mentions(n)) # NoArchetype =>
            Find(Mentions(n)) \in DOMAIN archetypes /\ archetypes[Find(Mentions(n))] = Mentions(n)
  BY FindsNewest
<1> QED BY <1>1 DEF Unknown

\* When the second walk ends without an error, every type was found.
LEMMA LeaveEnds ==
    ASSUME Inv, LexInv, LeaveNode, phase' = "idle"
    PROVE  Ended
<1>1. Met(walk) = DOMAIN nodes /\ error' = "" /\ UNCHANGED archetype /\ phase = "archetypes"
  BY NodeLeft DEF LeaveNode
<1>2. \A n \in DOMAIN nodes : Mentions(n) # "" =>
         Find(Mentions(n)) # NoArchetype /\ archetype[n] = Find(Mentions(n))
  BY <1>1 DEF LexInv, Found, TypesMet
<1>3. \A n \in DOMAIN nodes : ~Unknown(n)
  BY <1>2, UnknownIsNotFound
<1>4. ASSUME NEW n \in DOMAIN nodes, Mentions(n) # "" PROVE Newest(n, archetype'[n])
  <2>1. /\ Find(Mentions(n)) # NoArchetype /\ archetype'[n] = Find(Mentions(n))
    BY <1>1, <1>2, <1>4
  <2>2. /\ archetypes[Find(Mentions(n))] = Mentions(n)
        /\ \A a \in Find(Mentions(n)) + 1..Len(archetypes) : archetypes[a] # Mentions(n)
    BY <2>1, FindsNewest
  <2> QED BY <2>1, <2>2 DEF Newest
<1> QED BY <1>1, <1>3, <1>4 DEF Ended

\* When it ends with one, the name reported is not found.
LEMMA NotFoundEnds ==
    ASSUME Inv, LexInv, ArchetypeNotFound
    PROVE  LexInv' /\ Ended
<1>1. /\ phase = "archetypes" /\ Top.todo # <<>> /\ span' = Child /\ phase' = "idle"
      /\ error' = "ARCHETYPE_NOT_FOUND" /\ UNCHANGED <<nodes, reference>>
      /\ Mentions(Child) # "" /\ Find(Mentions(Child)) = NoArchetype
  BY DEF ArchetypeNotFound, FailAt, Meets
<1>2. /\ IsWalk(walk) /\ WholeTree /\ Child = Head(walk[1].todo) /\ Child \in DOMAIN nodes
      /\ walk[1].todo # <<>>
  BY <1>1, Walking
<1>3. TypesMet(walk, reference, archetype)
  BY <1>1 DEF LexInv, Found
<1> DEFINE unknown == {n \in DOMAIN nodes : Unknown(n)}
<1>4. Child \in unknown /\ unknown \in SUBSET (DOMAIN nodes)
  BY <1>1, <1>2, UnknownIsNotFound
<1>5. ASSUME NEW m \in unknown, m # Child PROVE Precedes(Child, m)
  <2>1. m \in DOMAIN nodes /\ Mentions(m) # "" /\ Find(Mentions(m)) = NoArchetype
    BY <1>5, UnknownIsNotFound
  <2>2. m \in Ahead(walk)
    BY <1>3, <2>1 DEF TypesMet, Met
  <2> QED BY <1>2, <1>5, <2>2, NextIsFirst
<1>6. First(unknown) = Child
  <2> HIDE DEF unknown
  <2> QED BY <1>2, <1>4, <1>5, FirstOfSet
<1>7. error' # ""
  BY <1>1
<1>8. Ended
  BY <1>1, <1>4, <1>6, <1>7 DEF Ended
<1>9. LexInv'
  BY <1>1, IdleFound
<1> QED BY <1>8, <1>9

-------------------------------------------------------------------------------
(* The theorems *)

\* Every step of the resolver of symbols.
LEMMA SymbolsLex ==
    ASSUME Inv, LexInv, ResolveSymbols
    PROVE  /\ LexInv'
           /\ phase' = "archetypes" => FaultyNodes = {}
           /\ phase' = "idle" => Reported
<1>1. CASE MeetFunction \/ MeetStatement
  <2>1. phase' = "functions"
    BY <1>1 DEF MeetFunction, MeetStatement
  <2> QED BY <1>1, <2>1, FunctionsFound
<1>2. CASE MeetFunctionTwice
  BY <1>2, FunctionReported DEF Reported
<1>3. CASE BeginScopedWalk
  <2>1. phase' = "symbols"
    BY <1>3 DEF BeginScopedWalk, Begin
  <2> QED BY <1>3, <2>1, BeginFound
<1>4. CASE DeclareVariable \/ ResolveSymbol \/ EnterNode
  <2>1. phase' = "symbols"
    BY <1>4 DEF DeclareVariable, ResolveSymbol, EnterNode, Meets
  <2> QED BY <1>4, <2>1, DeclareFound, ResolveFound, EnterFound
<1>5. CASE DeclareTwice \/ UnresolvedSymbol
  BY <1>5, NodeReported DEF Reported
<1>6. CASE LeaveScope
  <2>1. phase' # "idle"
    BY <1>6 DEF LeaveScope, Ascend, Begin
  <2> QED BY <1>6, <2>1, LeaveFound
<1> QED BY <1>1, <1>2, <1>3, <1>4, <1>5, <1>6 DEF ResolveSymbols

\* Every step of the resolver of archetypes.
LEMMA ArchetypesLex ==
    ASSUME Inv, LexInv, ArchetypeInv, ResolveArchetypes
    PROVE  /\ LexInv'
           /\ phase' = "idle" => Ended
<1>1. CASE ResolveArchetype \/ NoArchetypeMentioned
  BY <1>1, TypeFound
<1>2. CASE ArchetypeNotFound
  BY <1>2, NotFoundEnds
<1>3. CASE LeaveNode
  BY <1>3, NodeLeft, LeaveEnds
<1> QED BY <1>1, <1>2, <1>3 DEF ResolveArchetypes

\* The state lemmas hold throughout.
LEMMA TypesInductive == Spec => [](Inv /\ ArchetypeInv)
<1>1. TypeOK => ArchetypeInv
  BY DEF TypeOK, ArchetypeInv
<1> QED BY <1>1, InvInductive, TypeCorrect, PTL

\* the three facts of the induction
LEMMA LexInductive == Spec => []LexInv
<1>1. Init => LexInv
  <2>1. Init => Blank
    BY DEF Init, Blank
  <2> QED BY <2>1, BlankFound
<1>2. LexInv /\ Inv /\ ArchetypeInv /\ [Next]_vars => LexInv'
  <2> SUFFICES ASSUME LexInv, Inv, ArchetypeInv, [Next]_vars PROVE LexInv'
    OBVIOUS
  <2>1. ASSUME NEW name \in ArchetypeNames, CreateArchetype(name) PROVE LexInv'
    <3>1. UNCHANGED <<nodes, reference>> /\ phase' = "idle"
      BY <2>1 DEF CreateArchetype
    <3> QED BY <3>1, IdleFound
  <2>2. ASSUME compiled < Compilations, NEW tree \in Trees(compiled, Len(archetypes)), Compile(tree)
        PROVE  LexInv'
    BY <2>2, CompileFound
  <2>3. CASE ParseFails
    BY <2>3, ParseFailsFound DEF ParseFails
  <2>4. CASE Analyze
    BY <2>4, SymbolsLex, ArchetypesLex DEF Analyze
  <2>5. CASE UNCHANGED vars
    <3>1. UNCHANGED <<nodes, archetypes, phase, walk, symbols, reference, archetype, error>>
      BY <2>5 DEF vars, analyzerVars
    <3>2. Found(phase', walk', symbols', reference', archetype')
      <4>1. Found(phase, walk, symbols, reference, archetype)
        BY DEF LexInv
      <4> QED BY <3>1, <4>1
    <3>3. phase' # "idle" => error' = ""
      BY <3>1 DEF LexInv
    <3> QED BY <3>1, <3>2, <3>3, FoundKept
  <2> QED BY <2>1, <2>2, <2>3, <2>4, <2>5 DEF Next
<1> QED BY <1>1, <1>2, TypesInductive, PTL DEF Spec

\* A name refers to the one declaration whose scope it stands in, for every tree: what the
\* walk with its growing and shrinking table computes (symbol.h:53-95) is what the rules of
\* scope say, and at the end of the walk no name is left without a declaration.
THEOREM ReferencesLexical == Spec => []ReferencesAreLexical
<1>1. LexInv => ReferencesAreLexical
  BY DEF LexInv, Found, Lexical, TypesMet, ReferencesAreLexical
<1> QED BY <1>1, LexInductive, PTL

\* For every tree the resolver of symbols accepts a source exactly when it breaks no rule,
\* and reports the first node that does (symbol.h:22-98, analyzer.h:47-68): no name left in
\* the table by an earlier compilation, a block or a function shows in it.
THEOREM VerdictRight == Spec => VerdictIsRight
<1> DEFINE Resolving == phase \in {"functions", "symbols"}
           Step ==
              /\ Resolving /\ phase' = "archetypes" => FaultyNodes = {}
              /\ Resolving /\ phase' = "idle" =>
                    /\ FaultyNodes # {} /\ span' = ToReport
                    /\ (error' = "SYMBOL_ALREADY_DEFINED") = Declares(span')
<1>1. Inv /\ LexInv /\ [Next]_vars => [Step]_vars
  <2> SUFFICES ASSUME Inv, LexInv, Next, Resolving, phase' \in {"archetypes", "idle"}
               PROVE  Step
    OBVIOUS
  <2>1. ResolveSymbols
    <3>1. phase # "idle" /\ phase # "archetypes"
      OBVIOUS
    <3> QED BY <3>1 DEF Next, CreateArchetype, Compile, ParseFails, Analyze, ResolveArchetypes,
               ResolveArchetype, ArchetypeNotFound, NoArchetypeMentioned, LeaveNode, Meets
  <2> QED BY <2>1, SymbolsLex DEF Reported
<1>2. VerdictIsRight <=> [][Step]_vars
  BY DEF VerdictIsRight
<1> QED BY <1>1, <1>2, InvInductive, LexInductive, PTL DEF Spec

\* When a compilation succeeds every type its source mentions is the archetype last created
\* under that name; it fails only for the first name no archetype is stored under
\* (archetype.h, nu__archetype_find), for every tree and every history of the host's calls.
THEOREM ArchetypesNewest == Spec => ArchetypesAreNewest
<1> DEFINE Step ==
        phase = "archetypes" /\ phase' = "idle" =>
          LET Unknown_(n) == Mentions(n) # "" /\ Mentions(n) \notin {archetypes[a] : a \in DOMAIN archetypes}
              unknown == {n \in DOMAIN nodes : Unknown_(n)}
              Newest_(n) ==
                  /\ archetypes[archetype'[n]] = Mentions(n)
                  /\ \A a \in archetype'[n] + 1..Len(archetypes) : archetypes[a] # Mentions(n)
          IN IF error' = ""
             THEN unknown = {} /\ \A n \in DOMAIN nodes : Mentions(n) # "" => Newest_(n)
             ELSE unknown # {} /\ span' = First(unknown)
<1>1. Inv /\ ArchetypeInv /\ LexInv /\ [Next]_vars => [Step]_vars
  <2> SUFFICES ASSUME Inv, ArchetypeInv, LexInv, Next, phase = "archetypes", phase' = "idle"
               PROVE  Step
    OBVIOUS
  <2>1. ResolveArchetypes
    BY DEF Next, CreateArchetype, Compile, ParseFails, Analyze, ResolveSymbols, MeetFunction,
       MeetFunctionTwice, MeetStatement, BeginScopedWalk, DeclareVariable, DeclareTwice,
       ResolveSymbol, UnresolvedSymbol, EnterNode, LeaveScope, Meets
  <2>2. Ended
    BY <2>1, ArchetypesLex
  <2> QED BY <2>2 DEF Ended, Unknown, Newest
<1>2. ArchetypesAreNewest <=> [][Step]_vars
  BY DEF ArchetypesAreNewest
<1> QED BY <1>1, <1>2, TypesInductive, LexInductive, PTL DEF Spec
===============================================================================
