------------------------------- MODULE MCCompiler ------------------------------
(***************************************************************************)
(* The parsed sources the compiler is model-checked on: every combination  *)
(* of the statements below. Their nodes are created in the order in which  *)
(* the parser creates them.                                                *)
(***************************************************************************)
EXTENDS Compiler, SequencesExt

\* terms: what a source says
Lit == [kind |-> "literal"]
Ref(x) == [kind |-> "reference", name |-> x]
Insert(a) == [kind |-> "insert", name |-> a]
Let(x, type, expr) == [kind |-> "let", name |-> x, type |-> type, expr |-> expr]
CallOf(x) == [kind |-> "call", name |-> x]
Function(x, type, args, body) ==
    [kind |-> "function", name |-> x, type |-> type, args |-> args, body |-> body]
IfThenElse(cond, body, orelse) == [kind |-> "if", cond |-> cond, bodies |-> <<body, orelse>>]
Arg(x, type) == [name |-> x, type |-> type]

Leaf(tree, type, name, vartype) ==
    LET id == Cardinality(DOMAIN tree)
    IN [tree |-> AddNode(tree, id, NewNode(type, name, vartype, 0)), id |-> id]
Hang(made, parent) == AppendChild(made.tree, parent, made.id)

RECURSIVE Made(_, _), Block(_, _, _)

\* the statements as children of a new compound of the parent
Block(tree, parent, statements) ==
    LET compound == Leaf(tree, "COMPOUND", "", "")
    IN FoldLeft(LAMBDA t, s : Hang(Made(t, s), compound.id), Hang(compound, parent), statements)

\* the tree with the nodes of a term, and the id of the node that stands for it
Made(tree, term) ==
    CASE term.kind = "literal" -> Leaf(tree, "LITERAL", "1", "")
      [] term.kind = "reference" -> Leaf(tree, "SYMREF", term.name, "")
      [] term.kind = "insert" -> Leaf(tree, "INSERT", term.name, "")
      [] term.kind = "let" ->
             LET expr == Made(tree, term.expr)
                 node == Leaf(expr.tree, "VARDECL", term.name, term.type)
             IN [node EXCEPT !.tree = AppendChild(node.tree, node.id, expr.id)]
      [] term.kind = "call" ->
             LET callee == Leaf(tree, "SYMREF", term.name, "")
                 node == Leaf(callee.tree, "CALL", "", "")
             IN [node EXCEPT !.tree = AppendChild(node.tree, node.id, callee.id)]
      [] term.kind = "function" ->
             LET node == Leaf(tree, "FUNDECL", term.name, term.type)
                 withArgs == FoldLeft(LAMBDA t, a : Hang(Leaf(t, "ARGDECL", a.name, a.type), node.id),
                                      node.tree, term.args)
             IN [node EXCEPT !.tree = Block(withArgs, node.id, term.body)]
      [] term.kind = "if" ->
             LET node == Leaf(tree, "IF", "", "")
                 tested == Hang(Made(node.tree, term.cond), node.id)
             IN [node EXCEPT !.tree = FoldLeft(LAMBDA t, b : Block(t, node.id, b), tested, term.bodies)]

Tree(statements) == FoldLeft(LAMBDA t, s : Hang(Made(t, s), Root), ClearedNodes, statements)

-------------------------------------------------------------------------------
Variables == {"x", "y"}
Simple == {Let(x, "", e) : x \in Variables, e \in {Lit, Ref("x"), Ref("y")}}
          \cup {CallOf(x) : x \in Variables}
Bodies == {<<>>} \cup {<<s>> : s \in Simple}
Primitive(x) == Arg(x, "primitive")
Functions == {Function(x, "", args, body) : x \in Variables, body \in Bodies,
              args \in {<<>>, <<Primitive("x")>>}}
Conditionals == {IfThenElse(Lit, body, orelse) : body \in Bodies,
                 orelse \in {<<>>, <<Let("x", "", Lit)>>}}
NestedFunctions == {Function("x", "", <<>>, <<inner, CallOf("y")>>) : inner \in Functions}

UntypedSources ==
    {<<s>> : s \in NestedFunctions \cup {IfThenElse(Ref("x"), <<>>, <<>>),
                Function("x", "", <<Primitive("x"), Primitive("y")>>, <<CallOf("y")>>)}}
    \cup {<<s, t>> : s \in Simple \cup Functions \cup Conditionals, t \in Simple \cup Functions}
    \cup {<<s, t, u>> : s \in Simple, t \in Simple, u \in Simple}

\* types, for archetypes "a" and "b" and one whose name is cut to "a"
TypeNames == {"primitive", "a", "b", "ab"}
TypedSources ==
    {<<Function("x", r, <<Arg("y", s)>>, <<Let("z", t, Insert(u))>>)>> :
        r \in TypeNames \cup {""}, s \in TypeNames, t \in TypeNames, u \in TypeNames \ {"primitive"}}

\* after another source: one that would see the names it left, one that would miss them
LaterSources == {<<Let("x", "", Ref("x"))>>, <<CallOf("y"), Let("y", "", Lit)>>,
                 <<Let("z", "a", Insert("b"))>>}

TreesOf(sources) == {Tree(s) : s \in sources}
UntypedTrees == TreesOf(UntypedSources)
TypedTrees == TreesOf(TypedSources)
LaterTrees == TreesOf(LaterSources)
MCTrees(c, a) == IF c > 0 THEN LaterTrees ELSE IF a > 0 THEN TypedTrees ELSE UntypedTrees
MCNames == {"a", "b", "ab"}
MCIdentifier == [name \in MCNames |-> IF name = "ab" THEN "a" ELSE name]
===============================================================================
