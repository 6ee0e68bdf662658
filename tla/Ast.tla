----------------------------------- MODULE Ast ---------------------------------
(***************************************************************************)
(* The syntax tree of the nulang compiler (nucleus/lang/ast.h): an arena   *)
(* of nodes filled in order, node 0 its root. A node links to its parent,  *)
(* its first and last child and its next sibling; the null link is         *)
(* NULANG_NODE_NULL. The arena is a function on the allocated ids.         *)
(***************************************************************************)
EXTENDS Integers, Sequences, FiniteSets

NodeNull == -1      \* NULANG_NODE_NULL
Unset == -2         \* a local node id the code has not assigned: any word
Root == 0

NodeTypes == {"MODULE", "FUNDECL", "COMPOUND", "ARGDECL", "LITERAL", "SYMREF", "MEMBER",
              "BUILTIN", "RETURN", "IF", "WHILE", "VARDECL", "CALL", "ASSIGN", "BINOP",
              "UNOP", "INSERT", "SINGLETON"}

\* A node as nulang__add_node leaves it, with the type and the value its caller
\* assigns: "value" is its name, its operator or its kind of builtin, "vartype" its
\* declared type, "span" the token it points the user to.
NewNode(type, value, vartype, span) ==
    [type |-> type, value |-> value, vartype |-> vartype, span |-> span,
     parent |-> NodeNull, first_child |-> NodeNull, last_child |-> NodeNull,
     next_sibling |-> NodeNull]

\* nulang__ast_init, nulang__ast_clear: the root alone, without children
ClearedNodes == [id \in {Root} |-> NewNode("MODULE", "", "", 0)]

AddNode(nodes, id, node) == [i \in DOMAIN nodes \cup {id} |-> IF i = id THEN node ELSE nodes[i]]

\* the assertions of nulang__append_child on nodes of the arena
AppendAllowed(nodes, parent, child) ==
    /\ child # Root
    /\ parent # child
    /\ nodes[parent].last_child # child
    /\ nodes[parent].last_child # parent

AppendForgetsLast(nodes, parent, child) ==
    LET last == nodes[parent].last_child IN
    [n \in DOMAIN nodes |->
        [nodes[n] EXCEPT
            !.next_sibling = IF n = last THEN child ELSE @,
            !.last_child = IF n = parent /\ last = NodeNull THEN child ELSE @,
            !.first_child = IF n = parent /\ last = NodeNull THEN child ELSE @,
            !.parent = IF n = child THEN parent ELSE @]]

AppendAlwaysFirst(nodes, parent, child) ==
    LET last == nodes[parent].last_child IN
    [n \in DOMAIN nodes |->
        [nodes[n] EXCEPT
            !.next_sibling = IF n = last THEN child ELSE @,
            !.last_child = IF n = parent THEN child ELSE @,
            !.first_child = IF n = parent THEN child ELSE @,
            !.parent = IF n = child THEN parent ELSE @]]

AppendChild(nodes, parent, child) ==
    LET last == nodes[parent].last_child IN
    [n \in DOMAIN nodes |->
        [nodes[n] EXCEPT
            !.next_sibling = IF n = last THEN child ELSE @,
            !.last_child = IF n = parent THEN child ELSE @,
            !.first_child = IF n = parent /\ last = NodeNull THEN child ELSE @,
            !.parent = IF n = child THEN parent ELSE @]]

\* The children nulang__iter_childs visits, in order: the first child, then the
\* sibling links, at most one visit per node.
Children(nodes, parent) ==
    IF nodes[parent].first_child = NodeNull THEN <<>> ELSE
    LET size == Cardinality(DOMAIN nodes)
        nth[i \in 1..size + 1] ==
            IF i = 1 THEN nodes[parent].first_child
            ELSE LET elder == nth[i - 1]
                 IN IF elder = NodeNull THEN NodeNull ELSE nodes[elder].next_sibling
        count == CHOOSE k \in 1..size + 1 :
                    /\ nth[k] # NodeNull
                    /\ k <= size => nth[k + 1] = NodeNull
    IN [i \in 1..count |-> nth[i]]

\* The nodes from which "id" is reached by child links, "id" included.
Ancestors(nodes, id) ==
    LET size == Cardinality(DOMAIN nodes)
        up[i \in 0..size] ==
            IF i = 0 THEN id
            ELSE LET below == up[i - 1]
                 IN IF below = NodeNull THEN NodeNull ELSE nodes[below].parent
    IN {up[i] : i \in 0..size} \ {NodeNull}

Subtree(nodes, id) == {n \in DOMAIN nodes : id \in Ancestors(nodes, n)}

-------------------------------------------------------------------------------
(* Well-formed trees *)

\* The children reached by links are exactly the nodes that name the parent, each
\* once, and the last child is the last of them.
ChildrenAgree(nodes) ==
    \A p \in DOMAIN nodes :
        LET kids == Children(nodes, p) IN
        /\ {kids[i] : i \in DOMAIN kids} = {n \in DOMAIN nodes : nodes[n].parent = p}
        /\ \A i, j \in DOMAIN kids : kids[i] = kids[j] => i = j
        /\ nodes[p].last_child = IF kids = <<>> THEN NodeNull ELSE kids[Len(kids)]

\* No node is its own ancestor, and nothing is above the root.
Acyclic(nodes) ==
    /\ nodes[Root].parent = NodeNull
    /\ \A n \in DOMAIN nodes : nodes[n].parent # NodeNull =>
           n \notin Ancestors(nodes, nodes[n].parent)

IsForest(nodes) == ChildrenAgree(nodes) /\ Acyclic(nodes)

\* The forest is one tree: from every node the links to the parent lead to the root.
OneTree(nodes) ==
    /\ Root \in DOMAIN nodes /\ NodeNull \notin DOMAIN nodes /\ Unset \notin DOMAIN nodes
    /\ IsFiniteSet(DOMAIN nodes) /\ IsForest(nodes)
    /\ \A n \in DOMAIN nodes :
          /\ nodes[n].parent \in DOMAIN nodes \cup {NodeNull}
          /\ Root \in Ancestors(nodes, n)

Expressions == {"LITERAL", "SYMREF", "MEMBER", "BUILTIN", "CALL", "INSERT", "SINGLETON",
                "BINOP", "UNOP"}
Statements == {"FUNDECL", "RETURN", "IF", "WHILE", "VARDECL", "ASSIGN", "CALL"}

\* The children of each type of node, as the passes over the tree expect them.
HasShape(nodes, n) ==
    LET kids == Children(nodes, n)
        Kid(i, types) == nodes[kids[i]].type \in types
        Count(k) == Len(kids) = k
    IN CASE nodes[n].type \in {"MODULE", "COMPOUND"} -> \A i \in DOMAIN kids : Kid(i, Statements)
         [] nodes[n].type \in {"VARDECL", "RETURN", "UNOP"} -> Count(1) /\ Kid(1, Expressions)
         [] nodes[n].type = "BINOP" -> Count(2) /\ Kid(1, Expressions) /\ Kid(2, Expressions)
         [] nodes[n].type = "ASSIGN" -> Count(2) /\ Kid(1, {"SYMREF", "MEMBER"}) /\ Kid(2, Expressions)
         [] nodes[n].type = "WHILE" -> Count(2) /\ Kid(1, Expressions) /\ Kid(2, {"COMPOUND"})
         [] nodes[n].type = "IF" ->
                /\ Len(kids) >= 2
                /\ \A i \in DOMAIN kids :
                      Kid(i, IF i % 2 = 1 /\ i < Len(kids) THEN Expressions ELSE {"COMPOUND"})
         [] nodes[n].type = "FUNDECL" ->
                /\ Len(kids) >= 1
                /\ \A i \in DOMAIN kids : Kid(i, IF i < Len(kids) THEN {"ARGDECL"} ELSE {"COMPOUND"})
         [] nodes[n].type = "CALL" ->
                /\ Len(kids) >= 1
                /\ Kid(1, {"SYMREF", "MEMBER", "BUILTIN"})
                /\ \A i \in 2..Len(kids) : Kid(i, Expressions)
         [] nodes[n].type = "MEMBER" -> Count(1) /\ Kid(1, {"SYMREF", "MEMBER"})
         [] OTHER -> Count(0)

\* What the compiler makes of a source: the tree of a module, each node with its children.
IsModule(nodes) ==
    /\ OneTree(nodes) /\ nodes[Root].type = "MODULE"
    /\ \A n \in DOMAIN nodes : HasShape(nodes, n) /\ Children(nodes, n) \in Seq(DOMAIN nodes)
===============================================================================
