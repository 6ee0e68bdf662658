---------------------------------- MODULE Shapes --------------------------------
(***************************************************************************)
(* What the children of a node are while a parsing function of             *)
(* nucleus/lang/parser.h builds it. A node takes its children one by one:  *)
(* the kind of a node is its type and how far it has come. The kinds of    *)
(* node a local may hold at an instruction are read off the text of the    *)
(* programs, as in module Ownership the locals that hold one.              *)
(***************************************************************************)
EXTENDS Ownership

Names == {"SYMREF", "MEMBER"}
Callees == Names \cup {"BUILTIN"}

-------------------------------------------------------------------------------
(* Growing nodes *)

Stages == 0..3
Done == 4       \* the node has all the children it needs

\* A node of this type at stage "at" takes a child of type "kid" and is at stage "to".
Takes(type, at, kid, to) ==
    \/ type \in {"MODULE", "COMPOUND"} /\ at = 0 /\ kid \in Statements /\ to = 0
    \/ type \in {"VARDECL", "RETURN", "UNOP", "BINOP", "WHILE", "IF"}
          /\ at = 0 /\ kid \in Expressions /\ to = 1
    \/ type = "BINOP" /\ at = 1 /\ kid \in Expressions /\ to = 2
    \/ type = "ASSIGN" /\ at = 0 /\ kid \in Names /\ to = 1
    \/ type = "ASSIGN" /\ at = 1 /\ kid \in Expressions /\ to = 2
    \/ type \in {"WHILE", "IF"} /\ at = 1 /\ kid = "COMPOUND" /\ to = 2
    \/ type = "IF" /\ at = 2 /\ kid \in Expressions /\ to = 1
    \/ type = "IF" /\ at = 2 /\ kid = "COMPOUND" /\ to = 3
    \/ type = "FUNDECL" /\ at = 0 /\ kid = "ARGDECL" /\ to = 0
    \/ type = "FUNDECL" /\ at = 0 /\ kid = "COMPOUND" /\ to = 1
    \/ type = "CALL" /\ at = 0 /\ kid \in Callees /\ to = 1
    \/ type = "CALL" /\ at = 1 /\ kid \in Expressions /\ to = 1

Final(type) ==
    CASE type \in {"BINOP", "ASSIGN", "WHILE"} -> {2}
      [] type = "IF" -> {2, 3}
      [] type \in {"VARDECL", "RETURN", "UNOP", "FUNDECL", "CALL"} -> {1}
      [] type = "MEMBER" -> {}      \* is made with its child
      [] OTHER -> {0}

\* The children of n have brought it to this stage.
Reaches(tree, n, stage) ==
    LET kids == Children(tree, n) IN
    \E run \in [0..Len(kids) -> Stages] :
        /\ run[0] = 0 /\ run[Len(kids)] = stage
        /\ \A i \in 1..Len(kids) : Takes(tree[n].type, run[i - 1], tree[kids[i]].type, run[i])

Kind(type, stage) == [type |-> type, stage |-> stage]
Is(tree, n, kind) ==
    /\ tree[n].type = kind.type
    /\ IF kind.stage = Done THEN HasShape(tree, n) ELSE Reaches(tree, n, kind.stage)
IsOneOf(tree, n, kinds) == \E kind \in kinds : Is(tree, n, kind)

-------------------------------------------------------------------------------
(* The programs *)

Whole(kind) == kind.stage = Done \/ kind.stage \in Final(kind.type)
Fits(kind, kinds) == kind \in kinds \/ (Whole(kind) /\ Kind(kind.type, Done) \in kinds)
WholeOf(types) == {Kind(t, Done) : t \in types}
TypesOf(kinds) == {kind.type : kind \in kinds}
AreWhole(kinds) == \A kind \in kinds : Whole(kind)

TakeAll(kinds, types) ==
    \A kind \in kinds : \A t \in types : \E to \in Stages : Takes(kind.type, kind.stage, t, to)
Grown(kinds, types) ==
    UNION {{Kind(kind.type, to) : to \in {s \in Stages : \E t \in types : Takes(kind.type, kind.stage, t, s)}} :
               kind \in kinds}

\* A receiver is handed a name, or what can be called; the other functions get nothing.
Classes(fn) == IF fn \in {"member_chain", "try_call", "call"} THEN {Names, Callees} ELSE {Names}
ClassFor(callee, kinds) ==
    IF callee \in Receivers /\ ~(TypesOf(kinds) \subseteq Names) THEN Callees ELSE Names

\* The types of the nodes a maker returns.
Returned(fn, class) ==
    CASE fn = "symbol" -> {"SYMREF"}
      [] fn = "member_chain" -> class
      [] fn = "call" -> {"CALL"}
      [] fn \in {"stmt", "vardecl", "fundecl", "return", "if", "while", "stmt_identifier",
                 "assign"} -> Statements
      [] fn \in {"non_stmt", "identifier_as_stmt", "unexpected_binop", "invalid_atom"} -> {}
      [] fn \in {"expr", "primary", "primary_paren"} -> Expressions
      [] OTHER -> Expressions \ {"BINOP"}

Targets(instr) ==
    {instr.targets[t] : t \in DOMAIN instr.targets \ Unfinished} \cup {instr.default}

\* what an instruction does to the kinds of node the locals may hold
KindsAfter(instr, kinds) ==
    CASE instr.op = "add" -> [kinds EXCEPT ![instr.into] = {Kind(instr.type, 0)}]
      [] instr.op = "member" ->
             [kinds EXCEPT !["node"] =
                 WholeOf({IF t = "BUILTIN" THEN t ELSE "MEMBER" : t \in TypesOf(kinds["arg"])})]
      [] instr.op = "append" ->
             [kinds EXCEPT ![instr.parent] = Grown(kinds[instr.parent], TypesOf(kinds[instr.child]))]
      [] instr.op = "move" -> [kinds EXCEPT ![instr.to] = kinds[instr.from]]
      [] instr.op = "call" /\ instr.fn \in Bodies ->
             [kinds EXCEPT !["node"] = Grown(kinds["node"], {"COMPOUND"})]
      [] instr.op = "call" /\ instr.fn \in Makers ->
             [kinds EXCEPT ![instr.into] =
                 WholeOf(Returned(instr.fn, ClassFor(instr.fn, kinds[instr.arg])))]
      [] instr.op = "switch" ->
             [kinds EXCEPT !["ret"] =
                 WholeOf(UNION {Returned(fn, ClassFor(fn, kinds["arg"])) : fn \in Targets(instr)})]
      [] OTHER -> kinds

\* The kinds of node the locals may hold in front of each instruction, in a call that
\* was handed a node of the class.
Kinds == [fn \in DOMAIN Program |-> [class \in {Names, Callees} |->
    LET kinds[pc \in DOMAIN Program[fn]] ==
            IF pc = 1 THEN [r \in Registers |-> IF r \in Passed(fn, "arg") THEN WholeOf(class) ELSE {}]
            ELSE LET before == {p \in 1..pc - 1 : pc \in Successors(Program[fn][p], p)}
                 IN [r \in Registers |-> UNION {KindsAfter(Program[fn][p], kinds[p])[r] : p \in before}]
    IN [pc \in DOMAIN Program[fn] |-> kinds[pc]]]]

\* A caller hands over a whole node of a class the callee is written for, and its own
\* node takes the block the callee appends to it.
PassesRight(callee, arg, kinds) ==
    /\ callee \in Receivers =>
          /\ AreWhole(kinds[arg])
          /\ TypesOf(kinds[arg]) \subseteq ClassFor(callee, kinds[arg])
    /\ ClassFor(callee, kinds[arg]) \in Classes(callee)
    /\ callee \in Bodies => TakeAll(kinds["node"], {"COMPOUND"})

\* Only whole nodes are appended, handed over and returned, a parent takes every child it
\* is given, and on every way to an instruction the locals hold what the table says.
ShapesRight(fn, class, pc) ==
    LET instr == Program[fn][pc]
        kinds == Kinds[fn][class][pc]
    IN /\ \A next \in Successors(instr, pc) : \A r \in Owned[fn][next] :
              \A kind \in KindsAfter(instr, kinds)[r] : Fits(kind, Kinds[fn][class][next][r])
       /\ instr.op = "member" => AreWhole(kinds["arg"]) /\ TypesOf(kinds["arg"]) \subseteq Callees
       /\ instr.op = "append" =>
              /\ AreWhole(kinds[instr.child])
              /\ IF instr.parent \in Owned[fn][pc] THEN TakeAll(kinds[instr.parent], TypesOf(kinds[instr.child]))
                 ELSE TypesOf(kinds[instr.child]) \subseteq
                          (IF fn \in Bodies /\ pc = 2 THEN {"COMPOUND"} ELSE Statements)
       /\ instr.op = "call" => PassesRight(instr.fn, instr.arg, kinds)
       /\ instr.op = "switch" => \A callee \in Targets(instr) : PassesRight(callee, "arg", kinds)
       /\ instr.op = "return" /\ fn \in Makers =>
              AreWhole(kinds[instr.reg]) /\ TypesOf(kinds[instr.reg]) \subseteq Returned(fn, class)

\* A statement about the text of the programs.
ASSUME ProgramsShapeRight ==
    \A fn \in DOMAIN Program \ {"nothing"} : \A class \in Classes(fn) :
        /\ Kinds[fn][class][1]["arg"] = IF fn \in Receivers THEN WholeOf(class) ELSE {}
        /\ \A pc \in DOMAIN Program[fn] :
              /\ DOMAIN Kinds[fn][class][pc] = Registers
              /\ \A r \in Registers : \A kind \in Kinds[fn][class][pc][r] : kind.stage \in Stages \cup {Done}
              /\ ShapesRight(fn, class, pc)

\* Only nulang__parse_expr makes operators and gives them operands, and only
\* nulang__parse_primary goes into parentheses.
ASSUME ProgramsNestRight ==
    \A fn \in DOMAIN Program \ {"expr"} : \A pc \in DOMAIN Program[fn] :
        LET instr == Program[fn][pc] IN
        /\ instr.op = "add" => instr.type # "BINOP"
        /\ instr.op = "append" /\ instr.parent \in Owned[fn][pc] =>
              \A class \in Classes(fn) : "BINOP" \notin TypesOf(Kinds[fn][class][pc][instr.parent])
        /\ instr.op = "call" => instr.fn # "primary_paren"
        /\ instr.op = "switch" /\ fn # "primary" =>
              \A t \in DOMAIN instr.targets : instr.targets[t] # "primary_paren"
        /\ instr.op = "switch" => instr.default # "primary_paren"
===============================================================================
