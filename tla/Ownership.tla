-------------------------------- MODULE Ownership ------------------------------
(***************************************************************************)
(* Who has a node of the syntax tree before it is in the tree. A parsing   *)
(* function of nucleus/lang/parser.h makes a node, keeps its id in a local *)
(* variable, passes it on or returns it, and some function appends it to   *)
(* its parent. What a local holds at an instruction is read off the text   *)
(* of the programs, as a compiler would; what the running calls hold are   *)
(* then all the nodes that still have no parent, each of them once.        *)
(***************************************************************************)
EXTENDS Parser

Registers == {"node", "arg", "lhs", "ret"}

\* The keywords on which nulang__parse_stmt returns without a node.
Unfinished == {"export", "for", "break", "continue"}
StatementsAreFinished == \A v \in Vocabularies : \A t \in v.tokens : t.type \notin Unfinished

-------------------------------------------------------------------------------
(* The programs *)

\* Functions that are handed a node to find a place for; the others get none, or one
\* that its caller keeps.
Receivers == {"assign", "call", "try_call", "member_chain", "identifier_as_stmt"}
\* nulang__parse_body and nulang__parse_if_body make a block and append it themselves.
Bodies == {"body", "if_body"}
\* Functions that return a node their caller has to find a place for.
Makers == DOMAIN Program \ (Bodies \cup {"parse", "vartype", "nothing"})

Passed(callee, arg) == IF callee \in Receivers THEN {arg} ELSE {}
Made(callee, into) == IF callee \in Makers THEN {into} ELSE {}

Successors(instr, pc) ==
    CASE instr.op \in {"return", "return_vartype", "fail"} -> {}
      [] instr.op = "test" -> {pc + 1, pc + 1 + instr.by}
      [] instr.op = "skip" -> {pc + 1 + instr.by}
      [] OTHER -> {pc + 1}

\* what an instruction does to the locals that hold a node without a parent
After(instr, owned) ==
    CASE instr.op = "add" -> owned \cup {instr.into}
      [] instr.op = "member" -> (owned \ {"arg"}) \cup {"node"}
      [] instr.op = "append" -> owned \ {instr.child}
      [] instr.op = "move" -> (owned \ {instr.from}) \cup {instr.to}
      [] instr.op = "call" -> (owned \ Passed(instr.fn, instr.arg)) \cup Made(instr.fn, instr.into)
      [] instr.op = "switch" -> (owned \ Passed(instr.default, "arg")) \cup {"ret"}
      [] OTHER -> owned

\* The locals that hold a node without a parent in front of each instruction.
Owned == [fn \in DOMAIN Program |->
    LET owned[pc \in DOMAIN Program[fn]] ==
            IF pc = 1 THEN Passed(fn, "arg")
            ELSE LET before == CHOOSE p \in 1..pc - 1 : pc \in Successors(Program[fn][p], p)
                 IN After(Program[fn][before], owned[before])
    IN [pc \in DOMAIN Program[fn] |-> owned[pc]]]

\* Programs stay in their text and name what there is.
IsInstruction(fn, pc) ==
    LET instr == Program[fn][pc]
        callees == DOMAIN Program \ {"parse"}
    IN /\ Successors(instr, pc) \subseteq DOMAIN Program[fn]
       /\ instr.op \in {"test", "skip"} => instr.by \in Int
       /\ instr.op = "expect" => instr.type # "none"
       /\ instr.op = "add" => instr.type \in NodeTypes /\ instr.into \in Registers
       /\ instr.op = "append" => {instr.parent, instr.child} \subseteq Registers
       /\ instr.op = "move" => {instr.from, instr.to} \subseteq Registers
       /\ instr.op = "call" => instr.fn \in callees /\ {instr.arg, instr.into} \subseteq Registers
       /\ instr.op = "switch" =>
              instr.default \in callees /\ \A t \in DOMAIN instr.targets : instr.targets[t] \in callees
       /\ instr.op = "return" => instr.reg \in Registers
       /\ instr.op = "return_vartype" => fn = "vartype"
       /\ instr.op = "fail" => instr.error # ""

\* A caller passes on a node it holds, and has a free local for the one it is returned.
CallsRight(fn, owned, callee, arg, into) ==
    LET kept == owned \ Passed(callee, arg) IN
    /\ callee # "nothing"
    /\ Passed(callee, arg) \subseteq owned
    /\ into \notin kept
    /\ callee \in Bodies => arg = "node" /\ "node" \in kept
    /\ into = "node" => fn \notin Bodies \cup {"parse"}

\* The parents to which a program appends: a node it has made, the module, or, in a
\* body, first the node the body belongs to and then the block.
Parents(fn, pc) ==
    IF fn \in Bodies THEN {IF pc = 2 THEN "arg" ELSE "node"}
    ELSE Owned[fn][pc] \cup (IF fn = "parse" THEN {"node"} ELSE {})

\* Whatever way leads to an instruction, the same locals hold a node; none is
\* overwritten before its node has a place, none is used before it holds one.
OwnsRight(fn, pc) ==
    LET instr == Program[fn][pc]
        owned == Owned[fn][pc]
        Right(callee, arg, into) == CallsRight(fn, owned, callee, arg, into)
    IN /\ owned \subseteq Registers
       /\ \A next \in Successors(instr, pc) : Owned[fn][next] = After(instr, owned)
       /\ instr.op = "add" =>
              /\ instr.into \notin owned /\ fn # "parse"
              /\ fn \in Bodies => pc = 1 /\ instr.into = "node"
       /\ instr.op = "member" => {"arg", "node"} \cap owned = {"arg"} /\ fn \notin Bodies \cup {"parse"}
       /\ instr.op = "store_return_type" => "node" \in owned
       /\ instr.op = "append" =>
              instr.child \in owned /\ instr.parent \in Parents(fn, pc) \ {instr.child}
       /\ instr.op = "move" =>
              instr.from \in owned /\ instr.to \notin owned /\ fn \notin Bodies \cup {"parse"}
       /\ instr.op = "call" => Right(instr.fn, instr.arg, instr.into)
       /\ instr.op = "switch" =>
              \A callee \in {instr.targets[t] : t \in DOMAIN instr.targets \ Unfinished}
                            \cup {instr.default} :
                  /\ Right(callee, "arg", "ret") /\ callee \in Makers
                  /\ Passed(callee, "arg") = Passed(instr.default, "arg")
       /\ instr.op = "return" => owned = Made(fn, instr.reg) /\ (fn \in Bodies => instr.reg = "node")
       /\ instr.op = "return" => fn # "vartype"
       /\ instr.op = "return_vartype" => owned = {}
       /\ fn \in Bodies =>
              /\ pc = 1 => instr.op = "add"
              /\ pc = 2 => instr.op = "append" /\ instr.child = "node"
              /\ pc > 2 => Successors(instr, pc) \cap {1, 2} = {}

\* The programs have no parameter: this is a statement about their text.
ASSUME ProgramsOwnRight ==
    /\ \A fn \in DOMAIN Program :
          /\ 1 \in DOMAIN Program[fn] /\ Owned[fn][1] = Passed(fn, "arg")
          /\ \A pc \in DOMAIN Program[fn] : pc \in Nat \ {0} /\ IsInstruction(fn, pc)
    /\ \A fn \in DOMAIN Program \ {"nothing"} : \A pc \in DOMAIN Program[fn] : OwnsRight(fn, pc)

-------------------------------------------------------------------------------
(* The running calls *)

Orphans == {n \in DOMAIN nodes \ {Root} : nodes[n].parent = NodeNull}

\* a caller does not have the result it waits for
Live(i) ==
    LET owned == Owned[stack[i].fn][stack[i].pc]
    IN IF i = 1 THEN owned ELSE owned \ {stack[i - 1].into}

\* At every instant the nodes without a parent are in the hands of the running calls,
\* each in one local of one call: no parse function drops a node, and none returns or
\* keeps a node another one appends (parser.h:283-913).
NodesHaveOneOwner ==
    LET claims == UNION {{i} \X Live(i) : i \in DOMAIN stack}
        Held(claim) == stack[claim[1]][claim[2]]
    IN /\ {Held(c) : c \in claims} = Orphans
       /\ \A c, d \in claims : Held(c) = Held(d) => c = d
===============================================================================
