------------------------------ MODULE Parser_proofs ----------------------------
(***************************************************************************)
(* The parser on source texts of every length. What a call in progress     *)
(* holds is a node without a parent that no other call holds, so the       *)
(* append to a parent joins two different trees, and the arena stays a     *)
(* forest in which the links of parents, children and siblings agree. What *)
(* the calls hold are nodes that have come as far as the programs say, so  *)
(* that a node with a parent has all the children its type asks for. Each  *)
(* call knows its first token; that is enough to say how operators nest.   *)
(***************************************************************************)
EXTENDS Shapes, Ast_proofs
-------------------------------------------------------------------------------
(* The call stack *)

IsStack(s) == Len(s) \in Nat /\ s \in Seq(Elements(s))

Replaces(s, t, f) ==
    /\ IsStack(t) /\ Len(t) = Len(s) /\ t[1] = f
    /\ \A i \in 2..Len(s) : t[i] = s[i]
Pushes(s, t, top, caller) ==
    /\ IsStack(t) /\ Len(t) = Len(s) + 1 /\ t[1] = top /\ t[2] = caller
    /\ \A i \in 3..Len(s) + 1 : t[i] = s[i - 1]
Pops(s, t, caller) ==
    /\ IsStack(t) /\ Len(t) = Len(s) - 1 /\ t[1] = caller
    /\ \A i \in 2..Len(s) - 1 : t[i] = s[i + 1]

LEMMA StackOf ==
    ASSUME NEW S, NEW s \in Seq(S)
    PROVE  IsStack(s) /\ DOMAIN s = 1..Len(s)
<1>1. Len(s) \in Nat /\ s \in [1..Len(s) -> S]
  BY LenProperties
<1>2. s \in [1..Len(s) -> Elements(s)]
  BY <1>1 DEF Elements
<1>3. s \in Seq(Elements(s))
  BY <1>1, <1>2, SeqDef
<1> QED BY <1>1, <1>3 DEF IsStack

LEMMA StackReplaced ==
    ASSUME NEW s, IsStack(s), Len(s) # 0, NEW f
    PROVE  Replaces(s, [s EXCEPT ![1] = f], f)
<1> DEFINE S == Elements(s) \cup {f}
           t == [s EXCEPT ![1] = f]
<1>1. s \in Seq(S) /\ Len(s) \in Nat
  BY SeqMonotonic DEF IsStack
<1>2. 1 \in 1..Len(s)
  BY <1>1
<1>3. f \in S
  OBVIOUS
<1> HIDE DEF S
<1>4. t \in Seq(S) /\ Len(t) = Len(s) /\ \A i \in 1..Len(s) : t[i] = IF i = 1 THEN f ELSE s[i]
  BY <1>1, <1>2, <1>3, ExceptSeq
<1>5. IsStack(t)
  BY <1>4, StackOf
<1> HIDE DEF t
<1>6. t[1] = f /\ \A i \in 2..Len(s) : t[i] = s[i]
  BY <1>1, <1>2, <1>4
<1> QED BY <1>4, <1>5, <1>6 DEF Replaces, t

LEMMA StackPushed ==
    ASSUME NEW s, IsStack(s), Len(s) # 0, NEW top, NEW caller
    PROVE  Pushes(s, <<top>> \o [s EXCEPT ![1] = caller], top, caller)
<1> DEFINE r == [s EXCEPT ![1] = caller]
           S == Elements(r) \cup {top}
           t == <<top>> \o r
<1>1. IsStack(r) /\ Len(r) = Len(s) /\ r[1] = caller /\ \A i \in 2..Len(s) : r[i] = s[i]
  BY StackReplaced DEF Replaces
<1> HIDE DEF r
<1>2. r \in Seq(S) /\ Len(r) \in Nat
  BY <1>1, SeqMonotonic DEF IsStack
<1>3. <<top>> \in Seq(S) /\ Len(<<top>>) = 1 /\ <<top>>[1] = top
  OBVIOUS
<1> HIDE DEF S
<1>4. /\ t \in Seq(S) /\ Len(t) = 1 + Len(r)
      /\ \A i \in 1..1 + Len(r) : t[i] = IF i <= 1 THEN <<top>>[i] ELSE r[i - 1]
  BY <1>2, <1>3, ConcatProperties
<1>5. IsStack(t)
  BY <1>4, StackOf
<1> HIDE DEF t
<1>6. /\ t[1] = top /\ t[2] = caller
      /\ \A i \in 3..Len(s) + 1 : t[i] = s[i - 1]
  <2>1. 1 \in 1..1 + Len(r) /\ 2 \in 1..1 + Len(r) /\ 2 - 1 = 1 /\ ~(2 <= 1)
    BY <1>1, <1>2
  <2>2. t[1] = top /\ t[2] = caller
    BY <1>1, <1>3, <1>4, <2>1
  <2>3. ASSUME NEW i \in 3..Len(s) + 1 PROVE t[i] = s[i - 1]
    <3>1. i \in 1..1 + Len(r) /\ ~(i <= 1) /\ i - 1 \in 2..Len(s)
      BY <1>1, <1>2
    <3> QED BY <1>1, <1>4, <3>1
  <2> QED BY <2>2, <2>3
<1> QED BY <1>1, <1>2, <1>4, <1>5, <1>6 DEF Pushes, t, r

LEMMA StackPopped ==
    ASSUME NEW s, IsStack(s), Len(s) > 1, NEW caller
    PROVE  Pops(s, [Tail(s) EXCEPT ![1] = caller], caller)
<1> DEFINE S == Elements(s)
           r == Tail(s)
           t == [r EXCEPT ![1] = caller]
<1>1. s \in Seq(S) /\ Len(s) \in Nat /\ s # <<>>
  BY EmptySeq DEF IsStack
<1> HIDE DEF S
<1>2. r \in Seq(S) /\ Len(r) = Len(s) - 1 /\ \A i \in 1..Len(r) : r[i] = s[i + 1]
  BY <1>1, HeadTailProperties
<1>3. IsStack(r)
  BY <1>2, StackOf
<1> HIDE DEF r
<1>4. Len(r) # 0
  BY <1>1, <1>2
<1>5. Replaces(r, t, caller)
  BY <1>3, <1>4, StackReplaced
<1> HIDE DEF t
<1>6. \A i \in 2..Len(s) - 1 : t[i] = s[i + 1]
  BY <1>1, <1>2, <1>5 DEF Replaces
<1> QED BY <1>2, <1>5, <1>6 DEF Pops, Replaces, t, r

-------------------------------------------------------------------------------
(* What the steps of the machine do to the stack and to the arena           *)

FrameFields == {"fn", "pc", "node", "arg", "lhs", "ret", "vartype", "tok", "ident", "min", "into"}

FrameOK(f, ids) ==
    /\ DOMAIN f = FrameFields
    /\ f.fn \in DOMAIN Program /\ f.pc \in DOMAIN Program[f.fn]
    /\ f.into \in Registers
    /\ \A r \in Registers : f[r] \in ids

\* Type correctness, with the domains of the records; a source has one module.
TypeInv ==
    /\ TypeOK
    /\ AreNodes(nodes)
    /\ IsStack(stack)
    /\ \A i \in 1..Len(stack) : FrameOK(stack[i], Ids) /\ (stack[i].fn = "parse" <=> i = Len(stack))
    /\ Len(stack) = 0 <=> status = "done"

\* The running call goes on as g.
Goes(g) ==
    /\ status = "running"
    /\ Replaces(stack, stack', g)
    /\ DOMAIN g = FrameFields /\ g.fn = Top.fn /\ g.into = Top.into /\ g.min = Top.min
    /\ g.pc \in Successors(Instr, Top.pc)

\* It takes the token looked at, or none.
Reads(g) == look # NoToken /\ Consumes /\ g.tok = look
Keeps(g) == KeepTokens /\ g.tok = Top.tok
Readers == {"expect", "expect_unchecked", "consume"}

LocalsKept(g) == \A r \in Registers : g[r] = Top[r]
LocalSet(g, reg, id) == \A r \in Registers : g[r] = IF r = reg THEN id ELSE Top[r]

Plain == {"expect", "expect_unchecked", "consume", "test", "skip", "save_ident", "set_vartype",
          "store_return_type"}

Retained ==
    /\ LinksKept(nodes, nodes')
    /\ \A n \in DOMAIN nodes :
          /\ DOMAIN nodes'[n] = NodeFields /\ nodes'[n].type = nodes[n].type
          /\ nodes'[n].span = nodes[n].span
          /\ nodes[n].type # "BUILTIN" => nodes'[n].value = nodes[n].value

Waits ==
    /\ UNCHANGED <<stack, nodes, node_count>>
    /\ Lex \/ (status' # "running" /\ (KeepTokens \/ (look # NoToken /\ Consumes)))
Advances(g) ==
    /\ Instr.op \in Plain /\ Goes(g) /\ LocalsKept(g)
    /\ IF Instr.op \in Readers THEN Reads(g) ELSE Keeps(g)
    /\ Instr.op = "expect" => look.type = Instr.type
    /\ Instr.op = "test" =>
          look.type # "none" /\ g.pc = Top.pc + (IF TestHolds THEN 1 ELSE 1 + Instr.by)
    /\ Retained /\ UNCHANGED node_count
Moves(g) ==
    /\ Instr.op = "move" /\ Goes(g) /\ LocalSet(g, Instr.to, Top[Instr.from])
    /\ Keeps(g) /\ UNCHANGED <<nodes, node_count>>
Adds(g, node) ==
    /\ Instr.op = "add" /\ Goes(g) /\ LocalSet(g, Instr.into, node_count) /\ Keeps(g)
    /\ Instr.at = "tok" /\ Instr.type = "BINOP" =>
          node.value = Top.tok.type /\ node.span = Top.tok.at
    /\ DOMAIN node = NodeFields /\ node.type = Instr.type
    /\ node.parent = NodeNull /\ node.next_sibling = NodeNull
    /\ node.first_child = NodeNull /\ node.last_child = NodeNull
    /\ HasRoom /\ nodes' = AddNode(nodes, node_count, node) /\ node_count' = node_count + 1
AddsMember(g, node) ==
    /\ Instr.op = "member" /\ Goes(g) /\ LocalSet(g, "node", node_count) /\ Keeps(g)
    /\ nodes[Top.arg].type # "BUILTIN"
    /\ DOMAIN node = NodeFields /\ node.type = "MEMBER"
    /\ node.parent = NodeNull /\ node.next_sibling = NodeNull
    /\ node.first_child = NodeNull /\ node.last_child = NodeNull
    /\ HasRoom /\ node_count' = node_count + 1
    /\ nodes' = AppendChild(AddNode(nodes, node_count, node), node_count, Top.arg)
NamesMember(g) ==
    /\ Instr.op = "member" /\ Goes(g) /\ LocalSet(g, "node", Top.arg) /\ Keeps(g)
    /\ nodes[Top.arg].type = "BUILTIN"
    /\ Retained /\ UNCHANGED node_count
Appends(g) ==
    /\ Instr.op = "append" /\ Goes(g) /\ LocalsKept(g) /\ Keeps(g)
    /\ Unset \notin {Top[Instr.parent], Top[Instr.child]}
    /\ nodes' = AppendChild(nodes, Top[Instr.parent], Top[Instr.child]) /\ UNCHANGED node_count

\* The call of "callee", whose result goes to "into"; "g" is its caller.
Enters(g, callee, arg, into, min) ==
    /\ status = "running"
    /\ \/ Instr.op = "call" /\ callee = Instr.fn /\ arg = Instr.arg /\ into = Instr.into
       \/ /\ Instr.op = "switch" /\ arg = "arg" /\ into = "ret"
          /\ look.type \notin {"none", "illegal"}
          /\ callee = IF look.type \in DOMAIN Instr.targets THEN Instr.targets[look.type]
                      ELSE Instr.default
    /\ Pushes(stack, stack', Frame(callee, Unset, Top[arg], min, into), g)
    /\ DOMAIN g = FrameFields /\ g.fn = Top.fn /\ g.into = Top.into /\ g.pc = Top.pc + 1
    /\ g.min = Top.min /\ LocalsKept(g) /\ Keeps(g)
    /\ Instr.op = "call" =>
          min = IF Instr.min = RightOperand THEN NextMin(Top.tok.type) ELSE Instr.min
    /\ UNCHANGED <<nodes, node_count>>

\* The return to the caller, from then on g.
Returns(g) ==
    /\ status = "running" /\ Len(stack) > 1
    /\ Pops(stack, stack', g)
    /\ DOMAIN g = FrameFields /\ g.fn = stack[2].fn /\ g.into = stack[2].into /\ g.pc = stack[2].pc
    /\ g.min = stack[2].min /\ g.tok = stack[2].tok
    /\ KeepTokens /\ UNCHANGED <<nodes, node_count>>
ReturnsNode(g) ==
    /\ Instr.op = "return" /\ Returns(g)
    /\ \E v \in IF Top[Instr.reg] # Unset THEN {Top[Instr.reg]} ELSE {stack[2][Top.into], Unset} :
          \A r \in Registers : g[r] = IF r = Top.into THEN v ELSE stack[2][r]
ReturnsVartype(g) ==
    Instr.op = "return_vartype" /\ Returns(g) /\ \A r \in Registers : g[r] = stack[2][r]

Ends ==
    /\ At("return") /\ Len(stack) = 1 /\ stack' = <<>> /\ status' = "done"
    /\ KeepTokens /\ UNCHANGED <<nodes, node_count>>

Does ==
    \/ Waits
    \/ \E g : Advances(g) \/ Moves(g) \/ NamesMember(g) \/ Appends(g)
              \/ ReturnsNode(g) \/ ReturnsVartype(g)
    \/ \E g, node : Adds(g, node) \/ AddsMember(g, node)
    \/ \E g, callee, arg, into, min : Enters(g, callee, arg, into, min)
    \/ Ends

LEMMA TopTyped ==
    ASSUME TypeInv, status = "running"
    PROVE  /\ Len(stack) \in Nat /\ Len(stack) # 0 /\ IsStack(stack)
           /\ \A i \in 1..Len(stack) : FrameOK(stack[i], Ids) /\ (stack[i].fn = "parse" <=> i = Len(stack))
           /\ FrameOK(Top, Ids) /\ (Top.fn = "parse" <=> Len(stack) = 1)
           /\ Top.pc \in Nat \ {0} /\ IsInstruction(Top.fn, Top.pc)
<1>1. Len(stack) \in Nat /\ Len(stack) # 0
  BY DEF TypeInv, IsStack
<1>2. 1 \in 1..Len(stack)
  BY <1>1
<1>3. FrameOK(Top, Ids) /\ (Top.fn = "parse" <=> Len(stack) = 1)
  BY <1>2 DEF TypeInv, Top
<1>4. Top.pc \in Nat \ {0} /\ IsInstruction(Top.fn, Top.pc)
  BY <1>3, ProgramsOwnRight DEF FrameOK
<1> QED BY <1>1, <1>3, <1>4 DEF TypeInv

\* The calls of the model that go on in the running function.
LEMMA GoMeets ==
    ASSUME TypeInv, status = "running", NEW f, DOMAIN f = FrameFields,
           f.fn = Top.fn, f.into = Top.into, f.pc = Top.pc, f.min = Top.min,
           NEW by, Go(f, by), Top.pc + by \in Successors(Instr, Top.pc)
    PROVE  LET g == [f EXCEPT !.pc = @ + by]
           IN /\ Goes(g) /\ g.tok = f.tok /\ g.pc = Top.pc + by
              /\ \A r \in Registers : g[r] = f[r]
<1> DEFINE g == [f EXCEPT !.pc = @ + by]
<1>1. Replaces(stack, stack', g)
  <2>1. stack' = [stack EXCEPT ![1] = g]
    BY DEF Go
  <2> HIDE DEF g
  <2> QED BY <2>1, TopTyped, StackReplaced
<1>2. /\ DOMAIN g = FrameFields /\ g.fn = Top.fn /\ g.into = Top.into /\ g.pc = Top.pc + by
      /\ g.min = Top.min /\ g.tok = f.tok
  BY DEF FrameFields
<1>3. \A r \in Registers : g[r] = f[r]
  BY DEF Registers, FrameFields
<1> HIDE DEF g
<1>4. Goes(g)
  BY <1>1, <1>2 DEF Goes
<1> QED BY <1>2, <1>3, <1>4 DEF g

LEMMA UnchangedRetained ==
    ASSUME AreNodes(nodes), UNCHANGED nodes PROVE Retained
BY DEF AreNodes, LinksKept, Retained

LEMMA SaidRetained ==
    ASSUME AreNodes(nodes), NEW id, NEW v,
           \/ nodes[id].type = "BUILTIN" /\ nodes' = [nodes EXCEPT ![id].value = v]
           \/ nodes' = [nodes EXCEPT ![id].vartype = v]
    PROVE  Retained
<1>1. DOMAIN nodes' = DOMAIN nodes
  OBVIOUS
<1>2. ASSUME NEW n \in DOMAIN nodes
      PROVE  /\ DOMAIN nodes'[n] = NodeFields /\ nodes'[n].type = nodes[n].type
             /\ nodes'[n].parent = nodes[n].parent /\ nodes'[n].next_sibling = nodes[n].next_sibling
             /\ nodes'[n].first_child = nodes[n].first_child
             /\ nodes'[n].last_child = nodes[n].last_child /\ nodes'[n].span = nodes[n].span
             /\ nodes[n].type # "BUILTIN" => nodes'[n].value = nodes[n].value
  <2> DEFINE node == nodes[n]
  <2>1. DOMAIN node = NodeFields
    BY DEF AreNodes
  <2>2. \/ nodes'[n] = node
        \/ node.type = "BUILTIN" /\ nodes'[n] = [node EXCEPT !.value = v]
        \/ nodes'[n] = [node EXCEPT !.vartype = v]
    OBVIOUS
  <2> HIDE DEF node
  <2>3. /\ DOMAIN nodes'[n] = NodeFields /\ nodes'[n].type = node.type
        /\ nodes'[n].parent = node.parent /\ nodes'[n].next_sibling = node.next_sibling
        /\ nodes'[n].first_child = node.first_child
        /\ nodes'[n].last_child = node.last_child /\ nodes'[n].span = node.span
        /\ node.type # "BUILTIN" => nodes'[n].value = node.value
    BY <2>1, <2>2 DEF NodeFields
  <2> QED BY <2>3 DEF node
<1> QED BY <1>1, <1>2 DEF LinksKept, Retained

LEMMA TokensAreRead ==
    ASSUME TypeInv, TakeToken, status = "running", Instr.op \in Readers, look # NoToken,
           Instr.op = "expect" => look.type = Instr.type
    PROVE  \E g : Advances(g)
<1> DEFINE f == [Top EXCEPT !.tok = look]
           g == [f EXCEPT !.pc = @ + 1]
<1>1. /\ DOMAIN f = FrameFields /\ f.fn = Top.fn /\ f.into = Top.into /\ f.pc = Top.pc
      /\ f.min = Top.min /\ f.tok = look
      /\ \A r \in Registers : f[r] = Top[r]
  <2>1. DOMAIN Top = FrameFields
    BY TopTyped DEF FrameOK
  <2> HIDE DEF Top
  <2> QED BY <2>1 DEF FrameFields, Registers
<1>2. Go(f, 1) /\ Retained /\ UNCHANGED node_count /\ Consumes
  BY UnchangedRetained DEF TakeToken, Continue, KeepTree, TypeInv
<1> HIDE DEF f
<1>3. Top.pc + 1 \in Successors(Instr, Top.pc)
  BY DEF Successors, Readers
<1>4. Goes(g) /\ g.tok = look /\ \A r \in Registers : g[r] = f[r]
  BY <1>1, <1>2, <1>3, GoMeets
<1> HIDE DEF g
<1>5. Reads(g)
  BY <1>2, <1>4 DEF Reads
<1>6. Instr.op \in Plain /\ Instr.op # "test"
  BY DEF Plain, Readers
<1>7. Advances(g)
  BY <1>1, <1>2, <1>4, <1>5, <1>6 DEF Advances, LocalsKept
<1> QED BY <1>7

LEMMA TokenSteps ==
    ASSUME TypeInv, Tokenise
    PROVE  Waits \/ \E g : Advances(g)
<1>1. CASE Lex \/ LexerError
  BY <1>1 DEF Lex, LexerError, Error, KeepTree, Waits
<1>10. NoToken.type = "none"
  BY DEF NoToken
<1>2. CASE UnexpectedToken
  <2>1. look # NoToken
    BY <1>2, <1>10 DEF UnexpectedToken, Peeked
  <2> QED BY <1>2, <2>1 DEF UnexpectedToken, Error, KeepTree, Waits
<1>3. CASE ExpectToken
  <2>1. Instr.op \in Readers /\ look # NoToken
    <3>1. Instr.op = "expect" /\ look.type = Instr.type /\ status = "running"
      BY <1>3 DEF ExpectToken, At
    <3>2. Instr.type # "none"
      BY <3>1, TopTyped DEF IsInstruction, Instr
    <3> QED BY <1>10, <3>1, <3>2 DEF Readers
  <2> QED BY <1>3, <2>1, TokensAreRead DEF ExpectToken, At
<1>4. CASE ConsumeToken \/ ExpectUncheckedToken
  <2>1. Instr.op \in Readers /\ look # NoToken /\ Instr.op # "expect" /\ status = "running"
    BY <1>4, <1>10 DEF ConsumeToken, ExpectUncheckedToken, At, Peeked, Readers
  <2> QED BY <1>4, <2>1, TokensAreRead DEF ConsumeToken, ExpectUncheckedToken
<1> QED BY <1>1, <1>2, <1>3, <1>4 DEF Tokenise

LEMMA TestSteps ==
    ASSUME TypeInv, TestToken \/ SkipBack
    PROVE  \E g : Advances(g)
<1> DEFINE by == IF Instr.op = "skip" \/ ~TestHolds THEN 1 + Instr.by ELSE 1
           g == [Top EXCEPT !.pc = @ + by]
<1>1. /\ status = "running" /\ Go(Top, by) /\ Instr.op \in {"test", "skip"}
      /\ Retained /\ UNCHANGED node_count /\ KeepTokens
      /\ Instr.op = "test" => look.type # "none"
      /\ Instr.op = "test" => by = IF TestHolds THEN 1 ELSE 1 + Instr.by
  BY UnchangedRetained DEF TestToken, SkipBack, At, KeepTree, TypeInv, Peeked
<1>2. Top.pc + by \in Successors(Instr, Top.pc)
  <2>1. Top.pc \in Nat /\ Instr.by \in Int
    BY <1>1, TopTyped DEF IsInstruction, Instr
  <2>2. Top.pc + 1 + Instr.by = Top.pc + (1 + Instr.by)
    BY <2>1
  <2> QED BY <1>1, <2>2 DEF Successors
<1> HIDE DEF by
<1>3. DOMAIN Top = FrameFields
  BY <1>1, TopTyped DEF FrameOK
<1>4. /\ Goes(g) /\ g.tok = Top.tok /\ g.pc = Top.pc + by
      /\ \A r \in Registers : g[r] = Top[r]
  BY <1>1, <1>2, <1>3, GoMeets
<1> HIDE DEF g
<1>5. Advances(g)
  BY <1>1, <1>4 DEF Advances, LocalsKept, Plain, Readers, Keeps
<1> QED BY <1>5

LEMMA LocalSteps ==
    ASSUME TypeInv, SetLocal
    PROVE  \E g : Advances(g) \/ Moves(g)
<1>1. status = "running" /\ Retained /\ UNCHANGED <<nodes, node_count>> /\ KeepTokens
  BY UnchangedRetained DEF SetLocal, KeepTree, TypeInv
<1>2. DOMAIN Top = FrameFields
  BY <1>1, TopTyped DEF FrameOK
<1>3. ASSUME NEW f, DOMAIN f = FrameFields, f.fn = Top.fn, f.into = Top.into, f.pc = Top.pc,
             f.min = Top.min, f.tok = Top.tok, Instr.op \in {"save_ident", "set_vartype", "move"}, Continue(f)
      PROVE  \E g : Goes(g) /\ Keeps(g) /\ \A r \in Registers : g[r] = f[r]
  <2>1. Go(f, 1) /\ Top.pc + 1 \in Successors(Instr, Top.pc)
    BY <1>3 DEF Continue, Successors
  <2> DEFINE g == [f EXCEPT !.pc = @ + 1]
  <2>2. Goes(g) /\ g.tok = f.tok /\ \A r \in Registers : g[r] = f[r]
    BY <1>1, <1>3, <2>1, GoMeets
  <2> HIDE DEF g
  <2>3. Goes(g) /\ Keeps(g) /\ \A r \in Registers : g[r] = f[r]
    BY <1>1, <1>3, <2>2 DEF Keeps
  <2> QED BY <2>3
<1>4. CASE Instr.op = "save_ident" /\ Continue([Top EXCEPT !.ident = Top.tok])
  <2> DEFINE f == [Top EXCEPT !.ident = Top.tok]
  <2>1. /\ DOMAIN f = FrameFields /\ f.fn = Top.fn /\ f.into = Top.into /\ f.pc = Top.pc
        /\ f.min = Top.min /\ f.tok = Top.tok
        /\ \A r \in Registers : f[r] = Top[r]
    <3> HIDE DEF Top
    <3> QED BY <1>2 DEF FrameFields, Registers
  <2>2. Continue(f) /\ Instr.op = "save_ident"
    BY <1>4
  <2> HIDE DEF f
  <2>3. PICK g : Goes(g) /\ Keeps(g) /\ \A r \in Registers : g[r] = f[r]
    BY <1>3, <2>1, <2>2
  <2>4. Advances(g)
    BY <1>1, <2>1, <2>2, <2>3 DEF Advances, LocalsKept, Plain, Readers
  <2> QED BY <2>4
<1>5. CASE \E v : Instr.op = "set_vartype" /\ Continue([Top EXCEPT !.vartype = v])
  <2>1. PICK v : Instr.op = "set_vartype" /\ Continue([Top EXCEPT !.vartype = v])
    BY <1>5
  <2> DEFINE f == [Top EXCEPT !.vartype = v]
  <2>2. /\ DOMAIN f = FrameFields /\ f.fn = Top.fn /\ f.into = Top.into /\ f.pc = Top.pc
        /\ f.min = Top.min /\ f.tok = Top.tok
        /\ \A r \in Registers : f[r] = Top[r]
    <3> HIDE DEF Top
    <3> QED BY <1>2 DEF FrameFields, Registers
  <2>3. Continue(f) /\ Instr.op = "set_vartype"
    BY <2>1
  <2> HIDE DEF f
  <2>4. PICK g : Goes(g) /\ Keeps(g) /\ \A r \in Registers : g[r] = f[r]
    BY <1>3, <2>2, <2>3
  <2>5. Advances(g)
    BY <1>1, <2>2, <2>3, <2>4 DEF Advances, LocalsKept, Plain, Readers
  <2> QED BY <2>5
<1>6. CASE Instr.op = "move" /\ Continue([Top EXCEPT ![Instr.to] = Top[Instr.from]])
  <2> DEFINE f == [Top EXCEPT ![Instr.to] = Top[Instr.from]]
  <2>1. Instr.to \in Registers
    BY <1>1, <1>6, TopTyped DEF IsInstruction, Instr
  <2>2. /\ DOMAIN f = FrameFields /\ f.fn = Top.fn /\ f.into = Top.into /\ f.pc = Top.pc
        /\ f.min = Top.min /\ f.tok = Top.tok
        /\ \A r \in Registers : f[r] = IF r = Instr.to THEN Top[Instr.from] ELSE Top[r]
    <3> HIDE DEF Top
    <3> QED BY <1>2, <2>1 DEF FrameFields, Registers
  <2>3. Continue(f) /\ Instr.op = "move"
    BY <1>6
  <2> HIDE DEF f
  <2>4. PICK g : Goes(g) /\ Keeps(g) /\ \A r \in Registers : g[r] = f[r]
    BY <1>3, <2>2, <2>3
  <2>5. Moves(g)
    BY <1>1, <2>2, <2>3, <2>4 DEF Moves, LocalSet
  <2> QED BY <2>5
<1> QED BY <1>4, <1>5, <1>6 DEF SetLocal

LEMMA EnterMeets ==
    ASSUME TypeInv, status = "running", NEW callee, NEW arg, NEW into, NEW min,
           Enter(callee, Top[arg], min, into)
    PROVE  \E g : /\ Pushes(stack, stack', Frame(callee, Unset, Top[arg], min, into), g)
                  /\ DOMAIN g = FrameFields /\ g.fn = Top.fn /\ g.into = Top.into
                  /\ g.pc = Top.pc + 1 /\ LocalsKept(g) /\ g.min = Top.min /\ g.tok = Top.tok
<1> DEFINE g == [Top EXCEPT !.pc = @ + 1]
<1>1. DOMAIN Top = FrameFields
  BY TopTyped DEF FrameOK
<1>2. /\ DOMAIN g = FrameFields /\ g.fn = Top.fn /\ g.into = Top.into /\ g.pc = Top.pc + 1
      /\ g.min = Top.min /\ g.tok = Top.tok
      /\ \A r \in Registers : g[r] = Top[r]
  <2> HIDE DEF Top
  <2> QED BY <1>1 DEF FrameFields, Registers
<1>3. Pushes(stack, stack', Frame(callee, Unset, Top[arg], min, into), g)
  <2>1. stack' = <<Frame(callee, Unset, Top[arg], min, into)>> \o [stack EXCEPT ![1] = g]
    BY DEF Enter
  <2> HIDE DEF g
  <2> QED BY <2>1, TopTyped, StackPushed
<1> HIDE DEF g
<1> QED BY <1>2, <1>3 DEF LocalsKept

LEMMA CallSteps ==
    ASSUME TypeInv, CallFunction \/ SwitchToken
    PROVE  \E g, callee, arg, into, min : Enters(g, callee, arg, into, min)
<1>1. status = "running" /\ UNCHANGED <<nodes, node_count>> /\ KeepTokens
  BY DEF CallFunction, SwitchToken, At, KeepTree
<1>2. CASE CallFunction
  <2> DEFINE callee == Instr.fn
             min == IF Instr.min = RightOperand THEN NextMin(Top.tok.type) ELSE Instr.min
  <2>1. Enter(callee, Top[Instr.arg], min, Instr.into) /\ Instr.op = "call"
    BY <1>2 DEF CallFunction, At
  <2>4. min = IF Instr.min = RightOperand THEN NextMin(Top.tok.type) ELSE Instr.min
    OBVIOUS
  <2> HIDE DEF min
  <2>2. PICK g : /\ Pushes(stack, stack', Frame(callee, Unset, Top[Instr.arg], min, Instr.into), g)
                 /\ DOMAIN g = FrameFields /\ g.fn = Top.fn /\ g.into = Top.into
                 /\ g.pc = Top.pc + 1 /\ LocalsKept(g) /\ g.min = Top.min /\ g.tok = Top.tok
    BY <1>1, <2>1, EnterMeets
  <2>3. Enters(g, callee, Instr.arg, Instr.into, min)
    BY <1>1, <2>1, <2>2, <2>4 DEF Enters, Keeps
  <2> QED BY <2>3
<1>3. CASE SwitchToken
  <2> DEFINE callee == IF look.type \in DOMAIN Instr.targets THEN Instr.targets[look.type]
                       ELSE Instr.default
  <2>1. /\ Enter(callee, Top["arg"], 0, "ret") /\ Instr.op = "switch"
        /\ look.type \notin {"none", "illegal"}
    BY <1>3 DEF SwitchToken, At, Peeked
  <2>2. PICK g : /\ Pushes(stack, stack', Frame(callee, Unset, Top["arg"], 0, "ret"), g)
                 /\ DOMAIN g = FrameFields /\ g.fn = Top.fn /\ g.into = Top.into
                 /\ g.pc = Top.pc + 1 /\ LocalsKept(g) /\ g.min = Top.min /\ g.tok = Top.tok
    BY <1>1, <2>1, EnterMeets
  <2>3. Enters(g, callee, "arg", "ret", 0)
    BY <1>1, <2>1, <2>2 DEF Enters, Keeps
  <2> QED BY <2>3
<1> QED BY <1>2, <1>3

LEMMA ReturnSteps ==
    ASSUME TypeInv, ReturnToCaller \/ ReturnVartypeToCaller
    PROVE  \E g : ReturnsNode(g) \/ ReturnsVartype(g)
<1>1. status = "running" /\ UNCHANGED <<nodes, node_count>> /\ KeepTokens
  BY DEF ReturnToCaller, ReturnVartypeToCaller, At, KeepTree
<1>2. Len(stack) > 1 /\ Len(stack) \in Nat /\ IsStack(stack)
  <2>1. CASE ReturnToCaller
    BY <1>1, <2>1, TopTyped DEF ReturnToCaller
  <2>2. CASE ReturnVartypeToCaller
    <3>1. Instr.op = "return_vartype"
      BY <2>2 DEF ReturnVartypeToCaller, At
    <3>2. Top.fn = "vartype"
      BY <1>1, <3>1, TopTyped DEF IsInstruction, Instr
    <3>3. Top.fn # "parse"
      BY <3>2
    <3>4. Len(stack) # 1 /\ Len(stack) # 0 /\ Len(stack) \in Nat /\ IsStack(stack)
      BY <1>1, <3>3, TopTyped
    <3> QED BY <3>4
  <2> QED BY <2>1, <2>2
<1>3. DOMAIN stack[2] = FrameFields
  <2>1. 2 \in 1..Len(stack)
    BY <1>2
  <2> QED BY <1>1, <2>1, TopTyped DEF FrameOK
<1>4. Top.into \in Registers
  BY <1>1, TopTyped DEF FrameOK
<1>5. CASE ReturnToCaller
  <2>1. PICK v \in IF Top[Instr.reg] # Unset THEN {Top[Instr.reg]} ELSE {stack[2][Top.into], Unset} :
          stack' = [Tail(stack) EXCEPT ![1] = [stack[2] EXCEPT ![Top.into] = v]]
    BY <1>5 DEF ReturnToCaller
  <2> DEFINE caller == stack[2]
             g == [caller EXCEPT ![Top.into] = v]
  <2>2. /\ DOMAIN g = FrameFields /\ g.fn = caller.fn /\ g.into = caller.into /\ g.pc = caller.pc
        /\ g.min = caller.min /\ g.tok = caller.tok
        /\ \A r \in Registers : g[r] = IF r = Top.into THEN v ELSE caller[r]
    <3>1. DOMAIN caller = FrameFields
      BY <1>3
    <3> HIDE DEF caller, Top
    <3> QED BY <1>4, <3>1 DEF FrameFields, Registers
  <2> HIDE DEF g
  <2>3. Pops(stack, stack', g)
    BY <1>2, <2>1, StackPopped DEF g
  <2>4. Returns(g)
    BY <1>1, <1>2, <2>2, <2>3 DEF Returns
  <2>5. ReturnsNode(g)
    BY <1>5, <2>1, <2>2, <2>4 DEF ReturnsNode, ReturnToCaller, At
  <2> QED BY <2>5
<1>6. CASE ReturnVartypeToCaller
  <2> DEFINE caller == stack[2]
             g == [caller EXCEPT !.vartype = Top.vartype]
  <2>1. stack' = [Tail(stack) EXCEPT ![1] = g]
    <3>1. stack' = [Tail(stack) EXCEPT ![1].vartype = Top.vartype]
      BY <1>6 DEF ReturnVartypeToCaller
    <3>2. Tail(stack)[1] = stack[2]
      <4>1. stack # <<>> /\ stack \in Seq(Elements(stack)) /\ 1 \in 1..Len(stack) - 1
        BY <1>2, EmptySeq DEF IsStack
      <4> QED BY <4>1, HeadTailProperties
    <3> QED BY <3>1, <3>2
  <2>2. /\ DOMAIN g = FrameFields /\ g.fn = caller.fn /\ g.into = caller.into /\ g.pc = caller.pc
        /\ g.min = caller.min /\ g.tok = caller.tok
        /\ \A r \in Registers : g[r] = caller[r]
    <3>1. DOMAIN caller = FrameFields
      BY <1>3
    <3> HIDE DEF caller, Top
    <3> QED BY <3>1 DEF FrameFields, Registers
  <2> HIDE DEF g
  <2>3. Pops(stack, stack', g)
    BY <1>2, <2>1, StackPopped
  <2>4. Returns(g)
    BY <1>1, <1>2, <2>2, <2>3 DEF Returns
  <2>5. ReturnsVartype(g)
    BY <1>6, <2>2, <2>4 DEF ReturnsVartype, ReturnVartypeToCaller, At
  <2> QED BY <2>5
<1> QED BY <1>5, <1>6

LEMMA AddSteps ==
    ASSUME TypeInv, AddNode_
    PROVE  \E g, node : Adds(g, node)
<1>1. status = "running" /\ Instr.op = "add" /\ HasRoom /\ node_count' = node_count + 1
  BY DEF AddNode_, At
<1>2. PICK node : /\ nodes' = AddNode(nodes, node_count, node)
                  /\ \E value, vartype, span :
                        /\ node = NewNode(Instr.type, value, vartype, span)
                        /\ Instr.at = "tok" /\ Instr.type = "BINOP" =>
                              value = Top.tok.type /\ span = Top.tok.at
  BY DEF AddNode_, ValueOf
<1>9. Instr.at = "tok" /\ Instr.type = "BINOP" =>
         node.value = Top.tok.type /\ node.span = Top.tok.at
  BY <1>2 DEF NewNode
<1>3. /\ DOMAIN node = NodeFields /\ node.type = Instr.type
      /\ node.parent = NodeNull /\ node.next_sibling = NodeNull
      /\ node.first_child = NodeNull /\ node.last_child = NodeNull
  BY <1>2, NewNodeFields
<1>4. DOMAIN Top = FrameFields /\ Instr.into \in Registers
  BY <1>1, TopTyped DEF FrameOK, IsInstruction, Instr
<1> DEFINE f == [Top EXCEPT ![Instr.into] = node_count]
           g == [f EXCEPT !.pc = @ + 1]
<1>5. /\ DOMAIN f = FrameFields /\ f.fn = Top.fn /\ f.into = Top.into /\ f.pc = Top.pc
      /\ f.min = Top.min /\ f.tok = Top.tok
      /\ \A r \in Registers : f[r] = IF r = Instr.into THEN node_count ELSE Top[r]
  <2> HIDE DEF Top
  <2> QED BY <1>4 DEF FrameFields, Registers
<1>6. Go(f, 1) /\ Top.pc + 1 \in Successors(Instr, Top.pc) /\ KeepTokens
  BY <1>1 DEF AddNode_, Continue, Successors
<1> HIDE DEF f
<1>7. Goes(g) /\ Keeps(g) /\ \A r \in Registers : g[r] = f[r]
  BY <1>1, <1>5, <1>6, GoMeets DEF Keeps
<1> HIDE DEF g
<1>8. Adds(g, node)
  BY <1>1, <1>2, <1>3, <1>5, <1>7, <1>9 DEF Adds, LocalSet
<1> QED BY <1>8

LEMMA MemberSteps ==
    ASSUME TypeInv, MemberNode \/ MemberOfPrimitive
    PROVE  (\E g : NamesMember(g)) \/ (\E g, node : AddsMember(g, node))
<1>1. status = "running" /\ Instr.op = "member" /\ KeepTokens
  BY DEF MemberNode, MemberOfPrimitive, At
<1>2. DOMAIN Top = FrameFields
  BY <1>1, TopTyped DEF FrameOK
<1>3. ASSUME NEW id, Continue([Top EXCEPT !.node = id])
      PROVE  \E g : Goes(g) /\ Keeps(g) /\ LocalSet(g, "node", id)
  <2> DEFINE f == [Top EXCEPT !.node = id]
  <2>1. /\ DOMAIN f = FrameFields /\ f.fn = Top.fn /\ f.into = Top.into /\ f.pc = Top.pc
        /\ f.min = Top.min /\ f.tok = Top.tok
        /\ \A r \in Registers : f[r] = IF r = "node" THEN id ELSE Top[r]
    <3> HIDE DEF Top
    <3> QED BY <1>2 DEF FrameFields, Registers
  <2>2. Go(f, 1) /\ Top.pc + 1 \in Successors(Instr, Top.pc)
    BY <1>1, <1>3 DEF Continue, Successors
  <2> HIDE DEF f
  <2>3. LET g == [f EXCEPT !.pc = @ + 1]
        IN Goes(g) /\ g.tok = f.tok /\ \A r \in Registers : g[r] = f[r]
    BY <1>1, <2>1, <2>2, GoMeets
  <2> QED BY <1>1, <2>1, <2>3 DEF LocalSet, Keeps
<1>4. CASE MemberNode
  <2>1. PICK node : /\ nodes' = AppendChild(AddNode(nodes, node_count, node), node_count, Top.arg)
                    /\ \E value, vartype, span : node = NewNode("MEMBER", value, vartype, span)
    BY <1>4 DEF MemberNode
  <2>2. /\ DOMAIN node = NodeFields /\ node.type = "MEMBER"
        /\ node.parent = NodeNull /\ node.next_sibling = NodeNull
        /\ node.first_child = NodeNull /\ node.last_child = NodeNull
    BY <2>1, NewNodeFields
  <2>3. /\ HasRoom /\ node_count' = node_count + 1
        /\ Continue([Top EXCEPT !.node = node_count])
        /\ nodes[Top.arg].type # "BUILTIN"
    BY <1>4 DEF MemberNode
  <2>4. PICK g : Goes(g) /\ Keeps(g) /\ LocalSet(g, "node", node_count)
    BY <1>3, <2>3
  <2>5. AddsMember(g, node)
    BY <1>1, <2>1, <2>2, <2>3, <2>4 DEF AddsMember
  <2> QED BY <2>5
<1>5. CASE MemberOfPrimitive
  <2>1. PICK g : Goes(g) /\ Keeps(g) /\ LocalSet(g, "node", Top.arg)
    BY <1>3, <1>5 DEF MemberOfPrimitive
  <2>2. Retained /\ UNCHANGED node_count /\ nodes[Top.arg].type = "BUILTIN"
    BY <1>5, SaidRetained DEF MemberOfPrimitive, TypeInv
  <2>3. NamesMember(g)
    BY <1>1, <2>1, <2>2 DEF NamesMember
  <2> QED BY <2>3
<1> QED BY <1>4, <1>5

LEMMA AppendSteps ==
    ASSUME TypeInv, AppendNode
    PROVE  \E g : Appends(g)
<1>1. /\ status = "running" /\ Instr.op = "append" /\ Go(Top, 1)
      /\ Unset \notin {Top[Instr.parent], Top[Instr.child]}
      /\ nodes' = AppendChild(nodes, Top[Instr.parent], Top[Instr.child]) /\ UNCHANGED node_count /\ KeepTokens
  BY DEF AppendNode, At, Continue
<1> DEFINE g == [Top EXCEPT !.pc = @ + 1]
<1>2. DOMAIN Top = FrameFields /\ Top.pc + 1 \in Successors(Instr, Top.pc)
  BY <1>1, TopTyped DEF FrameOK, Successors
<1>3. Goes(g) /\ g.tok = Top.tok /\ \A r \in Registers : g[r] = Top[r]
  BY <1>1, <1>2, GoMeets
<1> HIDE DEF g
<1>4. Appends(g)
  BY <1>1, <1>3 DEF Appends, LocalsKept, Keeps
<1> QED BY <1>4

LEMMA StoreSteps ==
    ASSUME TypeInv, StoreType
    PROVE  \E g : Advances(g)
<1>1. /\ status = "running" /\ Instr.op = "store_return_type" /\ Go(Top, 1)
      /\ nodes' = [nodes EXCEPT ![Top.node].vartype = Top.vartype] /\ UNCHANGED node_count /\ KeepTokens
  BY DEF StoreType, At, Continue
<1> DEFINE g == [Top EXCEPT !.pc = @ + 1]
<1>2. DOMAIN Top = FrameFields /\ Top.pc + 1 \in Successors(Instr, Top.pc)
  BY <1>1, TopTyped DEF FrameOK, Successors
<1>3. Goes(g) /\ g.tok = Top.tok /\ \A r \in Registers : g[r] = Top[r]
  BY <1>1, <1>2, GoMeets
<1>4. Retained
  BY <1>1, SaidRetained DEF TypeInv
<1> HIDE DEF g
<1>5. Advances(g)
  BY <1>1, <1>3, <1>4 DEF Advances, LocalsKept, Plain, Readers, Keeps
<1> QED BY <1>5

LEMMA StepsDo ==
    ASSUME TypeInv, ParserStep
    PROVE  Does
<1>1. CASE Tokenise
  BY <1>1, TokenSteps DEF Does
<1>2. CASE TestToken \/ SkipBack
  BY <1>2, TestSteps DEF Does
<1>3. CASE SetLocal
  BY <1>3, LocalSteps DEF Does
<1>4. CASE CallFunction \/ SwitchToken
  BY <1>4, CallSteps DEF Does
<1>5. CASE ReturnToCaller \/ ReturnVartypeToCaller
  BY <1>5, ReturnSteps DEF Does
<1>6. CASE FailParse \/ OutOfNode \/ UnknownMember \/ AppendFails
  BY <1>6 DEF FailParse, OutOfNode, UnknownMember, AppendFails, Error, KeepTree, Waits, Does
<1>7. CASE ReturnFromParse
  BY <1>7 DEF ReturnFromParse, KeepTree, Ends, Does
<1>8. CASE AddNode_
  BY <1>8, AddSteps DEF Does
<1>9. CASE MemberNode \/ MemberOfPrimitive
  BY <1>9, MemberSteps DEF Does
<1>10. CASE AppendNode
  BY <1>10, AppendSteps DEF Does
<1>11. CASE StoreType
  BY <1>11, StoreSteps DEF Does
<1> QED BY <1>1, <1>2, <1>3, <1>4, <1>5, <1>6, <1>7, <1>8, <1>9, <1>10, <1>11
        DEF ParserStep, Control, Build

-------------------------------------------------------------------------------
(* Types *)

\* A node that was there keeps its type.
ArenaTyped ==
    /\ node_count' \in 1..NodeCapacity /\ DOMAIN nodes' = 0..(node_count' - 1)
    /\ AreNodes(nodes')
    /\ \A n \in DOMAIN nodes : n \in DOMAIN nodes' /\ nodes'[n].type = nodes[n].type

LEMMA ArenaAdded ==
    ASSUME TypeInv, NEW node, DOMAIN node = NodeFields, node.type \in NodeTypes,
           HasRoom, node_count' = node_count + 1
    PROVE  LET new == AddNode(nodes, node_count, node)
           IN /\ node_count' \in 1..NodeCapacity /\ DOMAIN new = 0..(node_count' - 1)
              /\ AreNodes(new) /\ node_count \notin DOMAIN nodes /\ node_count \in DOMAIN new
              /\ DOMAIN new = DOMAIN nodes \cup {node_count}
              /\ \A n \in DOMAIN nodes : new[n] = nodes[n]
              /\ new[node_count] = node
<1> DEFINE new == AddNode(nodes, node_count, node)
<1>1. /\ node_count \in 1..NodeCapacity /\ node_count < NodeCapacity /\ NodeCapacity \in Nat
      /\ DOMAIN nodes = 0..(node_count - 1) /\ AreNodes(nodes)
  BY CapacityAssumption DEF TypeInv, TypeOK, HasRoom
<1>2. DOMAIN new = DOMAIN nodes \cup {node_count}
      /\ \A n \in DOMAIN new : new[n] = IF n = node_count THEN node ELSE nodes[n]
  BY DEF AddNode
<1> HIDE DEF new
<1>3. node_count \notin DOMAIN nodes
  BY <1>1
<1>4. node_count' \in 1..NodeCapacity /\ DOMAIN new = 0..(node_count' - 1)
  BY <1>1, <1>2
<1>5. AreNodes(new)
  BY <1>1, <1>2 DEF AreNodes
<1> QED BY <1>2, <1>3, <1>4, <1>5 DEF new

LEMMA ArenaSteps ==
    ASSUME TypeInv, status = "running", Does
    PROVE  ArenaTyped
<1>1. /\ node_count \in 1..NodeCapacity /\ DOMAIN nodes = 0..(node_count - 1) /\ AreNodes(nodes)
  BY DEF TypeInv, TypeOK
<1>2. CASE UNCHANGED <<nodes, node_count>>
  BY <1>1, <1>2 DEF ArenaTyped
<1>3. CASE Retained /\ UNCHANGED node_count
  <2>1. AreNodes(nodes')
    BY <1>1, <1>3 DEF Retained, LinksKept, AreNodes
  <2> QED BY <1>1, <1>3, <2>1 DEF ArenaTyped, Retained, LinksKept
<1>4. CASE \E g, node : Adds(g, node)
  <2>1. PICK g, node : Adds(g, node)
    BY <1>4
  <2>2. node.type \in NodeTypes
    BY <2>1, TopTyped DEF Adds, IsInstruction, Instr
  <2> QED BY <2>1, <2>2, ArenaAdded DEF Adds, ArenaTyped
<1>5. CASE \E g, node : AddsMember(g, node)
  <2>1. PICK g, node : AddsMember(g, node)
    BY <1>5
  <2> DEFINE new == AddNode(nodes, node_count, node)
  <2>2. node.type \in NodeTypes
    BY <2>1 DEF AddsMember, NodeTypes
  <2>3. /\ node_count' \in 1..NodeCapacity /\ DOMAIN new = 0..(node_count' - 1)
        /\ AreNodes(new) /\ DOMAIN new = DOMAIN nodes \cup {node_count}
        /\ \A n \in DOMAIN nodes : new[n] = nodes[n]
    BY <2>1, <2>2, ArenaAdded DEF AddsMember
  <2>4. nodes' = AppendChild(new, node_count, Top.arg)
    BY <2>1 DEF AddsMember
  <2> HIDE DEF new
  <2>5. /\ DOMAIN nodes' = DOMAIN new
        /\ \A n \in DOMAIN new : DOMAIN nodes'[n] = NodeFields /\ nodes'[n].type = new[n].type
    BY <2>3, <2>4, AppendChildFields DEF Appended
  <2>6. AreNodes(nodes')
    BY <2>3, <2>5 DEF AreNodes
  <2> QED BY <2>3, <2>5, <2>6 DEF ArenaTyped
<1>6. CASE \E g : Appends(g)
  <2>1. PICK g : Appends(g)
    BY <1>6
  <2>2. /\ DOMAIN nodes' = DOMAIN nodes
        /\ \A n \in DOMAIN nodes : DOMAIN nodes'[n] = NodeFields /\ nodes'[n].type = nodes[n].type
    BY <1>1, <2>1, AppendChildFields DEF Appends, Appended
  <2>3. AreNodes(nodes')
    BY <1>1, <2>2 DEF AreNodes
  <2> QED BY <1>1, <2>1, <2>2, <2>3 DEF ArenaTyped, Appends
<1>7. CASE Waits \/ Ends
  BY <1>2, <1>7 DEF Waits, Ends
<1>8. ASSUME NEW g, Advances(g) \/ NamesMember(g) PROVE ArenaTyped
  BY <1>3, <1>8 DEF Advances, NamesMember
<1>9. ASSUME NEW g, Moves(g) \/ ReturnsNode(g) \/ ReturnsVartype(g) PROVE ArenaTyped
  BY <1>2, <1>9 DEF Moves, ReturnsNode, ReturnsVartype, Returns
<1>10. ASSUME NEW g, NEW callee, NEW arg, NEW into, NEW min, Enters(g, callee, arg, into, min)
       PROVE  ArenaTyped
  BY <1>2, <1>10 DEF Enters
<1> QED BY <1>4, <1>5, <1>6, <1>7, <1>8, <1>9, <1>10 DEF Does

\* A call in progress is one of the programs, and has nodes of the arena in its locals.
FramesTyped(s) ==
    /\ IsStack(s)
    /\ \A i \in 1..Len(s) : FrameOK(s[i], Ids') /\ (s[i].fn = "parse" <=> i = Len(s))

LEMMA FrameGoes ==
    ASSUME TypeInv, NEW g, Goes(g), Ids \subseteq Ids', \A r \in Registers : g[r] \in Ids'
    PROVE  FramesTyped(stack') /\ Len(stack') # 0
<1>1. status = "running" /\ Replaces(stack, stack', g)
  BY DEF Goes
<1>2. /\ Len(stack) \in Nat /\ Len(stack) # 0 /\ FrameOK(Top, Ids) /\ (Top.fn = "parse" <=> Len(stack) = 1)
      /\ \A i \in 1..Len(stack) : FrameOK(stack[i], Ids) /\ (stack[i].fn = "parse" <=> i = Len(stack))
      /\ IsInstruction(Top.fn, Top.pc)
  BY <1>1, TopTyped
<1>3. g.pc \in DOMAIN Program[Top.fn]
  BY <1>2 DEF Goes, IsInstruction, Instr
<1>4. FrameOK(g, Ids') /\ (g.fn = "parse" <=> Len(stack) = 1)
  BY <1>2, <1>3 DEF Goes, FrameOK
<1>5. ASSUME NEW i \in 1..Len(stack')
      PROVE  FrameOK(stack'[i], Ids') /\ (stack'[i].fn = "parse" <=> i = Len(stack'))
  <2>1. CASE i = 1
    BY <1>1, <1>4, <2>1 DEF Replaces
  <2>2. CASE i # 1
    <3>1. i \in 2..Len(stack) /\ i \in 1..Len(stack) /\ stack'[i] = stack[i] /\ Len(stack') = Len(stack)
      BY <1>1, <1>2, <2>2 DEF Replaces
    <3> QED BY <1>2, <3>1 DEF FrameOK
  <2> QED BY <2>1, <2>2
<1> QED BY <1>1, <1>2, <1>5 DEF FramesTyped, Replaces

LEMMA FrameEnters ==
    ASSUME TypeInv, Ids' = Ids,
           NEW g, NEW callee, NEW arg, NEW into, NEW min, Enters(g, callee, arg, into, min)
    PROVE  FramesTyped(stack') /\ Len(stack') # 0
<1> DEFINE f == Frame(callee, Unset, Top[arg], min, into)
<1>1. status = "running" /\ Pushes(stack, stack', f, g)
  BY DEF Enters
<1>2. /\ Len(stack) \in Nat /\ Len(stack) # 0 /\ FrameOK(Top, Ids) /\ (Top.fn = "parse" <=> Len(stack) = 1)
      /\ \A i \in 1..Len(stack) : FrameOK(stack[i], Ids) /\ (stack[i].fn = "parse" <=> i = Len(stack))
      /\ IsInstruction(Top.fn, Top.pc)
  BY <1>1, TopTyped
<1>3. callee \in DOMAIN Program \ {"parse"} /\ arg \in Registers /\ into \in Registers
  BY <1>2 DEF Enters, IsInstruction, Instr, Registers
<1>4. /\ DOMAIN f = FrameFields /\ f.fn = callee /\ f.pc = 1 /\ f.into = into
      /\ \A r \in Registers : f[r] \in {Unset, Top[arg]}
  BY DEF Frame, FrameFields, Registers
<1> HIDE DEF f
<1>5. FrameOK(f, Ids') /\ f.fn # "parse"
  <2>1. 1 \in DOMAIN Program[callee]
    BY <1>3, ProgramsOwnRight
  <2>2. Unset \in Ids /\ Top[arg] \in Ids
    BY <1>2, <1>3 DEF FrameOK, Ids
  <2> QED BY <1>3, <1>4, <2>1, <2>2 DEF FrameOK
<1>6. FrameOK(g, Ids') /\ (g.fn = "parse" <=> Len(stack) = 1)
  <2>1. Top.pc + 1 \in DOMAIN Program[Top.fn]
    BY <1>2 DEF Enters, IsInstruction, Instr, Successors
  <2> QED BY <1>2, <2>1 DEF Enters, LocalsKept, FrameOK
<1>7. ASSUME NEW i \in 1..Len(stack')
      PROVE  FrameOK(stack'[i], Ids') /\ (stack'[i].fn = "parse" <=> i = Len(stack'))
  <2>1. CASE i = 1
    BY <1>1, <1>2, <1>5, <2>1 DEF Pushes
  <2>2. CASE i = 2
    <3>1. stack'[i] = g /\ Len(stack') = Len(stack) + 1
      BY <1>1, <2>2 DEF Pushes
    <3>2. Len(stack) \in Nat
      BY <1>2
    <3>3. i = Len(stack') <=> Len(stack) = 1
      BY <2>2, <3>1, <3>2
    <3> QED BY <1>6, <3>1, <3>3
  <2>3. CASE i # 1 /\ i # 2
    <3>1. /\ i \in 3..Len(stack) + 1 /\ i - 1 \in 1..Len(stack) /\ stack'[i] = stack[i - 1]
          /\ Len(stack') = Len(stack) + 1
      BY <1>1, <1>2, <2>3 DEF Pushes
    <3>2. FrameOK(stack[i - 1], Ids) /\ (stack[i - 1].fn = "parse" <=> i - 1 = Len(stack))
      BY <1>2, <3>1
    <3> QED BY <1>2, <3>1, <3>2
  <2> QED BY <2>1, <2>2, <2>3
<1> QED BY <1>1, <1>2, <1>7 DEF FramesTyped, Pushes

LEMMA FrameReturns ==
    ASSUME TypeInv, Ids' = Ids, NEW g, Returns(g), \A r \in Registers : g[r] \in Ids
    PROVE  FramesTyped(stack') /\ Len(stack') # 0
<1>1. status = "running" /\ Pops(stack, stack', g) /\ Len(stack) > 1
  BY DEF Returns
<1>2. /\ Len(stack) \in Nat
      /\ \A i \in 1..Len(stack) : FrameOK(stack[i], Ids) /\ (stack[i].fn = "parse" <=> i = Len(stack))
  BY <1>1, TopTyped
<1>3. FrameOK(stack[2], Ids) /\ (stack[2].fn = "parse" <=> 2 = Len(stack))
  BY <1>1, <1>2
<1>4. FrameOK(g, Ids') /\ (g.fn = "parse" <=> 2 = Len(stack))
  BY <1>3 DEF Returns, FrameOK
<1>5. ASSUME NEW i \in 1..Len(stack')
      PROVE  FrameOK(stack'[i], Ids') /\ (stack'[i].fn = "parse" <=> i = Len(stack'))
  <2>1. CASE i = 1
    BY <1>1, <1>2, <1>4, <2>1 DEF Pops
  <2>2. CASE i # 1
    <3>1. /\ i \in 2..Len(stack) - 1 /\ i + 1 \in 1..Len(stack) /\ stack'[i] = stack[i + 1]
          /\ Len(stack') = Len(stack) - 1
      BY <1>1, <1>2, <2>2 DEF Pops
    <3>2. FrameOK(stack[i + 1], Ids) /\ (stack[i + 1].fn = "parse" <=> i + 1 = Len(stack))
      BY <1>2, <3>1
    <3> QED BY <1>2, <3>1, <3>2
  <2> QED BY <2>1, <2>2
<1> QED BY <1>1, <1>2, <1>5 DEF FramesTyped, Pops

LEMMA StackSteps ==
    ASSUME TypeInv, status = "running", Does
    PROVE  \/ FramesTyped(stack') /\ Len(stack') # 0
           \/ stack' = <<>> /\ status' = "done"
<1>1. ArenaTyped
  BY ArenaSteps
<1>2. /\ Ids \subseteq Ids' /\ node_count \in Nat
      /\ FrameOK(Top, Ids) /\ IsInstruction(Top.fn, Top.pc)
      /\ UNCHANGED nodes => Ids' = Ids
  <2>1. DOMAIN nodes \subseteq DOMAIN nodes'
    BY <1>1 DEF ArenaTyped
  <2>2. Ids \subseteq Ids' /\ (UNCHANGED nodes => Ids' = Ids)
    BY <2>1 DEF Ids
  <2>3. node_count \in 1..NodeCapacity
    BY DEF TypeInv, TypeOK
  <2> QED BY <2>2, <2>3, TopTyped, CapacityAssumption
<1>3. CASE Waits
  <2>1. UNCHANGED stack /\ Ids' = Ids
    BY <1>2, <1>3 DEF Waits
  <2> QED BY <2>1, TopTyped DEF FramesTyped
<1>4. ASSUME NEW g, Advances(g) \/ Moves(g) \/ NamesMember(g) \/ Appends(g)
      PROVE  FramesTyped(stack') /\ Len(stack') # 0
  <2>1. Goes(g)
    BY <1>4 DEF Advances, Moves, NamesMember, Appends
  <2>2. \A r \in Registers : g[r] \in Ids
    <3>1. \A r \in Registers :
            g[r] \in {Top[r], Top["arg"]} \/ (Instr.op = "move" /\ g[r] = Top[Instr.from])
      BY <1>4 DEF Advances, Moves, NamesMember, Appends, LocalsKept, LocalSet
    <3>2. "arg" \in Registers /\ (Instr.op = "move" => Instr.from \in Registers)
      BY <1>2 DEF IsInstruction, Instr, Registers
    <3> QED BY <1>2, <3>1, <3>2 DEF FrameOK
  <2> QED BY <1>2, <2>1, <2>2, FrameGoes
<1>5. ASSUME NEW g, NEW node, Adds(g, node) \/ AddsMember(g, node)
      PROVE  FramesTyped(stack') /\ Len(stack') # 0
  <2>1. Goes(g) /\ node_count' = node_count + 1
    BY <1>5 DEF Adds, AddsMember
  <2>2. node_count \in Ids'
    BY <1>1, <1>2, <2>1 DEF ArenaTyped, Ids
  <2>3. \A r \in Registers : g[r] \in Ids'
    <3>1. \A r \in Registers : g[r] = Top[r] \/ g[r] = node_count
      BY <1>5 DEF Adds, AddsMember, LocalSet
    <3> QED BY <1>2, <2>2, <3>1 DEF FrameOK
  <2> QED BY <1>2, <2>1, <2>3, FrameGoes
<1>6. ASSUME NEW g, NEW callee, NEW arg, NEW into, NEW min, Enters(g, callee, arg, into, min)
      PROVE  FramesTyped(stack') /\ Len(stack') # 0
  <2>1. Ids' = Ids
    BY <1>2, <1>6 DEF Enters
  <2> QED BY <1>6, <2>1, FrameEnters
<1>7. ASSUME NEW g, ReturnsNode(g) \/ ReturnsVartype(g)
      PROVE  FramesTyped(stack') /\ Len(stack') # 0
  <2>1. Returns(g) /\ Ids' = Ids
    BY <1>2, <1>7 DEF ReturnsNode, ReturnsVartype, Returns
  <2>2. \A r \in Registers : stack[2][r] \in Ids
    <3>1. 2 \in 1..Len(stack)
      BY <2>1, TopTyped DEF Returns
    <3> QED BY <3>1, TopTyped DEF FrameOK
  <2>3. \A r \in Registers : g[r] \in Ids
    <3>1. CASE ReturnsVartype(g)
      BY <2>2, <3>1 DEF ReturnsVartype
    <3>2. CASE ReturnsNode(g)
      <4>1. Instr.op = "return"
        BY <3>2 DEF ReturnsNode
      <4>2. Instr.reg \in Registers /\ Top.into \in Registers /\ Unset \in Ids
        BY <1>2, <4>1 DEF IsInstruction, Instr, FrameOK, Ids
      <4>3. Top[Instr.reg] \in Ids /\ stack[2][Top.into] \in Ids
        BY <1>2, <2>2, <4>2 DEF FrameOK
      <4>4. PICK v \in IF Top[Instr.reg] # Unset THEN {Top[Instr.reg]} ELSE {stack[2][Top.into], Unset} :
              \A r \in Registers : g[r] = IF r = Top.into THEN v ELSE stack[2][r]
        BY <3>2 DEF ReturnsNode
      <4>5. v \in Ids
        BY <4>2, <4>3
      <4> QED BY <2>2, <4>4, <4>5
    <3> QED BY <1>7, <3>1, <3>2
  <2> QED BY <2>1, <2>3, FrameReturns
<1>8. CASE Ends
  BY <1>8 DEF Ends
<1> QED BY <1>3, <1>4, <1>5, <1>6, <1>7, <1>8 DEF Does

Statuses == {"running", "done", "failed", "aborted", "wild"}

LEMMA StatusSteps ==
    ASSUME TypeInv, ParserStep
    PROVE  /\ status = "running"
           /\ status' \in Statuses /\ (status' = "failed" <=> error' # "")
           /\ status' = "done" <=> ReturnFromParse
<1>1. status = "running" /\ error = ""
  BY DEF ParserStep, Tokenise, Control, Build, Lex, LexerError, ReadsToken, ExpectToken,
         UnexpectedToken, ConsumeToken, ExpectUncheckedToken, TestToken, SkipBack, SetLocal,
         CallFunction, SwitchToken, FailParse, ReturnToCaller, ReturnVartypeToCaller,
         ReturnFromParse, OutOfNode, AddNode_, MemberNode, MemberOfPrimitive, UnknownMember,
         AppendNode, AppendFails, StoreType, At, TypeInv, TypeOK
<1>2. CASE KeepStatus
  BY <1>1, <1>2 DEF KeepStatus, ReturnFromParse, Statuses
<1>3. ASSUME NEW e, e # "", Error(e)
      PROVE  status' = "failed" /\ error' # ""
  BY <1>3 DEF Error
<1>4. CASE LexerError \/ UnexpectedToken \/ FailParse \/ OutOfNode \/ UnknownMember
  <2>1. FailParse => Instr.error # ""
    BY <1>1, TopTyped DEF FailParse, At, IsInstruction, Instr
  <2>2. status' = "failed" /\ error' # ""
    BY <1>4, <2>1 DEF LexerError, UnexpectedToken, FailParse, OutOfNode, UnknownMember, Error
  <2> QED BY <1>1, <2>2 DEF ReturnFromParse, Statuses
<1>5. CASE AppendFails
  BY <1>1, <1>5 DEF AppendFails, ReturnFromParse, Statuses
<1>6. CASE ReturnFromParse
  BY <1>1, <1>6 DEF ReturnFromParse, Statuses
<1>7. CASE \/ Lex \/ ExpectToken \/ ConsumeToken \/ ExpectUncheckedToken \/ TestToken \/ SkipBack
           \/ SetLocal \/ CallFunction \/ SwitchToken \/ ReturnToCaller \/ ReturnVartypeToCaller
           \/ AddNode_ \/ MemberNode \/ MemberOfPrimitive \/ AppendNode \/ StoreType
  BY <1>2, <1>7 DEF Lex, ExpectToken, ConsumeToken, ExpectUncheckedToken, TakeToken, TestToken,
         SkipBack, SetLocal, CallFunction, SwitchToken, ReturnToCaller, ReturnVartypeToCaller,
         AddNode_, MemberNode, MemberOfPrimitive, AppendNode, StoreType
<1> QED BY <1>1, <1>4, <1>5, <1>6, <1>7 DEF ParserStep, Tokenise, Control, Build

LEMMA TypeStep ==
    ASSUME TypeInv, ParserStep
    PROVE  TypeInv'
<1>1. status = "running" /\ Does
  BY StatusSteps, StepsDo
<1>2. ArenaTyped
  BY <1>1, ArenaSteps
<1>3. FramesTyped(stack') /\ (Len(stack') = 0 <=> status' = "done")
  <2>1. CASE FramesTyped(stack') /\ Len(stack') # 0
    <3>1. ~ReturnFromParse
      <4>1. Len(<<>>) = 0
        OBVIOUS
      <4> QED BY <2>1, <4>1 DEF ReturnFromParse
    <3> QED BY <2>1, <3>1, StatusSteps
  <2>2. CASE stack' = <<>> /\ status' = "done"
    <3>1. Len(stack') = 0 /\ IsStack(stack')
      BY <2>2, EmptySeq DEF IsStack
    <3> QED BY <2>2, <3>1 DEF FramesTyped
  <2> QED BY <1>1, <2>1, <2>2, StackSteps
<1>4. TypeOK'
  <2>1. \A i \in DOMAIN stack' :
          /\ stack'[i].fn \in DOMAIN Program /\ stack'[i].pc \in DOMAIN Program[stack'[i].fn]
          /\ {stack'[i].node, stack'[i].arg, stack'[i].lhs, stack'[i].ret} \subseteq Ids'
    <3>1. DOMAIN stack' = 1..Len(stack')
      BY <1>3, LenProperties DEF FramesTyped, IsStack
    <3> QED BY <1>3, <3>1 DEF FramesTyped, FrameOK, Registers
  <2>2. \A n \in DOMAIN nodes' : nodes'[n].type \in NodeTypes
    BY <1>2 DEF ArenaTyped, AreNodes
  <2>3. status' \in {"running", "done", "failed", "aborted", "wild"}
    BY StatusSteps DEF Statuses
  <2>4. (status' = "failed") = (error' # "")
    BY StatusSteps
  <2> QED BY <1>2, <2>1, <2>2, <2>3, <2>4 DEF TypeOK, ArenaTyped
<1> QED BY <1>2, <1>3, <1>4 DEF TypeInv, FramesTyped, ArenaTyped

LEMMA TypeStart ==
    ASSUME StartParse PROVE TypeInv
<1> DEFINE f == Frame("parse", Root, Unset, 0, "node")
<1>1. stack = <<f>> /\ nodes = ClearedNodes /\ node_count = 1 /\ status = "running" /\ error = ""
  BY DEF StartParse
<1>2. DOMAIN nodes = {0} /\ AreNodes(nodes)
  <2>1. DOMAIN ClearedNodes = {Root} /\ ClearedNodes[Root] = NewNode("MODULE", "", "", 0)
    BY DEF ClearedNodes
  <2>2. \E value, vartype, span : ClearedNodes[Root] = NewNode("MODULE", value, vartype, span)
    BY <2>1
  <2>3. DOMAIN ClearedNodes[Root] = NodeFields /\ ClearedNodes[Root].type = "MODULE"
    BY <2>2, NewNodeFields
  <2> QED BY <1>1, <2>1, <2>3 DEF AreNodes, Root, NodeTypes
<1>3. FrameOK(f, Ids) /\ f.fn = "parse"
  <2>1. "parse" \in DOMAIN Program
    BY DEF Program
  <2>2. 1 \in DOMAIN Program["parse"]
    BY <2>1, ProgramsOwnRight
  <2>3. Root \in Ids /\ Unset \in Ids
    BY <1>2 DEF Ids, Root
  <2> QED BY <2>1, <2>2, <2>3 DEF FrameOK, Frame, FrameFields, Registers
<1>4. Len(stack) = 1 /\ stack[1] = f /\ IsStack(stack) /\ DOMAIN stack = {1}
  <2>1. stack = <<f>>
    BY <1>1
  <2> HIDE DEF f
  <2>2. stack \in Seq({f}) /\ Len(stack) = 1 /\ stack[1] = f
    BY <2>1
  <2> QED BY <2>2, StackOf
<1> HIDE DEF f
<1>5. \A i \in 1..Len(stack) : FrameOK(stack[i], Ids) /\ (stack[i].fn = "parse" <=> i = Len(stack))
  BY <1>3, <1>4
<1>6. TypeOK
  <2>1. node_count \in 1..NodeCapacity /\ DOMAIN nodes = 0..(node_count - 1)
    <3>1. node_count = 1
      BY <1>1
    <3>2. 1 \in 1..NodeCapacity /\ {0} = 0..(1 - 1)
      BY CapacityAssumption
    <3> QED BY <1>2, <3>1, <3>2
  <2>2. \A n \in DOMAIN nodes : nodes[n].type \in NodeTypes
    BY <1>2 DEF AreNodes
  <2>3. \A i \in DOMAIN stack :
          /\ stack[i].fn \in DOMAIN Program /\ stack[i].pc \in DOMAIN Program[stack[i].fn]
          /\ {stack[i].node, stack[i].arg, stack[i].lhs, stack[i].ret} \subseteq Ids
    BY <1>3, <1>4 DEF FrameOK, Registers
  <2> QED BY <1>1, <2>1, <2>2, <2>3 DEF TypeOK
<1>7. Len(stack) # 0 /\ status # "done"
  <2>1. status = "running"
    BY <1>1
  <2> QED BY <1>4, <2>1
<1> QED BY <1>2, <1>4, <1>5, <1>6, <1>7 DEF TypeInv

LEMMA TypeStutters ==
    ASSUME TypeInv, UNCHANGED parserVars PROVE TypeInv'
BY DEF parserVars, TypeInv, TypeOK, Ids

\* Whatever the source text, the arena keeps to its capacity, and every local id of
\* every call in progress is a node of the arena or not assigned (ast.h:214-228).
THEOREM TypeCorrect == Spec => []TypeOK
<1>1. StartParse => TypeInv
  BY TypeStart
<1>2. TypeInv /\ [ParserStep]_parserVars => TypeInv'
  BY TypeStep, TypeStutters
<1>3. TypeInv => TypeOK
  BY DEF TypeInv
<1> QED BY <1>1, <1>2, <1>3, PTL DEF Spec

-------------------------------------------------------------------------------
(* Owners. The nodes without a parent are split among the calls in progress. *)

\* The sets h[1], ..., h[n] split S.
Partition(h, n, S) ==
    /\ \A i \in 1..n : h[i] \subseteq S
    /\ \A i, j \in 1..n : h[i] \cap h[j] # {} => i = j
    /\ \A x \in S : \E i \in 1..n : x \in h[i]

LEMMA PartitionGoes ==
    ASSUME NEW n \in Nat \ {0}, NEW h, NEW k, NEW S, NEW T, Partition(h, n, S),
           \A i \in 2..n : k[i] = h[i],
           k[1] \cap (S \ h[1]) = {}, T = (S \ h[1]) \cup k[1]
    PROVE  Partition(k, n, T)
<1>1. \A i \in 1..n : i = 1 \/ (i \in 2..n /\ k[i] = h[i] /\ h[i] \subseteq S /\ h[i] \cap h[1] = {})
  <2>1. 1 \in 1..n /\ \A i \in 1..n : i # 1 => i \in 2..n
    OBVIOUS
  <2> QED BY <2>1 DEF Partition
<1>2. 1 \in 1..n /\ \A i \in 2..n : i \in 1..n /\ i # 1
  OBVIOUS
<1>3. \A i \in 1..n : k[i] \subseteq T
  BY <1>1
<1>4. \A i, j \in 1..n : k[i] \cap k[j] # {} => i = j
  <2> SUFFICES ASSUME NEW i \in 1..n, NEW j \in 1..n, NEW x, x \in k[i], x \in k[j] PROVE i = j
    OBVIOUS
  <2>1. i = 1 => x \notin S \ h[1]
    OBVIOUS
  <2>2. j = 1 => x \notin S \ h[1]
    OBVIOUS
  <2>3. i # 1 => x \in S \ h[1] /\ x \in h[i]
    BY <1>1
  <2>4. j # 1 => x \in S \ h[1] /\ x \in h[j]
    BY <1>1
  <2>5. i # 1 /\ j # 1 => i = j
    <3>1. i # 1 /\ j # 1 => h[i] \cap h[j] # {}
      BY <2>3, <2>4
    <3> QED BY <3>1 DEF Partition
  <2> QED BY <2>1, <2>2, <2>3, <2>4, <2>5
<1>5. ASSUME NEW x \in T PROVE \E i \in 1..n : x \in k[i]
  <2>1. CASE x \in k[1]
    BY <1>2, <2>1
  <2>2. CASE x \in S \ h[1]
    <3>1. PICK i \in 1..n : x \in h[i]
      BY <2>2 DEF Partition
    <3>2. i # 1
      BY <2>2, <3>1
    <3> QED BY <1>1, <3>1, <3>2
  <2> QED BY <2>1, <2>2
<1> QED BY <1>3, <1>4, <1>5 DEF Partition

LEMMA PartitionPushes ==
    ASSUME NEW n \in Nat \ {0}, NEW h, NEW k, NEW S, Partition(h, n, S),
           \A i \in 3..n + 1 : k[i] = h[i - 1],
           k[1] \cup k[2] = h[1], k[1] \cap k[2] = {}
    PROVE  Partition(k, n + 1, S)
<1> DEFINE At_(i) == IF i = 1 THEN 1 ELSE i - 1
<1>1. \A i \in 1..n + 1 : At_(i) \in 1..n /\ k[i] \subseteq h[At_(i)]
  <2> TAKE i \in 1..n + 1
  <2>1. i = 1 \/ i = 2 \/ (i \in 3..n + 1 /\ At_(i) = i - 1)
    OBVIOUS
  <2>2. At_(1) = 1 /\ At_(2) = 1 /\ 1 \in 1..n
    OBVIOUS
  <2>3. i \in 3..n + 1 => i - 1 \in 1..n
    OBVIOUS
  <2> HIDE DEF At_
  <2> QED BY <2>1, <2>2, <2>3
<1>2. ASSUME NEW i \in 1..n + 1, NEW j \in 1..n + 1, NEW x, x \in k[i], x \in k[j] PROVE i = j
  <2>1. At_(i) = At_(j)
    <3> HIDE DEF At_
    <3>1. h[At_(i)] \cap h[At_(j)] # {}
      BY <1>1, <1>2
    <3> QED BY <1>1, <3>1 DEF Partition
  <2>2. ~(i = 1 /\ j = 2) /\ ~(i = 2 /\ j = 1)
    BY <1>2
  <2> QED BY <2>1, <2>2
<1>3. ASSUME NEW x \in S PROVE \E i \in 1..n + 1 : x \in k[i]
  <2>1. PICK i \in 1..n : x \in h[i]
    BY DEF Partition
  <2>2. CASE i = 1
    <3>1. x \in k[1] \/ x \in k[2]
      BY <2>1, <2>2
    <3> QED BY <3>1
  <2>3. CASE i # 1
    <3>1. i + 1 \in 3..n + 1 /\ (i + 1) - 1 = i /\ i + 1 \in 1..n + 1
      BY <2>3
    <3> QED BY <2>1, <3>1
  <2> QED BY <2>2, <2>3
<1>4. \A i \in 1..n + 1 : k[i] \subseteq S
  <2> HIDE DEF At_
  <2> QED BY <1>1 DEF Partition
<1> QED BY <1>2, <1>3, <1>4 DEF Partition

LEMMA PartitionPops ==
    ASSUME NEW n \in Nat, n > 1, NEW h, NEW k, NEW S, Partition(h, n, S),
           \A i \in 2..n - 1 : k[i] = h[i + 1],
           k[1] = h[1] \cup h[2]
    PROVE  Partition(k, n - 1, S)
<1>1. \A i \in 1..n - 1 : i = 1 \/ (i \in 2..n - 1 /\ i + 1 \in 1..n /\ k[i] = h[i + 1])
  OBVIOUS
<1>2. 1 \in 1..n /\ 2 \in 1..n /\ 1 \in 1..n - 1
  OBVIOUS
<1>3. ASSUME NEW i \in 1..n - 1, NEW j \in 1..n - 1, NEW x, x \in k[i], x \in k[j] PROVE i = j
  <2>1. \E a \in 1..n : x \in h[a] /\ (i = 1 => a \in {1, 2}) /\ (i # 1 => a = i + 1)
    BY <1>1, <1>2, <1>3
  <2>2. \E b \in 1..n : x \in h[b] /\ (j = 1 => b \in {1, 2}) /\ (j # 1 => b = j + 1)
    BY <1>1, <1>2, <1>3
  <2>3. \A a, b \in 1..n : x \in h[a] /\ x \in h[b] => a = b
    BY DEF Partition
  <2> QED BY <2>1, <2>2, <2>3
<1>4. ASSUME NEW x \in S PROVE \E i \in 1..n - 1 : x \in k[i]
  <2>1. PICK i \in 1..n : x \in h[i]
    BY DEF Partition
  <2>2. CASE i \in {1, 2}
    BY <1>2, <2>1, <2>2
  <2>3. CASE i \notin {1, 2}
    <3>1. i - 1 \in 2..n - 1 /\ (i - 1) + 1 = i /\ i - 1 \in 1..n - 1
      BY <2>3
    <3> QED BY <2>1, <3>1
  <2> QED BY <2>2, <2>3
<1>5. \A i \in 1..n - 1 : k[i] \subseteq S
  BY <1>1, <1>2 DEF Partition
<1> QED BY <1>3, <1>4, <1>5 DEF Partition

\* What the calls hold: Live and the claims of NodesHaveOneOwner, by call.
OwnedBy(f) == Owned[f.fn][f.pc]
LiveAt(s, i) == IF i = 1 THEN OwnedBy(s[1]) ELSE OwnedBy(s[i]) \ {s[i - 1].into}
Held(s) == [i \in 1..Len(s) |-> {s[i][r] : r \in LiveAt(s, i)}]

\* Two locals of a call do not hold the same node.
HoldsApart(f, live) == \A r, q \in live : f[r] = f[q] => r = q

\* A block belongs to the node its caller builds: it gets its parent in the second
\* instruction.
Hangs(s, i, tree) ==
    s[i].fn \in Bodies =>
        /\ i < Len(s) /\ "node" \in LiveAt(s, i + 1)
        /\ s[i].pc \in {1, 2} => s[i].arg = s[i + 1].node
        /\ s[i].pc \notin {1, 2} =>
              s[i].node \in DOMAIN tree /\ tree[s[i].node].parent = s[i + 1].node

\* The caller of a call expects a node if the callee makes one.
Awaits(s, i) ==
    /\ s[i].into \in OwnedBy(s[i + 1]) <=> s[i].fn \in Makers
    /\ s[i].into = "node" => s[i + 1].fn \notin Bodies \cup {"parse"}
    /\ s[i + 1].fn \in Bodies => s[i + 1].pc \notin {1, 2}

CallsOwn(s, tree, orphans) ==
    /\ Partition(Held(s), Len(s), orphans)
    /\ \A i \in 1..Len(s) :
          /\ s[i].fn # "nothing"
          /\ s[i].fn = "parse" => s[i].node = Root
          /\ HoldsApart(s[i], LiveAt(s, i))
          /\ Hangs(s, i, tree)
    /\ \A i \in 1..Len(s) - 1 : Awaits(s, i)

IsTrees(tree) == \E kids, top, depth : AreTrees(tree, kids, top, depth)

\* The inductive invariant.
OwnerInv ==
    /\ TypeInv
    /\ NoFailedAssertion
    /\ vocabulary \in Vocabularies /\ look.type \notin Unfinished
    /\ CallsOwn(stack, nodes, Orphans)
    /\ IsTrees(nodes)

\* Links that are set stay.
ParentsKept(tree, new) ==
    \A n \in DOMAIN tree :
        n \in DOMAIN new /\ (tree[n].parent # NodeNull => new[n].parent = tree[n].parent)

HeldNow(f) == {f[r] : r \in OwnedBy(f)}

LEMMA TopOwns ==
    ASSUME OwnerInv, status = "running"
    PROVE  /\ Len(stack) \in Nat /\ Len(stack) # 0 /\ 1 \in 1..Len(stack)
           /\ Top.fn \in DOMAIN Program /\ Top.fn # "nothing" /\ Top.pc \in DOMAIN Program[Top.fn]
           /\ OwnsRight(Top.fn, Top.pc) /\ IsInstruction(Top.fn, Top.pc)
           /\ OwnedBy(Top) \subseteq Registers
           /\ Held(stack)[1] = HeldNow(Top)
           /\ HoldsApart(Top, OwnedBy(Top))
           /\ \A r \in OwnedBy(Top) : Top[r] \in Orphans
           /\ Top.fn = "parse" => Top.node = Root
           /\ Hangs(stack, 1, nodes)
<1>1. /\ Len(stack) \in Nat /\ Len(stack) # 0
      /\ FrameOK(Top, Ids) /\ IsInstruction(Top.fn, Top.pc)
  BY TopTyped DEF OwnerInv
<1>2. 1 \in 1..Len(stack)
  BY <1>1
<1>3. /\ Top.fn # "nothing" /\ (Top.fn = "parse" => Top.node = Root)
      /\ HoldsApart(stack[1], LiveAt(stack, 1)) /\ Hangs(stack, 1, nodes)
      /\ Held(stack)[1] \subseteq Orphans
  BY <1>2 DEF OwnerInv, CallsOwn, Top, Partition
<1>4. LiveAt(stack, 1) = OwnedBy(Top) /\ stack[1] = Top
  BY DEF LiveAt, Top
<1>5. Held(stack)[1] = HeldNow(Top)
  BY <1>2, <1>4 DEF Held, HeldNow
<1>6. \A r \in OwnedBy(Top) : Top[r] \in Orphans
  BY <1>3, <1>5 DEF HeldNow
<1>7. OwnsRight(Top.fn, Top.pc)
  BY <1>1, <1>3, ProgramsOwnRight DEF FrameOK
<1>8. OwnedBy(Top) \subseteq Registers
  BY <1>7 DEF OwnsRight, OwnedBy
<1> QED BY <1>1, <1>2, <1>3, <1>4, <1>5, <1>6, <1>7, <1>8 DEF FrameOK

\* A step of the running call.
LEMMA OwnersGo ==
    ASSUME OwnerInv, NEW g, Goes(g), ParentsKept(nodes, nodes'),
           HoldsApart(g, OwnedBy(g)),
           HeldNow(g) \cap (Orphans \ HeldNow(Top)) = {},
           Orphans' = (Orphans \ HeldNow(Top)) \cup HeldNow(g),
           g.fn = "parse" => g.node = Root,
           g.fn \in Bodies =>
              /\ g.pc \in {1, 2} => g.arg = stack[2].node
              /\ g.pc \notin {1, 2} =>
                    g.node \in DOMAIN nodes' /\ nodes'[g.node].parent = stack[2].node
    PROVE  CallsOwn(stack', nodes', Orphans')
<1> DEFINE n == Len(stack)
           t == stack'
<1>1. /\ status = "running" /\ Replaces(stack, t, g)
      /\ g.fn = Top.fn /\ g.into = Top.into
  BY DEF Goes
<1>2. /\ n \in Nat \ {0} /\ 1 \in 1..n
      /\ Held(stack)[1] = HeldNow(Top) /\ Top.fn # "nothing" /\ Hangs(stack, 1, nodes)
  BY <1>1, TopOwns
<1>3. Len(t) = n /\ t[1] = g /\ \A i \in 2..n : t[i] = stack[i]
  BY <1>1 DEF Replaces
<1>4. LiveAt(t, 1) = OwnedBy(g) /\ \A i \in 2..n : LiveAt(t, i) = LiveAt(stack, i)
  <2>1. ASSUME NEW i \in 2..n PROVE LiveAt(t, i) = LiveAt(stack, i)
    <3>1. i # 1 /\ t[i] = stack[i]
      BY <1>3
    <3>2. t[i - 1].into = stack[i - 1].into
      <4>1. CASE i = 2
        <5>1. i - 1 = 1
          BY <4>1
        <5> QED BY <1>1, <1>3, <5>1 DEF Top
      <4>2. CASE i # 2
        <5>1. i - 1 \in 2..n
          BY <1>2, <4>2
        <5> QED BY <1>3, <5>1
      <4> QED BY <4>1, <4>2
    <3> QED BY <3>1, <3>2 DEF LiveAt
  <2> QED BY <1>3, <2>1 DEF LiveAt
<1>5. /\ Partition(Held(stack), n, Orphans)
      /\ \A i \in 1..n : /\ stack[i].fn # "nothing"
                         /\ stack[i].fn = "parse" => stack[i].node = Root
                         /\ HoldsApart(stack[i], LiveAt(stack, i))
                         /\ Hangs(stack, i, nodes)
      /\ \A i \in 1..n - 1 : Awaits(stack, i)
  BY DEF OwnerInv, CallsOwn
<1> HIDE DEF n, t
<1>6. Partition(Held(t), Len(t), Orphans')
  <2>1. Held(t)[1] = HeldNow(g)
    BY <1>2, <1>3, <1>4 DEF Held, HeldNow
  <2>2. \A i \in 2..n : Held(t)[i] = Held(stack)[i]
    <3>1. \A i \in 2..n : i \in 1..n
      BY <1>2
    <3> QED BY <1>3, <1>4, <3>1 DEF Held, n
  <2> DEFINE h == Held(stack)
             k == Held(t)
  <2> HIDE DEF h, k
  <2>3. \A i \in 2..n : k[i] = h[i]
    BY <2>2 DEF h, k
  <2>4. Partition(h, n, Orphans) /\ h[1] = HeldNow(Top) /\ k[1] = HeldNow(g)
    BY <1>2, <1>5, <2>1 DEF h, k
  <2>5. Partition(k, n, Orphans')
    BY <1>2, <2>3, <2>4, PartitionGoes
  <2> QED BY <1>3, <2>5 DEF k
<1>7. \A i \in 2..n : i \in 1..n /\ i + 1 > 1 /\ i # 1 /\ (i < n => i + 1 \in 2..n)
  BY <1>2
<1>8. \A i \in 1..n : i = 1 \/ i \in 2..n
  BY <1>2
<1>9. ASSUME NEW i \in 1..n
      PROVE  /\ t[i].fn # "nothing"
             /\ t[i].fn = "parse" => t[i].node = Root
             /\ HoldsApart(t[i], LiveAt(t, i))
  <2>1. CASE i = 1
    BY <1>1, <1>2, <1>3, <1>4, <2>1
  <2>2. CASE i \in 2..n
    BY <1>3, <1>4, <1>5, <2>2
  <2> QED BY <1>8, <2>1, <2>2
<1>10. ASSUME NEW i \in 1..n PROVE Hangs(t, i, nodes')
  <2>1. CASE i = 1
    <3> SUFFICES ASSUME g.fn \in Bodies PROVE Hangs(t, 1, nodes')
      BY <1>3, <2>1 DEF Hangs
    <3>1. 1 < n /\ "node" \in LiveAt(stack, 1 + 1)
      BY <1>1, <1>2 DEF Hangs, Top, n
    <3>2. 1 + 1 = 2 /\ 2 \in 2..n
      BY <1>2, <3>1
    <3>3. t[2] = stack[2] /\ LiveAt(t, 2) = LiveAt(stack, 2)
      BY <1>3, <1>4, <3>2
    <3> QED BY <1>3, <3>1, <3>2, <3>3 DEF Hangs
  <2>2. CASE i \in 2..n
    <3> SUFFICES ASSUME stack[i].fn \in Bodies PROVE Hangs(t, i, nodes')
      BY <1>3, <2>2 DEF Hangs
    <3>1. i < n /\ "node" \in LiveAt(stack, i + 1) /\ Hangs(stack, i, nodes) /\ i + 1 \in 2..n
      BY <1>5, <1>7, <2>2 DEF Hangs, n
    <3>2. t[i] = stack[i] /\ t[i + 1] = stack[i + 1] /\ LiveAt(t, i + 1) = LiveAt(stack, i + 1)
      BY <1>3, <1>4, <2>2, <3>1
    <3>3. stack[i].pc \notin {1, 2} =>
             /\ stack[i].node \in DOMAIN nodes' 
             /\ nodes'[stack[i].node].parent = stack[i + 1].node
      <4> SUFFICES ASSUME stack[i].pc \notin {1, 2} 
                   PROVE  /\ stack[i].node \in DOMAIN nodes' 
                          /\ nodes'[stack[i].node].parent = stack[i + 1].node
        OBVIOUS
      <4>1. stack[i].node \in DOMAIN nodes /\ nodes[stack[i].node].parent = stack[i + 1].node
        BY <3>1 DEF Hangs
      <4>2. stack[i + 1].node # NodeNull
        <5>1. i + 1 \in 1..n
          BY <1>7, <3>1
        <5>2. stack[i + 1].node \in Held(stack)[i + 1]
          BY <3>1, <5>1 DEF Held, n
        <5>3. stack[i + 1].node \in Orphans
          BY <1>5, <5>1, <5>2 DEF Partition
        <5> QED BY <5>3 DEF Orphans, OwnerInv, IsTrees, AreTrees
      <4> QED BY <4>1, <4>2 DEF ParentsKept
    <3> QED BY <1>3, <3>1, <3>2, <3>3 DEF Hangs
  <2> QED BY <1>8, <2>1, <2>2
<1>11. ASSUME NEW i \in 1..n - 1 PROVE Awaits(t, i)
  <2>1. i \in 1..n /\ i + 1 \in 2..n /\ Awaits(stack, i) /\ t[i + 1] = stack[i + 1]
    BY <1>2, <1>3, <1>5
  <2>2. t[i].into = stack[i].into /\ t[i].fn = stack[i].fn
    BY <1>1, <1>3, <1>8, <2>1 DEF Top
  <2> QED BY <2>1, <2>2 DEF Awaits
<1>12. Len(t) = n
  BY <1>3
<1> QED BY <1>6, <1>9, <1>10, <1>11, <1>12 DEF CallsOwn, t

\* In a body, only the first two instructions come before the block has its parent.
LEMMA BodiesGoOn ==
    ASSUME OwnerInv, status = "running", Top.fn \in Bodies, Instr.op \notin {"add", "append"}
    PROVE  /\ Top.pc \notin {1, 2} /\ Successors(Instr, Top.pc) \cap {1, 2} = {}
           /\ Len(stack) > 1 /\ "node" \in LiveAt(stack, 2)
           /\ Top.node \in DOMAIN nodes /\ nodes[Top.node].parent = stack[2].node
<1>1. OwnsRight(Top.fn, Top.pc) /\ Hangs(stack, 1, nodes) /\ Len(stack) \in Nat
  BY TopOwns
<1>2. Top.pc \in Nat \ {0}
  BY TopTyped DEF OwnerInv
<1>3. Top.pc \notin {1, 2} /\ Successors(Instr, Top.pc) \cap {1, 2} = {}
  <2>1. /\ Top.pc = 1 => Instr.op = "add"
        /\ Top.pc = 2 => Instr.op = "append"
        /\ Top.pc > 2 => Successors(Instr, Top.pc) \cap {1, 2} = {}
    BY <1>1 DEF OwnsRight, Instr
  <2>2. Top.pc = 1 \/ Top.pc = 2 \/ Top.pc > 2
    BY <1>2
  <2> QED BY <2>1, <2>2
<1>4. 1 + 1 = 2
  OBVIOUS
<1> QED BY <1>1, <1>3, <1>4 DEF Hangs, Top

\* A call.
LEMMA OwnersPush ==
    ASSUME OwnerInv, NEW g, NEW callee, NEW arg, NEW into, NEW min,
           Enters(g, callee, arg, into, min),
           callee \in DOMAIN Program \ {"parse"},
           CallsRight(Top.fn, OwnedBy(Top), callee, arg, into),
           OwnedBy(g) = (OwnedBy(Top) \ Passed(callee, arg)) \cup Made(callee, into)
    PROVE  CallsOwn(stack', nodes, Orphans)
<1> DEFINE n == Len(stack)
           t == stack'
           f == Frame(callee, Unset, Top[arg], min, into)
           kept == OwnedBy(Top) \ Passed(callee, arg)
<1>1. /\ status = "running" /\ Pushes(stack, t, f, g) /\ LocalsKept(g)
      /\ g.fn = Top.fn /\ g.into = Top.into /\ g.pc = Top.pc + 1 /\ Instr.op \in {"call", "switch"}
  BY DEF Enters
<1>2. /\ n \in Nat \ {0} /\ 1 \in 1..n
      /\ Held(stack)[1] = HeldNow(Top) /\ Top.fn # "nothing" /\ Hangs(stack, 1, nodes)
      /\ HoldsApart(Top, OwnedBy(Top)) /\ OwnedBy(Top) \subseteq Registers
      /\ Top.fn = "parse" => Top.node = Root
  BY <1>1, TopOwns
<1>3. /\ Len(t) = n + 1 /\ t[1] = f /\ t[2] = g
      /\ \A i \in 3..n + 1 : t[i] = stack[i - 1]
  BY <1>1 DEF Pushes
<1>4. /\ f.fn = callee /\ f.pc = 1 /\ f.arg = Top[arg] /\ f["arg"] = Top[arg] /\ f.into = into
  BY DEF Frame
<1> HIDE DEF f
<1>5. g.fn \in Bodies =>
         /\ Top.pc \notin {1, 2} /\ g.pc \notin {1, 2}
         /\ Top.node \in DOMAIN nodes /\ nodes[Top.node].parent = stack[2].node
  <2>1. g.pc \in Successors(Instr, Top.pc)
    BY <1>1 DEF Successors
  <2> QED BY <1>1, <2>1, BodiesGoOn
<1>6. /\ kept \subseteq Registers /\ into \notin kept
      /\ Passed(callee, arg) \subseteq OwnedBy(Top)
      /\ OwnedBy(f) = Passed(callee, "arg")
      /\ OwnedBy(g) \ {into} = kept
      /\ into \in OwnedBy(g) <=> callee \in Makers
      /\ \A r \in kept : g[r] = Top[r]
  <2>1. OwnedBy(f) = Passed(callee, "arg")
    BY <1>4, ProgramsOwnRight DEF OwnedBy
  <2>2. into \notin kept /\ Passed(callee, arg) \subseteq OwnedBy(Top)
    BY DEF CallsRight
  <2>3. OwnedBy(g) \ {into} = kept /\ (into \in OwnedBy(g) <=> callee \in Makers)
    BY <2>2 DEF Made
  <2> QED BY <1>1, <1>2, <2>1, <2>2, <2>3 DEF LocalsKept
<1>7. /\ LiveAt(t, 1) = OwnedBy(f) /\ LiveAt(t, 2) = kept
      /\ \A i \in 3..n + 1 : LiveAt(t, i) = LiveAt(stack, i - 1)
  <2>1. LiveAt(t, 1) = OwnedBy(f)
    BY <1>3 DEF LiveAt
  <2>2. LiveAt(t, 2) = kept
    <3>1. 2 - 1 = 1 /\ 2 # 1
      OBVIOUS
    <3> QED BY <1>3, <1>4, <1>6, <3>1 DEF LiveAt
  <2>3. ASSUME NEW i \in 3..n + 1 PROVE LiveAt(t, i) = LiveAt(stack, i - 1)
    <3>1. i # 1 /\ i - 1 # 1 /\ t[i] = stack[i - 1]
      BY <1>3
    <3>2. t[i - 1].into = stack[(i - 1) - 1].into
      <4>1. CASE i = 3
        <5>1. i - 1 = 2 /\ (i - 1) - 1 = 1
          BY <4>1
        <5> QED BY <1>1, <1>3, <5>1 DEF Top
      <4>2. CASE i # 3
        <5>1. i - 1 \in 3..n + 1
          BY <1>2, <4>2
        <5> QED BY <1>3, <5>1
      <4> QED BY <4>1, <4>2
    <3> QED BY <3>1, <3>2 DEF LiveAt
  <2> QED BY <2>1, <2>2, <2>3
<1>8. /\ Partition(Held(stack), n, Orphans)
      /\ \A i \in 1..n : /\ stack[i].fn # "nothing"
                         /\ stack[i].fn = "parse" => stack[i].node = Root
                         /\ HoldsApart(stack[i], LiveAt(stack, i))
                         /\ Hangs(stack, i, nodes)
      /\ \A i \in 1..n - 1 : Awaits(stack, i)
  BY DEF OwnerInv, CallsOwn
<1> HIDE DEF n, t
<1>9. /\ \A i \in 3..n + 1 : i - 1 \in 1..n /\ i # 1 /\ i # 2 /\ (i - 1) + 1 = i
      /\ \A i \in 1..n + 1 : i = 1 \/ i = 2 \/ i \in 3..n + 1
      /\ 1 \in 1..n + 1 /\ 2 \in 1..n + 1
  BY <1>2
<1>10. Partition(Held(t), Len(t), Orphans)
  <2>1. /\ Held(t)[1] = {f[r] : r \in Passed(callee, "arg")}
        /\ Held(t)[2] = {g[r] : r \in kept}
        /\ \A i \in 3..n + 1 : Held(t)[i] = Held(stack)[i - 1]
    <3>1. /\ Held(t)[1] = {t[1][r] : r \in LiveAt(t, 1)}
          /\ Held(t)[2] = {t[2][r] : r \in LiveAt(t, 2)}
      BY <1>3, <1>9 DEF Held
    <3>2. ASSUME NEW i \in 3..n + 1 PROVE Held(t)[i] = Held(stack)[i - 1]
      <4>1. Held(t)[i] = {t[i][r] : r \in LiveAt(t, i)}
        BY <1>3, <1>9 DEF Held
      <4>2. Held(stack)[i - 1] = {stack[i - 1][r] : r \in LiveAt(stack, i - 1)}
        BY <1>9 DEF Held, n
      <4> QED BY <1>3, <1>7, <4>1, <4>2
    <3> QED BY <1>3, <1>6, <1>7, <3>1, <3>2
  <2>2. Held(t)[1] = {Top[r] : r \in Passed(callee, arg)}
    BY <1>4, <2>1 DEF Passed
  <2>3. Held(t)[2] = {Top[r] : r \in kept}
    BY <1>6, <2>1
  <2> DEFINE h == Held(stack)
             k == Held(t)
  <2>4. h[1] = {Top[r] : r \in OwnedBy(Top)}
    BY <1>2 DEF HeldNow
  <2> HIDE DEF h, k
  <2>5. k[1] \cup k[2] = h[1]
    BY <1>6, <2>2, <2>3, <2>4 DEF k
  <2>6. k[1] \cap k[2] = {}
    BY <1>2, <1>6, <2>2, <2>3 DEF k, HoldsApart
  <2>7. \A i \in 3..n + 1 : k[i] = h[i - 1]
    BY <2>1 DEF h, k
  <2>8. Partition(h, n, Orphans)
    BY <1>8 DEF h
  <2>9. Partition(k, n + 1, Orphans)
    BY <1>2, <2>5, <2>6, <2>7, <2>8, PartitionPushes
  <2> QED BY <1>3, <2>9 DEF k
<1>11. ASSUME NEW i \in 1..n + 1
       PROVE  /\ t[i].fn # "nothing"
              /\ t[i].fn = "parse" => t[i].node = Root
              /\ HoldsApart(t[i], LiveAt(t, i))
  <2>1. CASE i = 1
    <3>1. callee # "nothing" /\ callee # "parse"
      BY DEF CallsRight
    <3>2. HoldsApart(t[1], LiveAt(t, 1))
      BY <1>6, <1>7 DEF Passed, HoldsApart
    <3> QED BY <1>3, <1>4, <2>1, <3>1, <3>2
  <2>2. CASE i = 2
    <3>1. g.node = Top.node
      BY <1>1 DEF LocalsKept, Registers
    <3>2. HoldsApart(g, kept)
      BY <1>2, <1>6 DEF HoldsApart
    <3> QED BY <1>1, <1>2, <1>3, <1>7, <2>2, <3>1, <3>2
  <2>3. CASE i \in 3..n + 1
    BY <1>3, <1>7, <1>8, <1>9, <2>3
  <2> QED BY <1>9, <2>1, <2>2, <2>3
<1>12. ASSUME NEW i \in 1..n + 1 PROVE Hangs(t, i, nodes)
  <2>1. CASE i = 1
    <3> SUFFICES ASSUME callee \in Bodies PROVE Hangs(t, 1, nodes)
      BY <1>3, <1>4, <2>1 DEF Hangs
    <3>1. arg = "node" /\ "node" \in kept
      BY DEF CallsRight
    <3>2. 1 < n + 1 /\ 1 + 1 = 2
      BY <1>2
    <3>3. f.arg = g.node
      BY <1>4, <1>6, <3>1
    <3> QED BY <1>3, <1>4, <1>7, <3>1, <3>2, <3>3 DEF Hangs
  <2>2. CASE i = 2
    <3> SUFFICES ASSUME g.fn \in Bodies PROVE Hangs(t, 2, nodes)
      BY <1>3, <2>2 DEF Hangs
    <3>1. /\ g.pc \notin {1, 2} /\ Top.node \in DOMAIN nodes
          /\ nodes[Top.node].parent = stack[2].node
      BY <1>5
    <3>2. 1 < n /\ "node" \in LiveAt(stack, 1 + 1)
      BY <1>1, <1>2 DEF Hangs, Top, n
    <3>3. 2 < n + 1 /\ 2 + 1 = 3 /\ 1 + 1 = 2 /\ 3 \in 3..n + 1 /\ 3 - 1 = 2
      BY <1>2, <3>2
    <3>4. g.node = Top.node
      BY <1>1 DEF LocalsKept, Registers
    <3>5. t[3] = stack[2] /\ LiveAt(t, 3) = LiveAt(stack, 2)
      BY <1>3, <1>7, <3>3
    <3> QED BY <1>3, <3>1, <3>2, <3>3, <3>4, <3>5 DEF Hangs
  <2>3. CASE i \in 3..n + 1
    <3> SUFFICES ASSUME stack[i - 1].fn \in Bodies PROVE Hangs(t, i, nodes)
      BY <1>3, <2>3 DEF Hangs
    <3>1. Hangs(stack, i - 1, nodes) /\ t[i] = stack[i - 1] /\ (i - 1) + 1 = i
      BY <1>3, <1>8, <1>9, <2>3
    <3>2. i - 1 < n /\ "node" \in LiveAt(stack, i)
      BY <3>1 DEF Hangs, n
    <3>3. i < n + 1 /\ i + 1 \in 3..n + 1 /\ (i + 1) - 1 = i
      BY <1>2, <2>3, <3>2
    <3>4. t[i + 1] = stack[i] /\ LiveAt(t, i + 1) = LiveAt(stack, i)
      BY <1>3, <1>7, <3>3
    <3> QED BY <1>3, <3>1, <3>2, <3>3, <3>4 DEF Hangs
  <2> QED BY <1>9, <2>1, <2>2, <2>3
<1>13. ASSUME NEW i \in 1..(n + 1) - 1 PROVE Awaits(t, i)
  <2>1. CASE i = 1
    <3>1. into = "node" => Top.fn \notin Bodies \cup {"parse"}
      BY DEF CallsRight
    <3>2. 1 + 1 = 2
      OBVIOUS
    <3> QED BY <1>1, <1>3, <1>4, <1>5, <1>6, <2>1, <3>1, <3>2 DEF Awaits
  <2>2. CASE i = 2
    <3>1. 1 \in 1..n - 1 /\ 2 + 1 = 3 /\ 1 + 1 = 2 /\ 3 \in 3..n + 1 /\ 3 - 1 = 2
      BY <1>2, <2>2
    <3>2. Awaits(stack, 1) /\ t[3] = stack[2] /\ t[2] = g
      BY <1>3, <1>8, <3>1
    <3> QED BY <1>1, <2>2, <3>1, <3>2 DEF Awaits, Top
  <2>3. CASE i # 1 /\ i # 2
    <3>1. /\ i \in 3..n + 1 /\ i + 1 \in 3..n + 1 /\ i - 1 \in 1..n - 1
          /\ (i - 1) + 1 = i /\ (i + 1) - 1 = i
      BY <1>2, <2>3
    <3>2. Awaits(stack, i - 1) /\ t[i] = stack[i - 1] /\ t[i + 1] = stack[i]
      BY <1>3, <1>8, <3>1
    <3> QED BY <3>1, <3>2 DEF Awaits
  <2> QED BY <2>1, <2>2, <2>3
<1>14. Len(t) = n + 1
  BY <1>3
<1> QED BY <1>10, <1>11, <1>12, <1>13, <1>14 DEF CallsOwn, t

\* A return.
LEMMA OwnersPop ==
    ASSUME OwnerInv, NEW g, Returns(g),
           \A r \in Registers : r # Top.into => g[r] = stack[2][r],
           Top.fn \notin Makers => OwnedBy(Top) = {},
           Top.fn \in Makers => \E reg : OwnedBy(Top) = {reg} /\ g[Top.into] = Top[reg]
    PROVE  CallsOwn(stack', nodes, Orphans)
<1> DEFINE n == Len(stack)
           t == stack'
           caller == stack[2]
           into == Top.into
           owned == OwnedBy(caller)
<1>1. /\ status = "running" /\ Pops(stack, t, g) /\ n > 1
      /\ g.fn = caller.fn /\ g.into = caller.into /\ g.pc = caller.pc
  BY DEF Returns
<1>2. /\ n \in Nat /\ 1 \in 1..n /\ Held(stack)[1] = HeldNow(Top)
      /\ FrameOK(Top, Ids)
  BY <1>1, TopOwns, TopTyped DEF OwnerInv
<1>3. /\ Len(t) = n - 1 /\ t[1] = g
      /\ \A i \in 2..n - 1 : t[i] = stack[i + 1]
  BY <1>1 DEF Pops
<1>4. /\ Partition(Held(stack), n, Orphans)
      /\ \A i \in 1..n : /\ stack[i].fn # "nothing"
                         /\ stack[i].fn = "parse" => stack[i].node = Root
                         /\ HoldsApart(stack[i], LiveAt(stack, i))
                         /\ Hangs(stack, i, nodes)
      /\ \A i \in 1..n - 1 : Awaits(stack, i)
  BY DEF OwnerInv, CallsOwn
<1>5. /\ \A i \in 2..n - 1 : i + 1 \in 1..n /\ (i + 1) - 1 = i /\ i \in 1..n /\ i # 1
      /\ \A i \in 1..n - 1 : i = 1 \/ i \in 2..n - 1
      /\ 1 \in 1..n - 1 /\ 2 \in 1..n /\ 1 + 1 = 2 /\ 2 - 1 = 1
  BY <1>1, <1>2
<1>6. /\ Awaits(stack, 1) /\ into \in Registers
      /\ into \in owned <=> Top.fn \in Makers
      /\ into = "node" => caller.fn \notin Bodies \cup {"parse"}
      /\ caller.fn \in Bodies => caller.pc \notin {1, 2}
  BY <1>2, <1>4, <1>5 DEF Awaits, Top, FrameOK
<1>7. LiveAt(stack, 2) = owned \ {into}
  BY <1>5 DEF LiveAt, Top
<1>8. owned \subseteq Registers
  <2>1. FrameOK(caller, Ids) /\ caller.fn # "nothing"
    BY <1>1, <1>4, <1>5, TopTyped DEF OwnerInv
  <2>2. OwnsRight(caller.fn, caller.pc)
    BY <2>1, ProgramsOwnRight DEF FrameOK
  <2> QED BY <2>2 DEF OwnsRight, OwnedBy
<1> HIDE DEF n, t, caller, into
<1>9. /\ LiveAt(t, 1) = owned
      /\ \A i \in 2..n - 1 : LiveAt(t, i) = LiveAt(stack, i + 1)
  <2>1. LiveAt(t, 1) = owned
    BY <1>1, <1>3 DEF LiveAt, OwnedBy, caller
  <2>2. ASSUME NEW i \in 2..n - 1 PROVE LiveAt(t, i) = LiveAt(stack, i + 1)
    <3>1. i # 1 /\ i + 1 # 1 /\ t[i] = stack[i + 1] /\ (i + 1) - 1 = i
      BY <1>3, <1>5
    <3>2. t[i - 1].into = stack[i].into
      <4>1. CASE i = 2
        BY <1>1, <1>3, <1>5, <4>1 DEF caller
      <4>2. CASE i # 2
        <5>1. i - 1 \in 2..n - 1 /\ (i - 1) + 1 = i
          BY <1>2, <4>2
        <5> QED BY <1>3, <5>1
      <4> QED BY <4>1, <4>2
    <3> QED BY <3>1, <3>2 DEF LiveAt
  <2> QED BY <2>1, <2>2
<1>10. /\ HeldNow(Top) = IF into \in owned THEN {g[into]} ELSE {}
       /\ \A r \in owned : r # into => g[r] = caller[r]
  <2>1. \A r \in owned : r # into => g[r] = caller[r]
    BY <1>8 DEF caller, into
  <2>2. CASE Top.fn \in Makers
    <3>1. PICK reg : OwnedBy(Top) = {reg} /\ g[into] = Top[reg]
      BY <2>2 DEF into
    <3> QED BY <1>6, <2>1, <2>2, <3>1 DEF HeldNow
  <2>3. CASE Top.fn \notin Makers
    BY <1>6, <2>1, <2>3 DEF HeldNow
  <2> QED BY <2>2, <2>3
<1> DEFINE h == Held(stack)
           k == Held(t)
<1>11. h[1] = HeldNow(Top) /\ h[2] = {caller[r] : r \in owned \ {into}}
  BY <1>2, <1>5, <1>7 DEF Held, n, caller
<1>12. Partition(k, n - 1, Orphans) /\ HoldsApart(g, owned)
  <2>1. k[1] = {g[r] : r \in owned}
    BY <1>3, <1>5, <1>9 DEF Held
  <2>2. \A i \in 2..n - 1 : k[i] = h[i + 1]
    <3> TAKE i \in 2..n - 1
    <3>1. k[i] = {t[i][r] : r \in LiveAt(t, i)}
      BY <1>3, <1>5 DEF Held
    <3>2. h[i + 1] = {stack[i + 1][r] : r \in LiveAt(stack, i + 1)}
      BY <1>5 DEF Held, n
    <3> QED BY <1>3, <1>9, <3>1, <3>2
  <2>3. Partition(h, n, Orphans) /\ HoldsApart(caller, owned \ {into})
    BY <1>4, <1>5, <1>7 DEF caller
  <2> HIDE DEF h, k, owned
  <2>4. k[1] = h[1] \cup h[2]
    BY <1>10, <1>11, <2>1
  <2>5. h[1] \cap h[2] = {}
    BY <1>5, <2>3, <1>2 DEF Partition
  <2>6. HoldsApart(g, owned)
    <3> SUFFICES ASSUME NEW r \in owned, NEW q \in owned, g[r] = g[q] PROVE r = q
      BY DEF HoldsApart
    <3>1. CASE r # into /\ q # into
      BY <1>10, <2>3, <3>1 DEF HoldsApart
    <3>2. CASE r = into /\ q # into
      <4>1. g[r] \in h[1] /\ g[q] \in h[2]
        BY <1>10, <1>11, <3>2
      <4> QED BY <2>5, <4>1
    <3>3. CASE r # into /\ q = into
      <4>1. g[q] \in h[1] /\ g[r] \in h[2]
        BY <1>10, <1>11, <3>3
      <4> QED BY <2>5, <4>1
    <3> QED BY <3>1, <3>2, <3>3
  <2>7. Partition(k, n - 1, Orphans)
    BY <1>1, <1>2, <2>2, <2>3, <2>4, PartitionPops
  <2> QED BY <2>6, <2>7
<1> HIDE DEF h
<1>13. ASSUME NEW i \in 1..n - 1
       PROVE  /\ t[i].fn # "nothing"
              /\ t[i].fn = "parse" => t[i].node = Root
              /\ HoldsApart(t[i], LiveAt(t, i))
  <2>1. CASE i = 1
    <3>1. caller.fn # "nothing" /\ (caller.fn = "parse" => caller.node = Root)
      BY <1>4, <1>5 DEF caller
    <3>2. into # "node" => g.node = caller.node
      BY DEF Registers, into, caller
    <3> QED BY <1>1, <1>3, <1>6, <1>9, <1>12, <2>1, <3>1, <3>2
  <2>2. CASE i \in 2..n - 1
    BY <1>3, <1>4, <1>5, <1>9, <2>2
  <2> QED BY <1>5, <2>1, <2>2
<1>14. ASSUME NEW i \in 1..n - 1 PROVE Hangs(t, i, nodes)
  <2>1. CASE i = 1
    <3> SUFFICES ASSUME caller.fn \in Bodies PROVE Hangs(t, 1, nodes)
      BY <1>1, <1>3, <2>1 DEF Hangs
    <3>1. g.node = caller.node /\ caller.pc \notin {1, 2}
      BY <1>6 DEF Registers, into, caller
    <3>2. Hangs(stack, 2, nodes)
      BY <1>4, <1>5
    <3>3. 2 + 1 = 3
      OBVIOUS
    <3>4. /\ 2 < n /\ "node" \in LiveAt(stack, 3)
          /\ caller.node \in DOMAIN nodes /\ nodes[caller.node].parent = stack[3].node
      BY <3>1, <3>2, <3>3 DEF Hangs, caller, n
    <3>5. 2 \in 2..n - 1 /\ 1 < n - 1
      BY <1>2, <3>4
    <3>6. t[2] = stack[3] /\ LiveAt(t, 2) = LiveAt(stack, 3)
      BY <1>3, <1>9, <3>3, <3>5
    <3> QED BY <1>1, <1>3, <1>5, <3>1, <3>4, <3>5, <3>6 DEF Hangs
  <2>2. CASE i \in 2..n - 1
    <3> SUFFICES ASSUME stack[i + 1].fn \in Bodies PROVE Hangs(t, i, nodes)
      BY <1>3, <2>2 DEF Hangs
    <3>1. Hangs(stack, i + 1, nodes) /\ t[i] = stack[i + 1]
      BY <1>3, <1>4, <1>5, <2>2
    <3>2. i + 1 < n
      BY <3>1 DEF Hangs, n
    <3>3. i < n - 1 /\ i + 1 \in 2..n - 1
      BY <1>2, <2>2, <3>2
    <3>4. t[i + 1] = stack[(i + 1) + 1] /\ LiveAt(t, i + 1) = LiveAt(stack, (i + 1) + 1)
      BY <1>3, <1>9, <3>3
    <3> QED BY <1>3, <3>1, <3>3, <3>4 DEF Hangs
  <2> QED BY <1>5, <2>1, <2>2
<1>15. ASSUME NEW i \in 1..(n - 1) - 1 PROVE Awaits(t, i)
  <2>1. i + 1 \in 1..n - 1 /\ Awaits(stack, i + 1) /\ t[i + 1] = stack[(i + 1) + 1]
    <3>1. i + 1 \in 1..n - 1 /\ i + 1 \in 2..n - 1
      BY <1>2
    <3> QED BY <1>3, <1>4, <3>1
  <2>2. t[i].into = stack[i + 1].into /\ t[i].fn = stack[i + 1].fn
    <3>1. i = 1 \/ i \in 2..n - 1
      BY <1>2
    <3> QED BY <1>1, <1>3, <1>5, <3>1 DEF caller
  <2> QED BY <2>1, <2>2 DEF Awaits
<1> QED BY <1>3, <1>12, <1>13, <1>14, <1>15 DEF CallsOwn, t

-------------------------------------------------------------------------------
(* Each step keeps the owners and the trees                                  *)

Kept == CallsOwn(stack', nodes', Orphans') /\ IsTrees(nodes') /\ ParentsKept(nodes, nodes')

LEMMA RetainedLinks ==
    ASSUME LinksKept(nodes, nodes'), IsTrees(nodes)
    PROVE  Orphans' = Orphans /\ IsTrees(nodes') /\ ParentsKept(nodes, nodes')
<1>1. PICK kids, top, depth : AreTrees(nodes, kids, top, depth)
  BY DEF IsTrees
<1>2. AreTrees(nodes', kids, top, depth)
  BY <1>1, TreesKept
<1>3. Orphans' = Orphans /\ ParentsKept(nodes, nodes')
  BY DEF Orphans, LinksKept, ParentsKept
<1> QED BY <1>2, <1>3 DEF IsTrees

\* The table says what the running call holds after its instruction.
LEMMA GoneOwns ==
    ASSUME OwnerInv, NEW g, Goes(g)
    PROVE  OwnedBy(g) = After(Instr, OwnedBy(Top))
<1>1. OwnsRight(Top.fn, Top.pc)
  BY TopOwns DEF Goes
<1> QED BY <1>1 DEF OwnsRight, OwnedBy, Goes, Instr

\* A step that leaves the running call with the same nodes, whatever the locals.
LEMMA SameHeld ==
    ASSUME OwnerInv, NEW g, Goes(g), LinksKept(nodes, nodes'),
           HoldsApart(g, OwnedBy(g)), HeldNow(g) = HeldNow(Top),
           Instr.op \notin {"add", "append"},
           Top.fn \in Bodies \cup {"parse"} => g.node = Top.node
    PROVE  Kept
<1>1. status = "running" /\ g.fn = Top.fn /\ g.pc \in Successors(Instr, Top.pc)
  BY DEF Goes
<1>2. Orphans' = Orphans /\ IsTrees(nodes') /\ ParentsKept(nodes, nodes')
  BY RetainedLinks DEF OwnerInv
<1>3. HeldNow(Top) \subseteq Orphans /\ (Top.fn = "parse" => Top.node = Root)
  BY <1>1, TopOwns DEF HeldNow
<1>4. g.fn \in Bodies =>
         /\ g.pc \notin {1, 2}
         /\ g.node \in DOMAIN nodes' /\ nodes'[g.node].parent = stack[2].node
  BY <1>1, BodiesGoOn DEF LinksKept
<1>5. CallsOwn(stack', nodes', Orphans')
  BY <1>1, <1>2, <1>3, <1>4, OwnersGo
<1> QED BY <1>2, <1>5 DEF Kept

LEMMA AdvanceKeeps ==
    ASSUME OwnerInv, NEW g, Advances(g)
    PROVE  Kept
<1>1. Goes(g) /\ LocalsKept(g) /\ Instr.op \in Plain /\ LinksKept(nodes, nodes')
  BY DEF Advances, Retained
<1>2. OwnedBy(g) = OwnedBy(Top)
  <2>1. After(Instr, OwnedBy(Top)) = OwnedBy(Top)
    BY <1>1 DEF After, Plain
  <2> QED BY <1>1, <2>1, GoneOwns
<1>3. OwnedBy(Top) \subseteq Registers /\ HoldsApart(Top, OwnedBy(Top))
  BY <1>1, TopOwns DEF Goes
<1>4. HoldsApart(g, OwnedBy(g)) /\ HeldNow(g) = HeldNow(Top) /\ g.node = Top.node
  BY <1>1, <1>2, <1>3 DEF LocalsKept, HoldsApart, HeldNow, Registers
<1>5. Instr.op \notin {"add", "append"}
  BY <1>1 DEF Plain
<1> QED BY <1>1, <1>4, <1>5, SameHeld

\* A local that does not hold a node takes the one of another local.
LEMMA LocalMoves ==
    ASSUME OwnerInv, NEW g, Goes(g), NEW from, NEW to \in Registers,
           LinksKept(nodes, nodes'), Instr.op \notin {"add", "append"},
           LocalSet(g, to, Top[from]),
           from \in OwnedBy(Top), to \notin OwnedBy(Top), Top.fn \notin Bodies \cup {"parse"},
           OwnedBy(g) = (OwnedBy(Top) \ {from}) \cup {to}
    PROVE  Kept
<1>1. OwnedBy(Top) \subseteq Registers /\ HoldsApart(Top, OwnedBy(Top))
  BY TopOwns DEF Goes
<1>2. g[to] = Top[from] /\ \A r \in OwnedBy(Top) : g[r] = Top[r]
  BY <1>1 DEF LocalSet
<1>3. HeldNow(g) = HeldNow(Top)
  <2>1. ASSUME NEW r \in OwnedBy(g) PROVE g[r] \in HeldNow(Top)
    BY <1>2, <2>1 DEF HeldNow
  <2>2. ASSUME NEW r \in OwnedBy(Top) PROVE Top[r] \in HeldNow(g)
    <3>1. CASE r = from
      BY <1>2, <3>1 DEF HeldNow
    <3>2. CASE r # from
      BY <1>2, <3>2 DEF HeldNow
    <3> QED BY <3>1, <3>2
  <2> QED BY <2>1, <2>2 DEF HeldNow
<1>4. HoldsApart(g, OwnedBy(g))
  BY <1>1, <1>2 DEF HoldsApart
<1> QED BY <1>3, <1>4, SameHeld

LEMMA MoveKeeps ==
    ASSUME OwnerInv, NEW g, Moves(g)
    PROVE  Kept
<1>1. /\ Goes(g) /\ Instr.op = "move" /\ LocalSet(g, Instr.to, Top[Instr.from])
      /\ UNCHANGED nodes /\ status = "running"
  BY DEF Moves, Goes
<1>2. LinksKept(nodes, nodes')
  BY <1>1 DEF LinksKept
<1>3. OwnsRight(Top.fn, Top.pc) /\ IsInstruction(Top.fn, Top.pc)
  BY <1>1, TopOwns
<1>4. /\ Instr.from \in OwnedBy(Top) /\ Instr.to \notin OwnedBy(Top)
      /\ Instr.to \in Registers /\ Top.fn \notin Bodies \cup {"parse"}
  BY <1>1, <1>3 DEF OwnsRight, IsInstruction, OwnedBy, Instr
<1>5. OwnedBy(g) = (OwnedBy(Top) \ {Instr.from}) \cup {Instr.to}
  BY <1>1, GoneOwns DEF After
<1> QED BY <1>1, <1>2, <1>4, <1>5, LocalMoves

LEMMA NameKeeps ==
    ASSUME OwnerInv, NEW g, NamesMember(g)
    PROVE  Kept
<1>1. /\ Goes(g) /\ Instr.op = "member" /\ LocalSet(g, "node", Top["arg"])
      /\ LinksKept(nodes, nodes') /\ status = "running"
  BY DEF NamesMember, Goes, Retained
<1>2. OwnsRight(Top.fn, Top.pc)
  BY <1>1, TopOwns
<1>3. "arg" \in OwnedBy(Top) /\ "node" \notin OwnedBy(Top) /\ Top.fn \notin Bodies \cup {"parse"}
  BY <1>1, <1>2 DEF OwnsRight, OwnedBy, Instr
<1>4. OwnedBy(g) = (OwnedBy(Top) \ {"arg"}) \cup {"node"}
  BY <1>1, GoneOwns DEF After
<1>5. "node" \in Registers
  BY DEF Registers
<1> QED BY <1>1, <1>3, <1>4, <1>5, LocalMoves

\* In any account of the trees, a node without a parent is its own top, and the top of
\* the nodes right under it.
LEMMA TopsOf ==
    ASSUME NEW tree, NEW kids, NEW top, NEW depth, AreTrees(tree, kids, top, depth),
           NEW n \in DOMAIN tree, tree[n].parent = NodeNull
    PROVE  /\ top[n] = n
           /\ \A m \in DOMAIN tree : tree[m].parent = n => top[m] = n
<1>1. \A m \in DOMAIN tree : Placed(tree, m, kids, top, depth)
  BY DEF AreTrees
<1>2. n # NodeNull
  BY DEF AreTrees
<1> QED BY <1>1, <1>2 DEF Placed

LEMMA AppendJoins ==
    ASSUME NEW tree, AreNodes(tree), NEW parent \in DOMAIN tree, NEW child \in DOMAIN tree \ {Root},
           tree[child].parent = NodeNull,
           NEW kids, NEW top, NEW depth, AreTrees(tree, kids, top, depth), top[parent] # child
    PROVE  LET new == AppendChild(tree, parent, child)
           IN /\ IsTrees(new)
              /\ DOMAIN new = DOMAIN tree
              /\ \A n \in DOMAIN tree :
                    new[n].parent = IF n = child THEN parent ELSE tree[n].parent
<1> DEFINE new == AppendChild(tree, parent, child)
<1>1. DOMAIN new = DOMAIN tree /\ \A n \in DOMAIN tree : Appended(tree, parent, child, n, new[n])
  BY AppendChildFields
<1> HIDE DEF new
<1>2. Joined(new, kids, parent, child)
  BY <1>1, TreesJoined
<1>3. IsTrees(new)
  BY <1>2 DEF Joined, IsTrees
<1> QED BY <1>1, <1>3 DEF new, Appended

LEMMA AddKeeps ==
    ASSUME OwnerInv, NEW g, NEW node, Adds(g, node)
    PROVE  Kept
<1>1. /\ Goes(g) /\ Instr.op = "add" /\ LocalSet(g, Instr.into, node_count) /\ status = "running"
      /\ nodes' = AddNode(nodes, node_count, node)
      /\ node.parent = NodeNull /\ node.next_sibling = NodeNull
      /\ node.first_child = NodeNull /\ node.last_child = NodeNull
  BY DEF Adds, Goes
<1>2. node.type \in NodeTypes /\ DOMAIN node = NodeFields /\ HasRoom /\ node_count' = node_count + 1
  BY <1>1, TopOwns DEF Adds, IsInstruction, Instr
<1>3. /\ node_count \notin DOMAIN nodes /\ DOMAIN nodes' = DOMAIN nodes \cup {node_count}
      /\ \A n \in DOMAIN nodes : nodes'[n] = nodes[n]
      /\ nodes'[node_count] = node
  BY <1>1, <1>2, ArenaAdded DEF OwnerInv
<1>4. node_count # NodeNull /\ node_count # Root
  <2>1. node_count \in 1..NodeCapacity
    BY DEF OwnerInv, TypeInv, TypeOK
  <2> QED BY <2>1, CapacityAssumption DEF NodeNull, Root
<1>5. IsTrees(nodes')
  <2>1. PICK kids, top, depth : AreTrees(nodes, kids, top, depth)
    BY DEF OwnerInv, IsTrees
  <2>2. /\ nodes'[node_count].parent = NodeNull /\ nodes'[node_count].next_sibling = NodeNull
        /\ nodes'[node_count].first_child = NodeNull /\ nodes'[node_count].last_child = NodeNull
    BY <1>1, <1>3
  <2> QED BY <1>3, <1>4, <2>1, <2>2, TreeAdded DEF IsTrees
<1>6. Orphans' = Orphans \cup {node_count} /\ ParentsKept(nodes, nodes')
  BY <1>1, <1>3, <1>4 DEF Orphans, ParentsKept
<1>7. /\ OwnsRight(Top.fn, Top.pc) /\ OwnedBy(Top) \subseteq Registers
      /\ HoldsApart(Top, OwnedBy(Top)) /\ Hangs(stack, 1, nodes)
      /\ \A r \in OwnedBy(Top) : Top[r] \in Orphans
      /\ IsInstruction(Top.fn, Top.pc)
  BY <1>1, TopOwns
<1>8. /\ Instr.into \in Registers /\ Instr.into \notin OwnedBy(Top) /\ Top.fn # "parse"
      /\ Top.fn \in Bodies => Top.pc = 1 /\ Instr.into = "node"
  BY <1>1, <1>7 DEF OwnsRight, IsInstruction, OwnedBy, Instr
<1>9. OwnedBy(g) = OwnedBy(Top) \cup {Instr.into}
  BY <1>1, GoneOwns DEF After
<1>10. g[Instr.into] = node_count /\ \A r \in OwnedBy(Top) : g[r] = Top[r] /\ g[r] # node_count
  <2>1. \A n \in Orphans : n # node_count
    BY <1>3 DEF Orphans
  <2> QED BY <1>1, <1>7, <1>8, <2>1 DEF LocalSet
<1>11. HeldNow(g) = HeldNow(Top) \cup {node_count}
  BY <1>9, <1>10 DEF HeldNow
<1>12. HoldsApart(g, OwnedBy(g))
  BY <1>7, <1>9, <1>10 DEF HoldsApart
<1>13. HeldNow(Top) \subseteq Orphans /\ node_count \notin Orphans
  BY <1>3, <1>7 DEF HeldNow, Orphans
<1>14. g.fn \in Bodies => g.pc = 2 /\ g.arg = stack[2].node
  <2> SUFFICES ASSUME g.fn \in Bodies PROVE g.pc = 2 /\ g.arg = stack[2].node
    OBVIOUS
  <2>1. g.fn = Top.fn /\ Top.pc = 1 /\ Instr.into = "node" /\ g.pc = Top.pc + 1
    BY <1>1, <1>8 DEF Goes, Successors
  <2>2. Top.arg = stack[1 + 1].node
    BY <1>7, <2>1 DEF Hangs, Top
  <2>3. g.arg = Top.arg
    BY <1>1, <2>1 DEF LocalSet, Registers
  <2> QED BY <2>1, <2>2, <2>3
<1>15. g.fn # "parse"
  BY <1>1, <1>8 DEF Goes
<1>16. CallsOwn(stack', nodes', Orphans')
  BY <1>1, <1>6, <1>11, <1>12, <1>13, <1>14, <1>15, OwnersGo
<1> QED BY <1>5, <1>6, <1>16 DEF Kept

LEMMA AddMemberKeeps ==
    ASSUME OwnerInv, NEW g, NEW node, AddsMember(g, node)
    PROVE  Kept
<1> DEFINE new == AddNode(nodes, node_count, node)
           arg == Top["arg"]
<1>1. /\ Goes(g) /\ Instr.op = "member" /\ LocalSet(g, "node", node_count) /\ status = "running"
      /\ nodes' = AppendChild(new, node_count, arg)
      /\ node.parent = NodeNull /\ node.next_sibling = NodeNull
      /\ node.first_child = NodeNull /\ node.last_child = NodeNull
  BY DEF AddsMember, Goes
<1>2. node.type \in NodeTypes /\ DOMAIN node = NodeFields /\ HasRoom /\ node_count' = node_count + 1
  BY DEF AddsMember, NodeTypes
<1>3. /\ node_count \notin DOMAIN nodes /\ DOMAIN new = DOMAIN nodes \cup {node_count}
      /\ \A n \in DOMAIN nodes : new[n] = nodes[n]
      /\ new[node_count] = node /\ AreNodes(new)
  BY <1>2, ArenaAdded DEF OwnerInv
<1>4. node_count # NodeNull /\ node_count # Root
  <2>1. node_count \in 1..NodeCapacity
    BY DEF OwnerInv, TypeInv, TypeOK
  <2> QED BY <2>1, CapacityAssumption DEF NodeNull, Root
<1>5. /\ OwnsRight(Top.fn, Top.pc) /\ OwnedBy(Top) \subseteq Registers
      /\ HoldsApart(Top, OwnedBy(Top))
      /\ \A r \in OwnedBy(Top) : Top[r] \in Orphans
  BY <1>1, TopOwns
<1>6. "arg" \in OwnedBy(Top) /\ "node" \notin OwnedBy(Top) /\ Top.fn \notin Bodies \cup {"parse"}
  BY <1>1, <1>5 DEF OwnsRight, OwnedBy, Instr
<1>7. OwnedBy(g) = (OwnedBy(Top) \ {"arg"}) \cup {"node"}
  BY <1>1, GoneOwns DEF After
<1>8. arg \in Orphans /\ arg \in DOMAIN nodes /\ arg # Root /\ nodes[arg].parent = NodeNull
  BY <1>5, <1>6 DEF Orphans
<1> HIDE DEF new, arg
<1>9. /\ IsTrees(nodes') /\ DOMAIN nodes' = DOMAIN nodes \cup {node_count}
      /\ \A n \in DOMAIN nodes : nodes'[n].parent = IF n = arg THEN node_count ELSE nodes[n].parent
      /\ nodes'[node_count].parent = NodeNull
  <2>1. PICK kids, top, depth : AreTrees(nodes, kids, top, depth)
    BY DEF OwnerInv, IsTrees
  <2>2. /\ new[node_count].parent = NodeNull /\ new[node_count].next_sibling = NodeNull
        /\ new[node_count].first_child = NodeNull /\ new[node_count].last_child = NodeNull
    BY <1>1, <1>3
  <2>3. PICK kids2, top2, depth2 : AreTrees(new, kids2, top2, depth2)
    BY <1>3, <1>4, <2>1, <2>2, TreeAdded
  <2>4. node_count \in DOMAIN new /\ arg \in DOMAIN new \ {Root} /\ new[arg].parent = NodeNull
        /\ arg # node_count
    BY <1>3, <1>8
  <2>5. top2[node_count] # arg
    BY <2>2, <2>3, <2>4, TopsOf
  <2>6. /\ IsTrees(nodes') /\ DOMAIN nodes' = DOMAIN new
        /\ \A n \in DOMAIN new : nodes'[n].parent = IF n = arg THEN node_count ELSE new[n].parent
    BY <1>1, <1>3, <2>3, <2>4, <2>5, AppendJoins
  <2> QED BY <1>3, <2>2, <2>4, <2>6
<1>10. Orphans' = (Orphans \ {arg}) \cup {node_count} /\ ParentsKept(nodes, nodes')
  <2>1. ParentsKept(nodes, nodes')
    BY <1>8, <1>9 DEF ParentsKept
  <2>2. Orphans' = (Orphans \ {arg}) \cup {node_count}
    <3>1. ASSUME NEW n PROVE n \in Orphans' <=> n \in (Orphans \ {arg}) \cup {node_count}
      <4>1. CASE n = node_count
        BY <1>4, <1>9, <4>1 DEF Orphans
      <4>2. CASE n # node_count /\ n \notin DOMAIN nodes
        BY <1>9, <4>2 DEF Orphans
      <4>3. CASE n # node_count /\ n \in DOMAIN nodes
        BY <1>4, <1>9, <4>3 DEF Orphans
      <4> QED BY <4>1, <4>2, <4>3
    <3> QED BY <3>1
  <2> QED BY <2>1, <2>2
<1>11. g["node"] = node_count /\ \A r \in OwnedBy(Top) \ {"arg"} : g[r] = Top[r] /\ g[r] # node_count
  <2>1. \A n \in Orphans : n # node_count
    BY <1>3 DEF Orphans
  <2>2. "node" \in Registers
    BY DEF Registers
  <2> QED BY <1>1, <1>5, <1>6, <2>1, <2>2 DEF LocalSet
<1>12. HeldNow(g) = (HeldNow(Top) \ {arg}) \cup {node_count}
  <2>1. HeldNow(Top) \ {arg} = {Top[r] : r \in OwnedBy(Top) \ {"arg"}}
    BY <1>5, <1>6 DEF HeldNow, HoldsApart, arg
  <2> QED BY <1>7, <1>11, <2>1 DEF HeldNow
<1>13. HoldsApart(g, OwnedBy(g))
  BY <1>5, <1>7, <1>11 DEF HoldsApart
<1>14. HeldNow(Top) \subseteq Orphans /\ node_count \notin Orphans /\ arg \in HeldNow(Top)
  BY <1>3, <1>5, <1>6 DEF HeldNow, Orphans, arg
<1>15. g.fn \notin Bodies \cup {"parse"}
  BY <1>1, <1>6 DEF Goes
<1>16. CallsOwn(stack', nodes', Orphans')
  <2>1. HeldNow(g) \cap (Orphans \ HeldNow(Top)) = {}
    BY <1>12, <1>14
  <2>2. Orphans' = (Orphans \ HeldNow(Top)) \cup HeldNow(g)
    BY <1>10, <1>12, <1>14
  <2> QED BY <1>1, <1>10, <1>13, <1>15, <2>1, <2>2, OwnersGo
<1> QED BY <1>9, <1>10, <1>16 DEF Kept

\* What an append finds: the child has no parent and nothing above the parent is the
\* child, so the assertions of nulang__append_child hold.
LEMMA AppendMeets ==
    ASSUME OwnerInv, status = "running", Instr.op = "append"
    PROVE  LET parent == Top[Instr.parent]
               child == Top[Instr.child]
           IN /\ Instr.child \in OwnedBy(Top)
              /\ parent \in DOMAIN nodes /\ child \in DOMAIN nodes \ {Root}
              /\ nodes[child].parent = NodeNull /\ child \in Orphans
              /\ \A kids, top, depth : AreTrees(nodes, kids, top, depth) => top[parent] # child
<1> DEFINE parent == Top[Instr.parent]
           child == Top[Instr.child]
<1>1. /\ OwnsRight(Top.fn, Top.pc) /\ OwnedBy(Top) \subseteq Registers
      /\ HoldsApart(Top, OwnedBy(Top)) /\ Hangs(stack, 1, nodes)
      /\ \A r \in OwnedBy(Top) : Top[r] \in Orphans
      /\ Top.fn = "parse" => Top.node = Root
      /\ Held(stack)[1] = HeldNow(Top) /\ Len(stack) \in Nat /\ 1 \in 1..Len(stack)
  BY TopOwns
<1>2. /\ Instr.child \in OwnedBy(Top) /\ Instr.parent # Instr.child
      /\ Instr.parent \in Parents(Top.fn, Top.pc)
      /\ Top.fn \in Bodies /\ Top.pc = 2 => Instr.child = "node"
      /\ Top.pc = 1 => Top.fn \notin Bodies
  BY <1>1 DEF OwnsRight, OwnedBy, Instr
<1>3. /\ child \in Orphans /\ child \in DOMAIN nodes \ {Root} /\ nodes[child].parent = NodeNull
      /\ child \in HeldNow(Top)
  BY <1>1, <1>2 DEF Orphans, HeldNow
<1>4. \A n \in Orphans : n \in DOMAIN nodes /\ nodes[n].parent = NodeNull
  BY DEF Orphans
<1>5. ASSUME Top.fn \in Bodies
      PROVE  stack[2].node \in Orphans /\ stack[2].node # child
  <2>1. 1 < Len(stack) /\ "node" \in LiveAt(stack, 2) /\ 1 + 1 = 2 /\ 2 \in 1..Len(stack)
    BY <1>1, <1>5 DEF Hangs, Top
  <2>2. stack[2].node \in Held(stack)[2]
    BY <2>1 DEF Held
  <2>3. Partition(Held(stack), Len(stack), Orphans)
    BY DEF OwnerInv, CallsOwn
  <2>4. Held(stack)[2] \subseteq Orphans /\ Held(stack)[1] \cap Held(stack)[2] = {}
    BY <1>1, <2>1, <2>3 DEF Partition
  <2> QED BY <1>1, <1>3, <2>2, <2>4
<1> HIDE DEF parent, child
<1>6. ASSUME parent \in Orphans \cup {Root}, parent # child
      PROVE  /\ parent \in DOMAIN nodes
             /\ \A kids, top, depth : AreTrees(nodes, kids, top, depth) => top[parent] # child
  <2>1. \A kids, top, depth : AreTrees(nodes, kids, top, depth) =>
           Root \in DOMAIN nodes /\ nodes[Root].parent = NodeNull
    BY DEF AreTrees
  <2>2. parent \in DOMAIN nodes /\ nodes[parent].parent = NodeNull
    BY <1>4, <1>6, <2>1 DEF OwnerInv, IsTrees
  <2> QED BY <1>6, <2>2, TopsOf
<1>7. /\ parent \in DOMAIN nodes
      /\ \A kids, top, depth : AreTrees(nodes, kids, top, depth) => top[parent] # child
  <2>1. CASE Top.fn \notin Bodies /\ Instr.parent \in OwnedBy(Top)
    <3>1. parent \in Orphans /\ parent # child
      BY <1>1, <1>2, <2>1 DEF parent, child, HoldsApart
    <3> QED BY <1>6, <3>1
  <2>2. CASE Top.fn = "parse" /\ Instr.parent = "node"
    <3>1. parent = Root /\ parent # child
      BY <1>1, <1>3, <2>2 DEF parent
    <3> QED BY <1>6, <3>1
  <2>3. CASE Top.fn \in Bodies /\ Top.pc = 2
    <3>1. Instr.parent = "arg"
      BY <1>2, <2>3 DEF Parents
    <3>2. Top.arg = stack[1 + 1].node
      BY <1>1, <2>3 DEF Hangs, Top
    <3>3. parent \in Orphans /\ parent # child
      BY <1>5, <2>3, <3>1, <3>2 DEF parent
    <3> QED BY <1>6, <3>3
  <2>4. CASE Top.fn \in Bodies /\ Top.pc # 2
    <3>1. Instr.parent = "node" /\ Top.pc \notin {1, 2}
      BY <1>2, <2>4 DEF Parents
    <3>2. parent \in DOMAIN nodes /\ nodes[parent].parent = stack[1 + 1].node
      BY <1>1, <2>4, <3>1 DEF Hangs, Top, parent
    <3>3. /\ stack[2].node \in DOMAIN nodes /\ nodes[stack[2].node].parent = NodeNull
          /\ stack[2].node # child /\ nodes[parent].parent = stack[2].node
      BY <1>4, <1>5, <2>4, <3>2
    <3> QED BY <3>2, <3>3, TopsOf
  <2> QED BY <1>2, <2>1, <2>2, <2>3, <2>4 DEF Parents, OwnedBy
<1> QED BY <1>2, <1>3, <1>7 DEF parent, child

\* The assertions themselves.
LEMMA AppendIsAllowed ==
    ASSUME OwnerInv, status = "running", Instr.op = "append"
    PROVE  /\ Unset \notin {Top[Instr.parent], Top[Instr.child]}
           /\ AppendAllowed(nodes, Top[Instr.parent], Top[Instr.child])
<1> DEFINE parent == Top[Instr.parent]
           child == Top[Instr.child]
<1>1. PICK kids, top, depth : AreTrees(nodes, kids, top, depth)
  BY DEF OwnerInv, IsTrees
<1>2. /\ parent \in DOMAIN nodes /\ child \in DOMAIN nodes \ {Root}
      /\ nodes[child].parent = NodeNull /\ top[parent] # child
  BY <1>1, AppendMeets
<1> HIDE DEF parent, child
<1>3. parent # Unset /\ child # Unset
  <2>1. DOMAIN nodes = 0..(node_count - 1) /\ node_count \in 1..NodeCapacity
    BY DEF OwnerInv, TypeInv, TypeOK
  <2>2. Unset \notin 0..(node_count - 1)
    BY <2>1, CapacityAssumption DEF Unset
  <2> QED BY <1>2, <2>1, <2>2
<1>4. parent # child
  BY <1>1, <1>2, TopsOf
<1>5. /\ \A n \in DOMAIN nodes : Placed(nodes, n, kids, top, depth)
      /\ NodeNull \notin DOMAIN nodes /\ Family(nodes, parent, kids[parent])
  BY <1>1, <1>2 DEF AreTrees
<1>6. nodes[parent].last_child \notin {child, parent}
  <2> SUFFICES ASSUME nodes[parent].last_child \in DOMAIN nodes
               PROVE  nodes[parent].last_child \notin {child, parent}
    BY <1>2
  <2> DEFINE last == nodes[parent].last_child
             m == Len(kids[parent])
  <2>1. last # NodeNull
    BY <1>5
  <2>2. m \in Nat /\ m # 0 /\ last = kids[parent][m] /\ m \in 1..m
    <3>1. m \in Nat
      BY <1>5, LenProperties DEF Family
    <3>2. m # 0 /\ last = kids[parent][m]
      BY <1>5, <2>1 DEF Family
    <3> HIDE DEF m
    <3> QED BY <3>1, <3>2
  <2>3. nodes[last].parent = parent
    BY <1>5, <2>2 DEF Family
  <2> HIDE DEF last
  <2>4. last # child
    BY <1>2, <1>5, <2>3
  <2>5. last # parent
    <3> SUFFICES ASSUME last = parent PROVE FALSE
      OBVIOUS
    <3>1. nodes[parent].parent = parent /\ parent # NodeNull
      BY <1>2, <1>5, <2>3
    <3>2. depth[parent] = depth[parent] + 1 /\ depth[parent] \in Nat
      BY <1>2, <1>5, <3>1 DEF Placed
    <3> QED BY <3>2
  <2> QED BY <2>4, <2>5 DEF last
<1> QED BY <1>2, <1>3, <1>4, <1>6 DEF AppendAllowed, parent, child

LEMMA AppendKeeps ==
    ASSUME OwnerInv, NEW g, Appends(g)
    PROVE  Kept
<1> DEFINE parent == Top[Instr.parent]
           child == Top[Instr.child]
<1>1. /\ Goes(g) /\ Instr.op = "append" /\ LocalsKept(g) /\ status = "running"
      /\ nodes' = AppendChild(nodes, parent, child)
  BY DEF Appends, Goes
<1>2. PICK kids, top, depth : AreTrees(nodes, kids, top, depth)
  BY DEF OwnerInv, IsTrees
<1>3. /\ parent \in DOMAIN nodes /\ child \in DOMAIN nodes \ {Root}
      /\ nodes[child].parent = NodeNull /\ top[parent] # child
      /\ Instr.child \in OwnedBy(Top) /\ child \in Orphans
  BY <1>1, <1>2, AppendMeets
<1>4. /\ OwnsRight(Top.fn, Top.pc) /\ OwnedBy(Top) \subseteq Registers
      /\ HoldsApart(Top, OwnedBy(Top)) /\ Hangs(stack, 1, nodes)
      /\ \A r \in OwnedBy(Top) : Top[r] \in Orphans
      /\ Top.fn = "parse" => Top.node = Root
  BY <1>1, TopOwns
<1>5. OwnedBy(g) = OwnedBy(Top) \ {Instr.child}
  BY <1>1, GoneOwns DEF After
<1>6. /\ HeldNow(Top) \subseteq Orphans /\ child \in HeldNow(Top)
      /\ HeldNow(g) = HeldNow(Top) \ {child}
      /\ HoldsApart(g, OwnedBy(g))
      /\ g.node = Top.node
  <2>1. HeldNow(Top) \subseteq Orphans /\ child \in HeldNow(Top)
    BY <1>3, <1>4 DEF HeldNow
  <2>2. \A r \in OwnedBy(Top) : g[r] = Top[r]
    BY <1>1, <1>4 DEF LocalsKept
  <2>3. HeldNow(g) = {Top[r] : r \in OwnedBy(Top) \ {Instr.child}}
    BY <1>5, <2>2 DEF HeldNow
  <2>4. HeldNow(g) = HeldNow(Top) \ {child}
    BY <1>3, <1>4, <2>3 DEF HeldNow, HoldsApart
  <2>5. HoldsApart(g, OwnedBy(g))
    BY <1>4, <1>5, <2>2 DEF HoldsApart
  <2> QED BY <1>1, <2>1, <2>4, <2>5 DEF LocalsKept, Registers
<1>7. Top.fn \in Bodies /\ Top.pc = 2 => child = Top.node /\ parent = stack[2].node
  <2> SUFFICES ASSUME Top.fn \in Bodies, Top.pc = 2 PROVE child = Top.node /\ parent = stack[2].node
    OBVIOUS
  <2>1. Instr.child = "node" /\ Instr.parent \in Parents(Top.fn, Top.pc)
    BY <1>1, <1>4 DEF OwnsRight, Instr
  <2>2. Instr.parent = "arg"
    BY <2>1 DEF Parents
  <2>3. Top.arg = stack[1 + 1].node
    BY <1>4 DEF Hangs, Top
  <2> QED BY <2>1, <2>2, <2>3
<1>8. Top.fn \in Bodies /\ Top.pc # 2 =>
         /\ Top.pc > 2 /\ Top.node \in DOMAIN nodes /\ nodes[Top.node].parent = stack[2].node
         /\ stack[2].node \in DOMAIN nodes
  <2> SUFFICES ASSUME Top.fn \in Bodies, Top.pc # 2
               PROVE  /\ Top.pc > 2 /\ Top.node \in DOMAIN nodes
                      /\ nodes[Top.node].parent = stack[2].node
                      /\ stack[2].node \in DOMAIN nodes
    OBVIOUS
  <2>1. Top.pc # 1
    BY <1>1, <1>4 DEF OwnsRight, Instr
  <2>2. Top.pc \in Nat \ {0}
    BY <1>1, TopTyped DEF OwnerInv
  <2>3. Top.pc > 2
    BY <2>1, <2>2
  <2>4. Instr.parent = "node"
    BY <1>1, <1>4 DEF OwnsRight, Instr, Parents
  <2>5. nodes[Top.node].parent = stack[1 + 1].node /\ Top.node \in DOMAIN nodes
        /\ 1 < Len(stack) /\ "node" \in LiveAt(stack, 1 + 1)
    BY <1>4, <2>1 DEF Hangs, Top
  <2>6. stack[2].node \in DOMAIN nodes
    <3>1. Len(stack) \in Nat /\ 1 + 1 = 2
      BY <1>1, TopOwns
    <3>2. 2 \in 1..Len(stack) /\ "node" \in LiveAt(stack, 2)
      BY <2>5, <3>1
    <3>3. stack[2].node \in Held(stack)[2]
      BY <3>2 DEF Held
    <3> QED BY <3>2, <3>3 DEF OwnerInv, CallsOwn, Partition, Orphans
  <2> QED BY <2>3, <2>5, <2>6
<1> HIDE DEF parent, child
<1>9. /\ IsTrees(nodes') /\ DOMAIN nodes' = DOMAIN nodes
      /\ \A n \in DOMAIN nodes : nodes'[n].parent = IF n = child THEN parent ELSE nodes[n].parent
  BY <1>1, <1>2, <1>3, AppendJoins DEF OwnerInv, TypeInv
<1>10. parent # NodeNull /\ NodeNull \notin DOMAIN nodes
  BY <1>2, <1>3 DEF AreTrees
<1>11. ParentsKept(nodes, nodes') /\ Orphans' = Orphans \ {child}
  <2>1. ParentsKept(nodes, nodes')
    BY <1>3, <1>9 DEF ParentsKept
  <2>2. Orphans' = Orphans \ {child}
    BY <1>9, <1>10 DEF Orphans
  <2> QED BY <2>1, <2>2
<1>12. g.fn = Top.fn /\ g.pc = Top.pc + 1 /\ g.pc \in Successors(Instr, Top.pc)
  BY <1>1 DEF Goes, Successors
<1>13. g.fn \in Bodies =>
         /\ g.pc \notin {1, 2}
         /\ g.node \in DOMAIN nodes' /\ nodes'[g.node].parent = stack[2].node
  <2>1. CASE Top.pc = 2
    <3>1. g.pc \notin {1, 2}
      BY <1>12, <2>1
    <3> QED BY <1>3, <1>6, <1>7, <1>9, <1>12, <2>1, <3>1
  <2>2. CASE Top.pc # 2
    <3> SUFFICES ASSUME Top.fn \in Bodies
                 PROVE  /\ g.pc \notin {1, 2}
                        /\ g.node \in DOMAIN nodes' /\ nodes'[g.node].parent = stack[2].node
      BY <1>12
    <3>1. g.pc \notin {1, 2}
      BY <1>4, <1>8, <1>12, <2>2 DEF OwnsRight, Instr
    <3>2. Top.node # child
      BY <1>3, <1>8, <1>10, <2>2
    <3> QED BY <1>6, <1>8, <1>9, <2>2, <3>1, <3>2
  <2> QED BY <2>1, <2>2
<1>14. CallsOwn(stack', nodes', Orphans')
  <2>1. HeldNow(g) \cap (Orphans \ HeldNow(Top)) = {}
    BY <1>6
  <2>2. Orphans' = (Orphans \ HeldNow(Top)) \cup HeldNow(g)
    BY <1>6, <1>11
  <2>3. g.fn = "parse" => g.node = Root
    BY <1>4, <1>6, <1>12
  <2> QED BY <1>1, <1>6, <1>11, <1>13, <2>1, <2>2, <2>3, OwnersGo
<1> QED BY <1>9, <1>11, <1>14 DEF Kept

\* What a call finds: the callee, and what its caller has afterwards.
LEMMA CallMeets ==
    ASSUME OwnerInv, NEW g, NEW callee, NEW arg, NEW into, NEW min,
           Enters(g, callee, arg, into, min)
    PROVE  /\ callee \in DOMAIN Program \ {"parse"}
           /\ Instr.op = "switch" => callee \in Targets(Instr) /\ callee \in Makers
           /\ CallsRight(Top.fn, OwnedBy(Top), callee, arg, into)
           /\ OwnedBy(g) = (OwnedBy(Top) \ Passed(callee, arg)) \cup Made(callee, into)
<1>1. /\ status = "running" /\ UNCHANGED nodes
      /\ g.fn = Top.fn /\ g.pc = Top.pc + 1
      /\ \/ Instr.op = "call" /\ callee = Instr.fn /\ arg = Instr.arg /\ into = Instr.into
         \/ /\ Instr.op = "switch" /\ arg = "arg" /\ into = "ret"
            /\ callee = IF look.type \in DOMAIN Instr.targets THEN Instr.targets[look.type]
                        ELSE Instr.default
  BY DEF Enters
<1>2. OwnsRight(Top.fn, Top.pc) /\ IsInstruction(Top.fn, Top.pc)
  BY <1>1, TopOwns
<1>3. OwnedBy(g) = After(Instr, OwnedBy(Top))
  <2>1. Top.pc + 1 \in Successors(Instr, Top.pc)
    BY <1>1 DEF Successors
  <2> QED BY <1>1, <1>2, <2>1 DEF OwnsRight, OwnedBy, Instr
<1>4. /\ callee \in DOMAIN Program \ {"parse"}
      /\ Instr.op = "switch" => callee \in Targets(Instr) /\ callee \in Makers
      /\ CallsRight(Top.fn, OwnedBy(Top), callee, arg, into)
      /\ OwnedBy(g) = (OwnedBy(Top) \ Passed(callee, arg)) \cup Made(callee, into)
  <2>1. CASE Instr.op = "call"
    BY <1>1, <1>2, <1>3, <2>1 DEF OwnsRight, IsInstruction, OwnedBy, Instr, After
  <2>2. CASE Instr.op = "switch"
    <3>1. callee \in Targets(Instr)
      BY <1>1, <2>2 DEF OwnerInv, Targets
    <3>2. /\ CallsRight(Top.fn, OwnedBy(Top), callee, "arg", "ret") /\ callee \in Makers
          /\ Passed(callee, "arg") = Passed(Instr.default, "arg")
      BY <1>2, <2>2, <3>1 DEF OwnsRight, OwnedBy, Instr, Targets
    <3>3. callee \in DOMAIN Program \ {"parse"}
      BY <3>2 DEF Makers
    <3>4. After(Instr, OwnedBy(Top)) = (OwnedBy(Top) \ Passed(Instr.default, "arg")) \cup {"ret"}
      BY <2>2 DEF After
    <3> QED BY <1>1, <1>3, <2>2, <3>1, <3>2, <3>3, <3>4 DEF Made
  <2> QED BY <1>1, <2>1, <2>2
<1> QED BY <1>4

LEMMA CallKeeps ==
    ASSUME OwnerInv, NEW g, NEW callee, NEW arg, NEW into, NEW min,
           Enters(g, callee, arg, into, min)
    PROVE  Kept
<1>1. CallsOwn(stack', nodes, Orphans)
  BY CallMeets, OwnersPush
<1>2. Orphans' = Orphans /\ ParentsKept(nodes, nodes') /\ nodes' = nodes
  BY DEF Orphans, ParentsKept, Enters
<1> QED BY <1>1, <1>2 DEF Kept, OwnerInv

\* What a return finds, and what the caller has afterwards.
LEMMA ReturnMeets ==
    ASSUME OwnerInv, NEW g, ReturnsNode(g) \/ ReturnsVartype(g)
    PROVE  /\ Returns(g) /\ UNCHANGED nodes
           /\ \A r \in Registers : r # Top.into => g[r] = stack[2][r]
           /\ Top.fn \notin Makers => OwnedBy(Top) = {}
           /\ Top.fn \in Makers =>
                 Instr.op = "return" /\ OwnedBy(Top) = {Instr.reg} /\ g[Top.into] = Top[Instr.reg]
<1>1. Returns(g) /\ status = "running" /\ UNCHANGED nodes
  BY DEF ReturnsNode, ReturnsVartype, Returns
<1>2. /\ OwnsRight(Top.fn, Top.pc) /\ IsInstruction(Top.fn, Top.pc)
      /\ \A r \in OwnedBy(Top) : Top[r] \in Orphans
  BY <1>1, TopOwns
<1>3. Top.into \in Registers
  BY <1>1, TopTyped DEF OwnerInv, FrameOK
<1>4. /\ \A r \in Registers : r # Top.into => g[r] = stack[2][r]
      /\ Top.fn \notin Makers => OwnedBy(Top) = {}
      /\ Top.fn \in Makers =>
            Instr.op = "return" /\ OwnedBy(Top) = {Instr.reg} /\ g[Top.into] = Top[Instr.reg]
  <2>1. CASE ReturnsNode(g)
    <3>1. OwnedBy(Top) = Made(Top.fn, Instr.reg)
      BY <1>2, <2>1 DEF ReturnsNode, OwnsRight, OwnedBy, Instr
    <3>2. PICK v \in IF Top[Instr.reg] # Unset THEN {Top[Instr.reg]}
                     ELSE {stack[2][Top.into], Unset} :
            \A r \in Registers : g[r] = IF r = Top.into THEN v ELSE stack[2][r]
      BY <2>1 DEF ReturnsNode
    <3>3. Top.fn \in Makers => OwnedBy(Top) = {Instr.reg} /\ g[Top.into] = Top[Instr.reg]
      <4> SUFFICES ASSUME Top.fn \in Makers
                   PROVE  OwnedBy(Top) = {Instr.reg} /\ g[Top.into] = Top[Instr.reg]
        OBVIOUS
      <4>1. OwnedBy(Top) = {Instr.reg}
        BY <3>1 DEF Made
      <4>2. Top[Instr.reg] \in DOMAIN nodes
        BY <1>2, <4>1 DEF Orphans
      <4>3. Top[Instr.reg] # Unset
        <5>1. DOMAIN nodes = 0..(node_count - 1) /\ node_count \in 1..NodeCapacity
          BY DEF OwnerInv, TypeInv, TypeOK
        <5>2. Unset \notin 0..(node_count - 1)
          BY <5>1, CapacityAssumption DEF Unset
        <5> QED BY <4>2, <5>1, <5>2
      <4> QED BY <1>3, <3>2, <4>1, <4>3
    <3>4. Top.fn \notin Makers => OwnedBy(Top) = {}
      BY <3>1 DEF Made
    <3> QED BY <2>1, <3>2, <3>3, <3>4 DEF ReturnsNode
  <2>2. CASE ReturnsVartype(g)
    <3>1. Top.fn = "vartype" /\ OwnedBy(Top) = {}
      BY <1>2, <2>2 DEF ReturnsVartype, OwnsRight, IsInstruction, OwnedBy, Instr
    <3>2. Top.fn \notin Makers
      BY <3>1 DEF Makers
    <3> QED BY <2>2, <3>1, <3>2 DEF ReturnsVartype
  <2> QED BY <2>1, <2>2
<1> QED BY <1>1, <1>4

LEMMA ReturnKeeps ==
    ASSUME OwnerInv, NEW g, ReturnsNode(g) \/ ReturnsVartype(g)
    PROVE  Kept
<1>1. CallsOwn(stack', nodes, Orphans)
  BY ReturnMeets, OwnersPop
<1>2. Orphans' = Orphans /\ ParentsKept(nodes, nodes') /\ nodes' = nodes
  BY ReturnMeets DEF Orphans, ParentsKept
<1> QED BY <1>1, <1>2 DEF Kept, OwnerInv

\* When nulang__parse returns, no node is left without a parent.
LEMMA EndKeeps ==
    ASSUME OwnerInv, Ends
    PROVE  Kept
<1>1. /\ status = "running" /\ Instr.op = "return" /\ Len(stack) = 1
      /\ stack' = <<>> /\ UNCHANGED nodes
  BY DEF Ends, At
<1>2. OwnsRight(Top.fn, Top.pc) /\ Held(stack)[1] = HeldNow(Top)
  BY <1>1, TopOwns
<1>3. Top.fn = "parse"
  BY <1>1, TopTyped DEF OwnerInv
<1>4. OwnedBy(Top) = {}
  BY <1>1, <1>2, <1>3 DEF OwnsRight, OwnedBy, Instr, Made, Makers
<1>5. Orphans = {}
  <2>1. Held(stack)[1] = {}
    BY <1>2, <1>4 DEF HeldNow
  <2>2. \A i \in 1..1 : i = 1
    OBVIOUS
  <2>3. \A n \in Orphans : \E i \in 1..1 : n \in Held(stack)[i]
    BY <1>1 DEF OwnerInv, CallsOwn, Partition
  <2> QED BY <2>1, <2>2, <2>3
<1>6. Orphans' = Orphans /\ ParentsKept(nodes, nodes') /\ nodes' = nodes
  BY <1>1 DEF Orphans, ParentsKept
<1>7. CallsOwn(stack', nodes', Orphans')
  <2>1. Len(stack') = 0 /\ 1..0 = {} /\ 1..0 - 1 = {}
    BY <1>1
  <2> QED BY <1>5, <1>6, <2>1 DEF CallsOwn, Partition
<1> QED BY <1>6, <1>7 DEF Kept, OwnerInv

LEMMA StepsKeep ==
    ASSUME OwnerInv, Does
    PROVE  Kept
<1>1. CASE Waits
  <2>1. Orphans' = Orphans /\ ParentsKept(nodes, nodes') /\ nodes' = nodes /\ stack' = stack
    BY <1>1 DEF Waits, Orphans, ParentsKept
  <2> QED BY <2>1 DEF Kept, OwnerInv
<1>2. CASE \E g : Advances(g) \/ Moves(g) \/ NamesMember(g) \/ Appends(g)
  BY <1>2, AdvanceKeeps, MoveKeeps, NameKeeps, AppendKeeps
<1>3. CASE \E g : ReturnsNode(g) \/ ReturnsVartype(g)
  BY <1>3, ReturnKeeps
<1>4. CASE \E g, node : Adds(g, node) \/ AddsMember(g, node)
  BY <1>4, AddKeeps, AddMemberKeeps
<1>5. CASE \E g, callee, arg, into, min : Enters(g, callee, arg, into, min)
  BY <1>5, CallKeeps
<1> QED BY <1>1, <1>2, <1>3, <1>4, <1>5, EndKeeps DEF Does

\* The tokens of a source are those of its vocabulary.
LEMMA TokensFinished ==
    ASSUME StatementsAreFinished, OwnerInv, ParserStep
    PROVE  vocabulary' \in Vocabularies /\ look'.type \notin Unfinished
<1>1. CASE Lex
  <2>1. vocabulary' = vocabulary
    BY <1>1 DEF Lex
  <2>2. PICK t \in NextTokens : look' = [type |-> t.type, name |-> t.name, at |-> Len(consumed) + 1]
    BY <1>1 DEF Lex
  <2>3. t.type \notin Unfinished
    <3>1. Eof.type \notin Unfinished
      BY DEF Eof, Unfinished
    <3>2. t \in vocabulary.tokens \cup {Eof}
      BY <2>2 DEF NextTokens
    <3>3. \A tok \in vocabulary.tokens : tok.type \notin Unfinished
      BY DEF StatementsAreFinished, OwnerInv
    <3> QED BY <3>1, <3>2, <3>3
  <2> QED BY <2>1, <2>2, <2>3 DEF OwnerInv
<1>2. CASE UNCHANGED vocabulary /\ (UNCHANGED look \/ look' = NoToken)
  <2>1. NoToken.type \notin Unfinished
    BY DEF NoToken, Unfinished
  <2>2. vocabulary \in Vocabularies /\ look.type \notin Unfinished
    BY DEF OwnerInv
  <2>3. CASE UNCHANGED look
    BY <1>2, <2>2, <2>3
  <2>4. CASE look' = NoToken
    BY <1>2, <2>1, <2>2, <2>4
  <2> QED BY <1>2, <2>3, <2>4
<1>3. CASE \/ LexerError \/ ExpectToken \/ UnexpectedToken \/ ConsumeToken \/ ExpectUncheckedToken
           \/ Control \/ Build
  <2>1. UNCHANGED vocabulary /\ (UNCHANGED look \/ look' = NoToken)
    BY <1>3 DEF LexerError, ExpectToken, UnexpectedToken, ConsumeToken, ExpectUncheckedToken,
         TakeToken, Consumes, KeepTokens, Control, Build, TestToken, SkipBack, SetLocal,
         CallFunction, SwitchToken, FailParse, ReturnToCaller, ReturnVartypeToCaller,
         ReturnFromParse, OutOfNode, AddNode_, MemberNode, MemberOfPrimitive, UnknownMember,
         AppendNode, AppendFails, StoreType
  <2> QED BY <1>2, <2>1
<1> QED BY <1>1, <1>3 DEF ParserStep, Tokenise

LEMMA NoAppendFails ==
    ASSUME OwnerInv, ParserStep
    PROVE  NoFailedAssertion'
<1>1. ~AppendFails
  <2> SUFFICES ASSUME AppendFails PROVE FALSE
    OBVIOUS
  <2>1. status = "running" /\ Instr.op = "append"
    BY DEF AppendFails, At
  <2> QED BY <2>1, AppendIsAllowed DEF AppendFails
<1>2. status' \in {"running", "failed", "done"}
  BY <1>1, StatusSteps DEF OwnerInv, ParserStep, Tokenise, Control, Build, Lex, LexerError, ReadsToken,
         ExpectToken, UnexpectedToken, ConsumeToken, ExpectUncheckedToken, TakeToken, TestToken,
         SkipBack, SetLocal, CallFunction, SwitchToken, FailParse, ReturnToCaller,
         ReturnVartypeToCaller, ReturnFromParse, OutOfNode, AddNode_, MemberNode,
         MemberOfPrimitive, UnknownMember, AppendNode, StoreType, Error, KeepStatus
<1> QED BY <1>2 DEF NoFailedAssertion

LEMMA OwnerStep ==
    ASSUME StatementsAreFinished, OwnerInv, ParserStep
    PROVE  OwnerInv' /\ ParentsKept(nodes, nodes')
<1>1. TypeInv' /\ Does
  BY TypeStep, StepsDo DEF OwnerInv
<1>2. Kept
  BY <1>1, StepsKeep
<1> QED BY <1>1, <1>2, TokensFinished, NoAppendFails DEF OwnerInv, Kept

LEMMA OwnerStart ==
    ASSUME StatementsAreFinished, StartParse
    PROVE  OwnerInv
<1> DEFINE f == Frame("parse", Root, Unset, 0, "node")
<1>1. TypeInv
  BY TypeStart
<1>2. /\ stack = <<f>> /\ look = NoToken /\ nodes = ClearedNodes
      /\ status = "running" /\ vocabulary \in Vocabularies
  BY DEF StartParse
<1>3. look.type \notin Unfinished
  <2>1. NoToken.type \notin Unfinished
    BY DEF NoToken, Unfinished
  <2> QED BY <1>2, <2>1
<1>4. /\ DOMAIN nodes = {Root} /\ nodes[Root].parent = NodeNull
      /\ nodes[Root].first_child = NodeNull /\ nodes[Root].last_child = NodeNull
      /\ nodes[Root].next_sibling = NodeNull
  <2>1. DOMAIN ClearedNodes = {Root} /\ ClearedNodes[Root] = NewNode("MODULE", "", "", 0)
    BY DEF ClearedNodes
  <2>2. \E value, vartype, span : ClearedNodes[Root] = NewNode("MODULE", value, vartype, span)
    BY <2>1
  <2>3. /\ ClearedNodes[Root].parent = NodeNull
        /\ ClearedNodes[Root].first_child = NodeNull /\ ClearedNodes[Root].last_child = NodeNull
        /\ ClearedNodes[Root].next_sibling = NodeNull
    BY <2>2, NewNodeFields
  <2> QED BY <1>2, <2>1, <2>3
<1>5. f.fn = "parse" /\ f.pc = 1 /\ f.node = Root
  BY DEF Frame
<1>6. Len(stack) = 1 /\ stack[1] = f
  <2> HIDE DEF f
  <2> QED BY <1>2, StackOf
<1> HIDE DEF f
<1>7. Orphans = {}
  BY <1>4 DEF Orphans
<1>8. OwnedBy(f) = {}
  <2>1. "parse" \in DOMAIN Program
    BY DEF Program
  <2>2. Owned["parse"][1] = Passed("parse", "arg")
    BY <2>1, ProgramsOwnRight
  <2> QED BY <1>5, <2>2 DEF OwnedBy, Passed, Receivers
<1>9. CallsOwn(stack, nodes, Orphans)
  <2>1. LiveAt(stack, 1) = {}
    BY <1>6, <1>8 DEF LiveAt
  <2>2. \A i \in 1..Len(stack) : i = 1
    BY <1>6
  <2>3. Held(stack)[1] = {}
    BY <1>6, <2>1 DEF Held
  <2>4. Partition(Held(stack), Len(stack), Orphans)
    BY <1>7, <2>2, <2>3 DEF Partition
  <2>5. "parse" \notin Bodies /\ "parse" # "nothing"
    BY DEF Bodies
  <2>6. \A i \in 1..Len(stack) - 1 : FALSE
    BY <1>6
  <2> QED BY <1>5, <1>6, <2>1, <2>2, <2>4, <2>5, <2>6 DEF CallsOwn, HoldsApart, Hangs
<1>10. IsTrees(nodes)
  <2> DEFINE kids == [n \in {Root} |-> <<>>]
             top == [n \in {Root} |-> Root]
             depth == [n \in {Root} |-> 0]
  <2>1. NodeNull \notin DOMAIN nodes
    BY <1>4 DEF NodeNull, Root
  <2>2. kids[Root] = <<>> /\ top[Root] = Root /\ depth[Root] = 0
    OBVIOUS
  <2>3. Len(<<>>) = 0 /\ <<>> \in Seq(DOMAIN nodes) /\ \A i \in 1..0 : FALSE
    OBVIOUS
  <2> HIDE DEF kids, top, depth
  <2>4. Family(nodes, Root, kids[Root])
    BY <1>4, <2>2, <2>3 DEF Family, Distinct
  <2>5. Placed(nodes, Root, kids, top, depth)
    BY <1>4, <2>2 DEF Placed
  <2> QED BY <1>4, <2>1, <2>4, <2>5 DEF IsTrees, AreTrees
<1>11. NoFailedAssertion
  BY <1>2 DEF NoFailedAssertion
<1> QED BY <1>1, <1>2, <1>3, <1>9, <1>10, <1>11 DEF OwnerInv

LEMMA OwnerStutters ==
    ASSUME OwnerInv, UNCHANGED parserVars
    PROVE  OwnerInv'
<1>1. /\ UNCHANGED <<vocabulary, stack, look, nodes, status>> /\ TypeInv'
  BY TypeStutters DEF parserVars, OwnerInv
<1> QED BY <1>1 DEF OwnerInv, NoFailedAssertion, CallsOwn, Orphans, IsTrees

LEMMA ArenaIsFinite ==
    ASSUME OwnerInv
    PROVE  IsFiniteSet(DOMAIN nodes)
<1>1. DOMAIN nodes = 0..(node_count - 1) /\ node_count \in 1..NodeCapacity
  BY DEF OwnerInv, TypeInv, TypeOK
<1>2. 0 \in Int /\ node_count - 1 \in Int
  BY <1>1, CapacityAssumption
<1> QED BY <1>1, <1>2, FS_Interval

\* The claims of NodesHaveOneOwner are those of the partition.
LEMMA OwnersClaim ==
    ASSUME OwnerInv
    PROVE  NodesHaveOneOwner
<1> DEFINE claims == UNION {{i} \X Live(i) : i \in DOMAIN stack}
           H(c) == stack[c[1]][c[2]]
<1>1. DOMAIN stack = 1..Len(stack) /\ Len(stack) \in Nat
  BY DEF OwnerInv, TypeInv, IsStack
<1>2. \A i \in DOMAIN stack : Live(i) = LiveAt(stack, i)
  BY <1>1 DEF Live, LiveAt, OwnedBy
<1>3. /\ \A i \in DOMAIN stack : Held(stack)[i] = {stack[i][r] : r \in Live(i)}
      /\ \A i \in DOMAIN stack : HoldsApart(stack[i], Live(i))
      /\ Partition(Held(stack), Len(stack), Orphans)
  BY <1>1, <1>2 DEF OwnerInv, CallsOwn, Held
<1>4. \A c \in claims : c[1] \in DOMAIN stack /\ c[2] \in Live(c[1]) /\ c = <<c[1], c[2]>>
  OBVIOUS
<1>5. \A i \in DOMAIN stack : \A r \in Live(i) : <<i, r>> \in claims
  OBVIOUS
<1> HIDE DEF claims
<1>6. \A c \in claims : H(c) \in Held(stack)[c[1]] /\ c[1] \in 1..Len(stack)
  BY <1>1, <1>3, <1>4
<1>7. {H(c) : c \in claims} = Orphans
  <2>1. \A c \in claims : H(c) \in Orphans
    BY <1>3, <1>6 DEF Partition
  <2>2. ASSUME NEW n \in Orphans PROVE \E c \in claims : H(c) = n
    <3>1. PICK i \in DOMAIN stack : n \in Held(stack)[i]
      BY <1>1, <1>3 DEF Partition
    <3>2. PICK r \in Live(i) : n = stack[i][r]
      BY <1>3, <3>1
    <3>3. <<i, r>> \in claims /\ H(<<i, r>>) = n
      BY <1>5, <3>2
    <3> QED BY <3>3
  <2> QED BY <2>1, <2>2
<1>8. ASSUME NEW c \in claims, NEW d \in claims, H(c) = H(d) PROVE c = d
  <2>1. c[1] = d[1]
    BY <1>3, <1>6, <1>8 DEF Partition
  <2>2. c[2] = d[2]
    BY <1>3, <1>4, <1>8, <2>1 DEF HoldsApart
  <2> QED BY <1>4, <2>1, <2>2
<1> QED BY <1>7, <1>8 DEF NodesHaveOneOwner, claims

\* A tree of which no node is left over is the tree of the module.
LEMMA WholeTree ==
    ASSUME OwnerInv, status = "done"
    PROVE  Subtree(nodes, Root) = DOMAIN nodes
<1>1. Len(stack) = 0
  BY DEF OwnerInv, TypeInv
<1>2. Orphans = {}
  <2>1. \A i \in 1..Len(stack) : FALSE
    BY <1>1
  <2> QED BY <2>1 DEF OwnerInv, CallsOwn, Partition
<1>3. PICK kids, top, depth : AreTrees(nodes, kids, top, depth)
  BY DEF OwnerInv, IsTrees
<1>4. IsFiniteSet(DOMAIN nodes)
  BY ArenaIsFinite
<1>5. ASSUME NEW n \in DOMAIN nodes PROVE Root \in Ancestors(nodes, n)
  <2>1. /\ top[n] \in Ancestors(nodes, n)
        /\ top[n] \in DOMAIN nodes /\ nodes[top[n]].parent = NodeNull
    BY <1>3, <1>4, ClimbsToTop
  <2>2. top[n] = Root
    BY <1>2, <2>1 DEF Orphans
  <2> QED BY <2>1, <2>2
<1> QED BY <1>5 DEF Subtree

\* A module of the text in which no statement stops half way is parsed with every node
\* in the hands of one call: OwnerInv holds in all its states.
LEMMA OwnersKept ==
    ASSUME StatementsAreFinished
    PROVE  Spec => []OwnerInv
<1>1. StartParse => OwnerInv
  BY OwnerStart
<1>2. OwnerInv /\ [ParserStep]_parserVars => OwnerInv'
  BY OwnerStep, OwnerStutters
<1> QED BY <1>1, <1>2, PTL DEF Spec

\* No parse function drops a node, appends one twice or returns one that another call
\* has appended: at every instant the nodes without a parent are held by the running
\* calls, each in one local of one call (parser.h:283-913).
THEOREM OneOwner ==
    ASSUME StatementsAreFinished
    PROVE  Spec => []NodesHaveOneOwner
<1>1. OwnerInv => NodesHaveOneOwner
  BY OwnersClaim
<1> QED BY <1>1, OwnersKept, PTL

\* Neither assertion of nulang__append_child fails and no id is used before it is
\* assigned, for every such text and every size of the arena (ast.h:236-241).
THEOREM AssertionsHold ==
    ASSUME StatementsAreFinished
    PROVE  Spec => []NoFailedAssertion
<1>1. OwnerInv => NoFailedAssertion
  BY DEF OwnerInv
<1> QED BY <1>1, OwnersKept, PTL

\* At every instant the links of the arena tell one forest: the children reached from
\* a node are those that name it, each once, and no node is its own ancestor
\* (ast.h:230-262).
THEOREM WellFormed ==
    ASSUME StatementsAreFinished
    PROVE  Spec => []TreeWellFormed
<1>1. OwnerInv => TreeWellFormed
  <2> SUFFICES ASSUME OwnerInv PROVE TreeWellFormed
    OBVIOUS
  <2>1. PICK kids, top, depth : AreTrees(nodes, kids, top, depth)
    BY DEF OwnerInv, IsTrees
  <2> QED BY <2>1, ArenaIsFinite, TreesAreForest DEF TreeWellFormed
<1> QED BY <1>1, OwnersKept, PTL

\* A node that has a parent keeps it and no node changes its type, whatever the parser
\* does next (parser.h:283-913).
THEOREM ParentsStay ==
    ASSUME StatementsAreFinished
    PROVE  Spec => NeverReparented
<1> DEFINE Stays == \A n \in DOMAIN nodes :
                        /\ nodes'[n].type = nodes[n].type
                        /\ nodes[n].parent # NodeNull => nodes'[n].parent = nodes[n].parent
<1>1. OwnerInv /\ [ParserStep]_parserVars => [Stays]_parserVars
  <2> SUFFICES ASSUME OwnerInv, ParserStep PROVE Stays
    OBVIOUS
  <2>1. ParentsKept(nodes, nodes')
    BY OwnerStep
  <2>2. \A n \in DOMAIN nodes : nodes'[n].type = nodes[n].type
    <3>1. TypeInv /\ status = "running" /\ Does
      BY StatusSteps, StepsDo DEF OwnerInv
    <3> QED BY <3>1, ArenaSteps DEF ArenaTyped
  <2> QED BY <2>1, <2>2 DEF ParentsKept
<1> QED BY <1>1, OwnersKept, PTL DEF Spec, NeverReparented

-------------------------------------------------------------------------------
(* Shapes. What the children of a node are, while it is built and after.     *)

\* n and the types of its children are the same in both trees.
SameKids(tree, new, n) ==
    LET kids == Children(tree, n) IN
    /\ new[n].type = tree[n].type
    /\ Children(new, n) = kids
    /\ Len(kids) \in Nat /\ DOMAIN kids = 1..Len(kids)
    /\ \A i \in 1..Len(kids) : new[kids[i]].type = tree[kids[i]].type

\* A node with the same children has the same shape.
LEMMA ShapeKept ==
    ASSUME NEW tree, NEW new, NEW n, SameKids(tree, new, n), HasShape(tree, n)
    PROVE  HasShape(new, n)
<1> DEFINE kids == Children(tree, n)
           type == tree[n].type
<1>1. /\ new[n].type = type /\ Children(new, n) = kids
      /\ Len(kids) \in Nat /\ DOMAIN kids = 1..Len(kids)
      /\ \A i \in 1..Len(kids) : new[kids[i]].type = tree[kids[i]].type
  BY DEF SameKids
<1>2. HasShape(tree, n)
  OBVIOUS
<1> HIDE DEF kids
<1>3. CASE type \in {"MODULE", "COMPOUND"}
  BY <1>1, <1>2, <1>3 DEF HasShape, kids
<1>4. CASE type \in {"VARDECL", "RETURN", "UNOP"}
  BY <1>1, <1>2, <1>4 DEF HasShape, kids
<1>5. CASE type = "BINOP"
  BY <1>1, <1>2, <1>5 DEF HasShape, kids
<1>6. CASE type = "ASSIGN"
  BY <1>1, <1>2, <1>6 DEF HasShape, kids
<1>7. CASE type = "WHILE"
  BY <1>1, <1>2, <1>7 DEF HasShape, kids
<1>8. CASE type = "IF"
  BY <1>1, <1>2, <1>8 DEF HasShape, kids
<1>9. CASE type = "FUNDECL"
  BY <1>1, <1>2, <1>9 DEF HasShape, kids
<1>10. CASE type = "CALL"
  BY <1>1, <1>2, <1>10 DEF HasShape, kids
<1>11. CASE type = "MEMBER"
  BY <1>1, <1>2, <1>11 DEF HasShape, kids
<1>12. CASE type \notin {"MODULE", "COMPOUND", "VARDECL", "RETURN", "UNOP", "BINOP", "ASSIGN",
                         "WHILE", "IF", "FUNDECL", "CALL", "MEMBER"}
  BY <1>1, <1>2, <1>12 DEF HasShape, kids
<1> QED BY <1>3, <1>4, <1>5, <1>6, <1>7, <1>8, <1>9, <1>10, <1>11, <1>12

\* ... and has come as far.
LEMMA KindKept ==
    ASSUME NEW tree, NEW new, NEW n, SameKids(tree, new, n), NEW kind, Is(tree, n, kind)
    PROVE  Is(new, n, kind)
<1>1. CASE kind.stage = Done
  BY <1>1, ShapeKept DEF Is, SameKids
<1>2. CASE kind.stage # Done
  BY <1>2 DEF Is, SameKids, Reaches
<1> QED BY <1>1, <1>2

\* The appended child takes its parent a stage further.
LEMMA KindGrows ==
    ASSUME NEW tree, NEW new, NEW parent, NEW child, NEW S,
           Children(tree, parent) \in Seq(S), child \in S,
           Children(new, parent) = Append(Children(tree, parent), child),
           \A n \in S \cup {parent} : new[n].type = tree[n].type,
           NEW stage \in Stages, Reaches(tree, parent, stage),
           NEW to \in Stages, Takes(tree[parent].type, stage, tree[child].type, to)
    PROVE  Reaches(new, parent, to)
<1> DEFINE old == Children(tree, parent)
           m == Len(old)
           s == Append(old, child)
<1>1. /\ old \in Seq(S) /\ m \in Nat /\ s \in Seq(S) /\ Len(s) = m + 1
      /\ \A i \in 1..m : s[i] = old[i] /\ old[i] \in S
      /\ s[m + 1] = child
  BY AppendProperties, LenProperties, ElementOfSeq
<1>2. PICK run \in [0..m -> Stages] :
        /\ run[0] = 0 /\ run[m] = stage
        /\ \A i \in 1..m : Takes(tree[parent].type, run[i - 1], tree[old[i]].type, run[i])
  BY DEF Reaches
<1> HIDE DEF old, m, s
<1> DEFINE run2 == [i \in 0..m + 1 |-> IF i = m + 1 THEN to ELSE run[i]]
<1>3. /\ run2 \in [0..m + 1 -> Stages]
      /\ run2[m + 1] = to /\ \A i \in 0..m : run2[i] = run[i]
  BY <1>1, <1>2
<1> HIDE DEF run2
<1>4. ASSUME NEW i \in 1..m + 1
      PROVE  Takes(new[parent].type, run2[i - 1], new[s[i]].type, run2[i])
  <2>1. CASE i = m + 1
    <3>1. i - 1 = m /\ m \in 0..m
      BY <1>1, <2>1
    <3>2. run2[i - 1] = stage /\ run2[i] = to /\ s[i] = child
      BY <1>1, <1>2, <1>3, <2>1, <3>1
    <3> QED BY <3>2
  <2>2. CASE i # m + 1
    <3>1. i \in 1..m /\ i \in 0..m /\ i - 1 \in 0..m
      BY <1>1, <2>2
    <3>2. run2[i - 1] = run[i - 1] /\ run2[i] = run[i] /\ s[i] = old[i] /\ old[i] \in S
      BY <1>1, <1>3, <3>1
    <3> QED BY <1>2, <3>1, <3>2
  <2> QED BY <2>1, <2>2
<1>5. run2[0] = 0 /\ 0 \in 0..m
  BY <1>1, <1>2, <1>3
<1>6. Children(new, parent) = s /\ Len(s) = m + 1
  BY <1>1 DEF s, old
<1> QED BY <1>3, <1>4, <1>5, <1>6 DEF Reaches

\* A node without children is at the first stage.
LEMMA KindStarts ==
    ASSUME NEW tree, NEW n, Children(tree, n) = <<>>
    PROVE  Reaches(tree, n, 0)
<1> DEFINE run == [i \in 0..0 |-> 0]
<1>1. Len(<<>>) = 0 /\ run \in [0..0 -> Stages] /\ run[0] = 0 /\ \A i \in 1..0 : FALSE
  BY DEF Stages
<1> HIDE DEF run
<1> QED BY <1>1 DEF Reaches

\* The children of a node of this type have brought it through these stages.
Runs(tree, n, kids, m, run) ==
    /\ m = Len(kids) /\ m \in Nat /\ DOMAIN kids = 1..m
    /\ run \in [0..m -> Stages] /\ run[0] = 0
    /\ \A i \in 1..m : Takes(tree[n].type, run[i - 1], tree[kids[i]].type, run[i])

\* Conditions and blocks alternate, up to the block of the else.
LEMMA BranchesAlternate ==
    ASSUME NEW tree, NEW n, NEW kids, NEW m, NEW run, Runs(tree, n, kids, m, run),
           tree[n].type = "IF"
    PROVE  \A i \in 0..m : i < m =>
              /\ i % 2 = 1 => run[i] = 1
              /\ i % 2 = 0 => run[i] \in {0, 2} /\ (run[i] = 0 => i = 0)
<1> DEFINE T == {i \in 0..m : i < m =>
                    /\ i % 2 = 1 => run[i] = 1
                    /\ i % 2 = 0 => run[i] \in {0, 2} /\ (run[i] = 0 => i = 0)}
<1>1. m \in Nat /\ run \in [0..m -> Stages] /\ run[0] = 0
  BY DEF Runs
<1>2. 0 \in T
  BY <1>1
<1>3. ASSUME NEW i \in 0..(m - 1), i \in T PROVE i + 1 \in T
  <2>1. i \in 0..m /\ i + 1 \in 0..m /\ i + 1 \in 1..m /\ (i + 1) - 1 = i /\ i < m
    BY <1>1
  <2>2. Takes("IF", run[i], tree[kids[i + 1]].type, run[i + 1])
    BY <2>1 DEF Runs
  <2>3. /\ run[i] = 0 => run[i + 1] = 1
        /\ run[i] = 1 => run[i + 1] = 2
        /\ run[i] = 2 => run[i + 1] \in {1, 3}
        /\ run[i + 1] # 0
    BY <2>2 DEF Takes
  <2>4. ASSUME i + 1 < m PROVE run[i + 1] # 3
    <3>1. i + 2 \in 1..m /\ (i + 2) - 1 = i + 1
      BY <1>1, <2>4
    <3>2. Takes("IF", run[i + 1], tree[kids[i + 2]].type, run[i + 2])
      BY <3>1 DEF Runs
    <3> QED BY <3>2 DEF Takes
  <2>5. (i + 1) % 2 = IF i % 2 = 1 THEN 0 ELSE 1
    BY <1>1
  <2>6. CASE i % 2 = 1
    BY <1>3, <2>1, <2>3, <2>4, <2>5, <2>6
  <2>7. CASE i % 2 # 1
    <3>1. i % 2 = 0
      BY <1>1, <2>7
    <3> QED BY <1>3, <2>1, <2>3, <2>4, <2>5, <3>1
  <2> QED BY <2>6, <2>7
<1>4. 0..m \subseteq T
  <2>1. 0 \in Int /\ m \in Int /\ (0 <= m => 0 \in T) /\ \A i \in 0..(m - 1) : i \in T => i + 1 \in T
    BY <1>1, <1>2, <1>3
  <2> HIDE DEF T
  <2> QED BY <2>1, IntervalInduction
<1> QED BY <1>4

\* A node whose children have brought it to a final stage has the shape of its type.
LEMMA FinalHasShape ==
    ASSUME NEW tree, NEW n, NEW m \in Nat, m = Len(Children(tree, n)),
           DOMAIN Children(tree, n) = 1..m,
           NEW stage \in Final(tree[n].type), Reaches(tree, n, stage)
    PROVE  HasShape(tree, n)
<1> DEFINE kids == Children(tree, n)
           type == tree[n].type
           K(i) == tree[kids[i]].type
<1>1. PICK run \in [0..m -> Stages] :
        /\ run[0] = 0 /\ run[m] = stage
        /\ \A i \in 1..m : Takes(type, run[i - 1], K(i), run[i])
  BY DEF Reaches
<1>2. DOMAIN kids = 1..m /\ Len(kids) = m /\ stage \in Final(type) /\ Runs(tree, n, kids, m, run)
  BY <1>1 DEF Runs
<1> HIDE DEF kids
<1>3. CASE type \in {"MODULE", "COMPOUND"}
  <2>1. \A i \in 1..m : K(i) \in Statements
    BY <1>1, <1>3 DEF Takes
  <2> QED BY <1>2, <1>3, <2>1 DEF HasShape, kids
<1>4. CASE type \in {"VARDECL", "RETURN", "UNOP"}
  <2>1. stage = 1
    BY <1>2, <1>4 DEF Final
  <2>2. m # 0 /\ m \in 1..m
    BY <1>1, <2>1
  <2>3. run[m - 1] = 0 /\ K(m) \in Expressions
    BY <1>1, <1>4, <2>2 DEF Takes
  <2>4. m - 1 = 0
    <3> SUFFICES ASSUME m - 1 # 0 PROVE FALSE
      OBVIOUS
    <3>1. m - 1 \in 1..m
      BY <2>2
    <3> QED BY <1>1, <1>4, <2>3, <3>1 DEF Takes
  <2>5. m = 1 /\ K(1) \in Expressions
    <3>1. m = 1
      BY <2>4
    <3> QED BY <2>3, <3>1
  <2> QED BY <1>2, <1>4, <2>5 DEF HasShape, kids
<1>5. CASE type \in {"BINOP", "ASSIGN", "WHILE"}
  <2>1. stage = 2
    BY <1>2, <1>5 DEF Final
  <2>2. m # 0 /\ m \in 1..m
    BY <1>1, <2>1
  <2>3. run[m - 1] = 1 /\ Takes(type, 1, K(m), 2)
    BY <1>1, <1>5, <2>1, <2>2 DEF Takes
  <2>4. m - 1 # 0 /\ m - 1 \in 1..m
    BY <1>1, <2>2, <2>3
  <2>5. run[(m - 1) - 1] = 0 /\ Takes(type, 0, K(m - 1), 1)
    BY <1>1, <1>5, <2>3, <2>4 DEF Takes
  <2>6. (m - 1) - 1 = 0
    <3> SUFFICES ASSUME (m - 1) - 1 # 0 PROVE FALSE
      OBVIOUS
    <3>1. (m - 1) - 1 \in 1..m
      BY <2>4
    <3> QED BY <1>1, <1>5, <2>5, <3>1 DEF Takes
  <2>7. m = 2 /\ Takes(type, 0, K(1), 1) /\ Takes(type, 1, K(2), 2)
    <3>1. m = 2 /\ m - 1 = 1
      BY <2>6
    <3> QED BY <2>3, <2>5, <3>1
  <2>8. CASE type = "BINOP"
    BY <1>2, <2>7, <2>8 DEF HasShape, kids, Takes
  <2>9. CASE type = "ASSIGN"
    BY <1>2, <2>7, <2>9 DEF HasShape, kids, Takes, Names
  <2>10. CASE type = "WHILE"
    BY <1>2, <2>7, <2>10 DEF HasShape, kids, Takes
  <2> QED BY <1>5, <2>8, <2>9, <2>10
<1>6. CASE type = "IF"
  <2>1. stage \in {2, 3}
    BY <1>2, <1>6 DEF Final
  <2>2. \A i \in 0..m : i < m =>
              /\ i % 2 = 1 => run[i] = 1
              /\ i % 2 = 0 => run[i] \in {0, 2} /\ (run[i] = 0 => i = 0)
    BY <1>2, <1>6, BranchesAlternate
  <2>3. m # 0 /\ m \in 1..m
    BY <1>1, <2>1
  <2>4. run[m - 1] \in {1, 2} /\ K(m) = "COMPOUND" /\ m - 1 \in 0..m
    BY <1>1, <1>6, <2>1, <2>3 DEF Takes
  <2>5. m >= 2
    BY <1>1, <2>3, <2>4
  <2>6. ASSUME NEW i \in 1..m, i < m
        PROVE  K(i) \in IF i % 2 = 1 THEN Expressions ELSE {"COMPOUND"}
    <3>1. Takes("IF", run[i - 1], K(i), run[i]) /\ i \in 0..m
      BY <1>1, <1>6, <2>6
    <3>2. CASE i % 2 = 1
      BY <2>2, <2>6, <3>1, <3>2 DEF Takes
    <3>3. CASE i % 2 # 1
      <4>1. i % 2 = 0
        BY <3>3
      <4>2. run[i] = 2
        BY <2>2, <2>6, <3>1, <4>1
      <4> QED BY <3>1, <3>3, <4>2 DEF Takes
    <3> QED BY <3>2, <3>3
  <2>7. \A i \in 1..m : K(i) \in IF i % 2 = 1 /\ i < m THEN Expressions ELSE {"COMPOUND"}
    <3> TAKE i \in 1..m
    <3>1. CASE i = m
      BY <2>4, <3>1
    <3>2. CASE i # m
      <4>1. i < m
        BY <3>2
      <4> QED BY <2>6, <4>1
    <3> QED BY <3>1, <3>2
  <2> QED BY <1>2, <1>6, <2>5, <2>7 DEF HasShape, kids
<1>7. CASE type = "FUNDECL"
  <2>1. stage = 1
    BY <1>2, <1>7 DEF Final
  <2>2. m # 0 /\ m \in 1..m
    BY <1>1, <2>1
  <2>3. K(m) = "COMPOUND"
    BY <1>1, <1>7, <2>1, <2>2 DEF Takes
  <2>4. ASSUME NEW i \in 1..m, i < m PROVE K(i) = "ARGDECL"
    <3>1. i + 1 \in 1..m /\ (i + 1) - 1 = i
      BY <2>4
    <3>2. run[i] = 0
      BY <1>1, <1>7, <3>1 DEF Takes
    <3> QED BY <1>1, <1>7, <3>2 DEF Takes
  <2>5. \A i \in 1..m : K(i) \in IF i < m THEN {"ARGDECL"} ELSE {"COMPOUND"}
    <3> TAKE i \in 1..m
    <3>1. CASE i = m
      BY <2>3, <3>1
    <3>2. CASE i # m
      <4>1. i < m
        BY <3>2
      <4> QED BY <2>4, <4>1
    <3> QED BY <3>1, <3>2
  <2>6. m >= 1
    BY <2>2
  <2> QED BY <1>2, <1>7, <2>5, <2>6 DEF HasShape, kids
<1>8. CASE type = "CALL"
  <2>1. stage = 1
    BY <1>2, <1>8 DEF Final
  <2>2. m # 0 /\ 1 \in 1..m /\ 1 - 1 = 0
    BY <1>1, <2>1
  <2>3. K(1) \in {"SYMREF", "MEMBER", "BUILTIN"}
    BY <1>1, <1>8, <2>2 DEF Takes, Callees, Names
  <2>4. ASSUME NEW i \in 2..m PROVE K(i) \in Expressions
    <3>1. i - 1 \in 1..m /\ i \in 1..m
      OBVIOUS
    <3>2. run[i - 1] = 1
      BY <1>1, <1>8, <3>1 DEF Takes
    <3> QED BY <1>1, <1>8, <3>1, <3>2 DEF Takes
  <2>5. m >= 1
    BY <2>2
  <2> QED BY <1>2, <1>8, <2>3, <2>4, <2>5 DEF HasShape, kids
<1>9. CASE type = "MEMBER"
  BY <1>2, <1>9 DEF Final
<1>10. CASE type \notin {"MODULE", "COMPOUND", "VARDECL", "RETURN", "UNOP", "BINOP", "ASSIGN",
                         "WHILE", "IF", "FUNDECL", "CALL", "MEMBER"}
  <2>1. m = 0
    <3> SUFFICES ASSUME m # 0 PROVE FALSE
      OBVIOUS
    <3>1. 1 \in 1..m
      OBVIOUS
    <3>2. Takes(type, run[1 - 1], K(1), run[1])
      BY <1>1, <3>1
    <3> QED BY <1>10, <3>2 DEF Takes
  <2> QED BY <1>2, <1>10, <2>1 DEF HasShape, kids
<1> QED BY <1>3, <1>4, <1>5, <1>6, <1>7, <1>8, <1>9, <1>10

\* The loop over the children of a node meets nodes of the arena.
AreFamilies(tree) ==
    \A n \in DOMAIN tree :
        LET kids == Children(tree, n)
        IN kids \in Seq(DOMAIN tree) /\ Len(kids) \in Nat /\ DOMAIN kids = 1..Len(kids)
           /\ \A i \in 1..Len(kids) : kids[i] \in DOMAIN tree

\* The children that are met are in the arena.
LEMMA TreesHaveFamilies ==
    ASSUME NEW tree, IsFiniteSet(DOMAIN tree), IsTrees(tree)
    PROVE  AreFamilies(tree)
<1>1. PICK kids, top, depth : AreTrees(tree, kids, top, depth)
  BY DEF IsTrees
<1>2. ASSUME NEW n \in DOMAIN tree
      PROVE  LET c == Children(tree, n)
             IN c \in Seq(DOMAIN tree) /\ Len(c) \in Nat /\ DOMAIN c = 1..Len(c)
                /\ \A i \in 1..Len(c) : c[i] \in DOMAIN tree
  <2>1. Children(tree, n) = kids[n]
    BY <1>1, ChildrenMet
  <2>2. kids[n] \in Seq(DOMAIN tree)
    BY <1>1 DEF AreTrees, Family
  <2>3. Len(kids[n]) \in Nat /\ DOMAIN kids[n] = 1..Len(kids[n])
    BY <2>2, LenProperties
  <2>4. \A i \in 1..Len(kids[n]) : kids[n][i] \in DOMAIN tree
    BY <2>2, ElementOfSeq
  <2> QED BY <2>1, <2>2, <2>3, <2>4
<1> QED BY <1>2 DEF AreFamilies

\* The other trees stay what they are ...
OthersSame(tree, new, but) == \A n \in DOMAIN tree \ but : SameKids(tree, new, n)

\* ... when the program only changes what a node says,
LEMMA SayingKeepsKids ==
    ASSUME NEW tree, NEW new, IsFiniteSet(DOMAIN tree), IsTrees(tree), LinksKept(tree, new),
           \A n \in DOMAIN tree : new[n].type = tree[n].type
    PROVE  OthersSame(tree, new, {})
<1>1. PICK kids, top, depth : AreTrees(tree, kids, top, depth)
  BY DEF IsTrees
<1>2. AreTrees(new, kids, top, depth) /\ DOMAIN new = DOMAIN tree
  BY <1>1, TreesKept DEF LinksKept
<1>3. AreFamilies(tree)
  BY TreesHaveFamilies
<1>4. ASSUME NEW n \in DOMAIN tree PROVE SameKids(tree, new, n)
  <2>1. Children(tree, n) = kids[n] /\ Children(new, n) = kids[n]
    BY <1>1, <1>2, ChildrenMet
  <2> QED BY <1>3, <2>1 DEF AreFamilies, SameKids
<1> QED BY <1>4 DEF OthersSame

\* ... when it adds a node,
LEMMA AddingKeepsKids ==
    ASSUME NEW tree, NEW new, IsFiniteSet(DOMAIN tree), IsTrees(tree),
           NEW id, id \notin DOMAIN tree, id # NodeNull,
           DOMAIN new = DOMAIN tree \cup {id},
           \A n \in DOMAIN tree : new[n] = tree[n],
           new[id].parent = NodeNull, new[id].next_sibling = NodeNull,
           new[id].first_child = NodeNull, new[id].last_child = NodeNull
    PROVE  /\ OthersSame(tree, new, {}) /\ Children(new, id) = <<>>
           /\ IsTrees(new) /\ IsFiniteSet(DOMAIN new)
<1>1. PICK kids, top, depth : AreTrees(tree, kids, top, depth)
  BY DEF IsTrees
<1> DEFINE kids2 == [n \in DOMAIN new |-> IF n = id THEN <<>> ELSE kids[n]]
           top2 == [n \in DOMAIN new |-> IF n = id THEN id ELSE top[n]]
           depth2 == [n \in DOMAIN new |-> IF n = id THEN 0 ELSE depth[n]]
<1>2. AreTrees(new, kids2, top2, depth2)
  BY <1>1, TreeAdded
<1>3. IsFiniteSet(DOMAIN new)
  BY FS_AddElement
<1>4. AreFamilies(tree)
  BY TreesHaveFamilies
<1>5. kids2[id] = <<>> /\ \A n \in DOMAIN tree : kids2[n] = kids[n]
  OBVIOUS
<1> HIDE DEF kids2, top2, depth2
<1>6. ASSUME NEW n \in DOMAIN tree PROVE SameKids(tree, new, n)
  <2>1. Children(tree, n) = kids[n] /\ Children(new, n) = kids2[n]
    BY <1>1, <1>2, <1>3, ChildrenMet
  <2> QED BY <1>4, <1>5, <2>1 DEF AreFamilies, SameKids
<1>7. Children(new, id) = <<>>
  <2>1. id \in DOMAIN new
    OBVIOUS
  <2> QED BY <1>2, <1>3, <1>5, <2>1, ChildrenMet
<1> QED BY <1>2, <1>3, <1>6, <1>7 DEF OthersSame, IsTrees

\* ... and, but for the parent, when it appends a child.
HasAppended(tree, new, parent, child) ==
    /\ OthersSame(tree, new, {parent})
    /\ Children(new, parent) = Append(Children(tree, parent), child)
    /\ DOMAIN new = DOMAIN tree
    /\ \A n \in DOMAIN tree : new[n].type = tree[n].type

LEMMA AppendingKeepsKids ==
    ASSUME NEW tree, AreNodes(tree), IsFiniteSet(DOMAIN tree),
           NEW parent \in DOMAIN tree, NEW child \in DOMAIN tree \ {Root},
           tree[child].parent = NodeNull,
           NEW kids, NEW top, NEW depth, AreTrees(tree, kids, top, depth), top[parent] # child
    PROVE  HasAppended(tree, AppendChild(tree, parent, child), parent, child)
<1> DEFINE new == AppendChild(tree, parent, child)
<1>1. DOMAIN new = DOMAIN tree /\ \A n \in DOMAIN tree : Appended(tree, parent, child, n, new[n])
  BY AppendChildFields
<1> HIDE DEF new
<1>2. Joined(new, kids, parent, child)
  BY <1>1, TreesJoined
<1>3. PICK kids2, top2, depth2 :
         /\ AreTrees(new, kids2, top2, depth2)
         /\ kids2[parent] = Append(kids[parent], child)
         /\ \A n \in DOMAIN new \ {parent} : kids2[n] = kids[n]
  BY <1>2 DEF Joined
<1>4. IsFiniteSet(DOMAIN new) /\ AreFamilies(tree)
  BY <1>1, TreesHaveFamilies DEF IsTrees
<1>5. \A n \in DOMAIN tree : new[n].type = tree[n].type
  BY <1>1 DEF Appended
<1>6. \A n \in DOMAIN tree : Children(tree, n) = kids[n] /\ Children(new, n) = kids2[n]
  BY <1>1, <1>3, <1>4, ChildrenMet
<1>7. ASSUME NEW n \in DOMAIN tree, n # parent PROVE SameKids(tree, new, n)
  BY <1>1, <1>4, <1>3, <1>5, <1>6, <1>7 DEF AreFamilies, SameKids
<1>8. Children(new, parent) = Append(Children(tree, parent), child)
  BY <1>3, <1>6
<1> QED BY <1>1, <1>5, <1>7, <1>8 DEF HasAppended, OthersSame, new

\* What a node has come to does not change when its children do not.
LEMMA OneKept ==
    ASSUME NEW tree, NEW new, NEW but, OthersSame(tree, new, but), NEW n \in DOMAIN tree \ but
    PROVE  /\ HasShape(tree, n) => HasShape(new, n)
           /\ \A kinds : IsOneOf(tree, n, kinds) => IsOneOf(new, n, kinds)
<1>1. SameKids(tree, new, n)
  BY DEF OthersSame
<1> QED BY <1>1, ShapeKept, KindKept DEF IsOneOf

\* A node that is whole has its shape; one that fits a set of kinds is of one of them.
LEMMA WholeHasShape ==
    ASSUME NEW tree, AreFamilies(tree), NEW n \in DOMAIN tree, NEW kind, Is(tree, n, kind), Whole(kind)
    PROVE  HasShape(tree, n) /\ tree[n].type = kind.type
<1>1. CASE kind.stage = Done
  BY <1>1 DEF Is
<1>2. CASE kind.stage # Done
  <2>1. kind.stage \in Final(tree[n].type) /\ Reaches(tree, n, kind.stage) /\ tree[n].type = kind.type
    BY <1>2 DEF Is, Whole
  <2> QED BY <2>1, FinalHasShape DEF AreFamilies
<1> QED BY <1>1, <1>2

\* A node with its shape is whole.
LEMMA WholeIs ==
    ASSUME NEW tree, NEW n, HasShape(tree, n)
    PROVE  Is(tree, n, Kind(tree[n].type, Done))
BY DEF Is, Kind

\* A node of a kind that fits a set of kinds is of one of them.
LEMMA FitIsOne ==
    ASSUME NEW tree, AreFamilies(tree), NEW n \in DOMAIN tree, NEW kind, Is(tree, n, kind),
           NEW kinds, Fits(kind, kinds)
    PROVE  IsOneOf(tree, n, kinds)
<1>1. CASE kind \in kinds
  BY <1>1 DEF IsOneOf
<1>2. CASE Whole(kind) /\ Kind(kind.type, Done) \in kinds
  <2>1. HasShape(tree, n) /\ tree[n].type = kind.type
    BY <1>2, WholeHasShape
  <2> QED BY <1>2, <2>1, WholeIs DEF IsOneOf
<1> QED BY <1>1, <1>2 DEF Fits

\* A parent that takes whatever the child may be is afterwards of a kind it grows to.
LEMMA ParentGrows ==
    ASSUME NEW tree, NEW new, AreFamilies(tree), NEW parent \in DOMAIN tree, NEW child \in DOMAIN tree,
           Children(new, parent) = Append(Children(tree, parent), child),
           \A n \in DOMAIN tree : new[n].type = tree[n].type,
           NEW kinds, IsOneOf(tree, parent, kinds),
           NEW types, tree[child].type \in types, TakeAll(kinds, types)
    PROVE  IsOneOf(new, parent, Grown(kinds, types))
<1>1. PICK kind \in kinds : Is(tree, parent, kind)
  BY DEF IsOneOf
<1>2. PICK to \in Stages : Takes(kind.type, kind.stage, tree[child].type, to)
  BY DEF TakeAll
<1>3. kind.stage # Done /\ kind.stage \in Stages
  BY <1>2 DEF Takes, Done, Stages
<1>4. tree[parent].type = kind.type /\ Reaches(tree, parent, kind.stage)
  BY <1>1, <1>3 DEF Is
<1>5. Reaches(new, parent, to)
  BY <1>2, <1>3, <1>4, KindGrows DEF AreFamilies
<1>6. Kind(kind.type, to) \in Grown(kinds, types)
  BY <1>2 DEF Grown
<1>7. Is(new, parent, Kind(kind.type, to))
  <2>1. to # Done
    BY DEF Stages, Done
  <2> QED BY <1>4, <1>5, <2>1 DEF Is, Kind
<1> QED BY <1>6, <1>7 DEF IsOneOf

\* The module and a block take statements without end.
LEMMA ListGrows ==
    ASSUME NEW tree, NEW new, AreFamilies(tree), NEW parent \in DOMAIN tree, NEW child \in DOMAIN tree,
           HasAppended(tree, new, parent, child),
           tree[parent].type \in {"MODULE", "COMPOUND"}, HasShape(tree, parent),
           tree[child].type \in Statements
    PROVE  HasShape(new, parent)
<1> DEFINE old == Children(tree, parent)
           m == Len(old)
           s == Append(old, child)
<1>1. /\ old \in Seq(DOMAIN tree) /\ m \in Nat /\ DOMAIN old = 1..m
      /\ \A i \in 1..m : old[i] \in DOMAIN tree
  BY DEF AreFamilies
<1>2. /\ Children(new, parent) = s /\ \A n \in DOMAIN tree : new[n].type = tree[n].type
  BY DEF HasAppended
<1>3. /\ DOMAIN s = 1..m + 1 /\ s[m + 1] = child /\ \A i \in 1..m : s[i] = old[i]
  BY <1>1, AppendProperties
<1>4. \A i \in 1..m : tree[old[i]].type \in Statements
  BY <1>1 DEF HasShape
<1> HIDE DEF old, m, s
<1>5. ASSUME NEW i \in 1..m + 1 PROVE new[s[i]].type \in Statements
  <2>1. CASE i = m + 1
    BY <1>2, <1>3, <2>1
  <2>2. CASE i # m + 1
    <3>1. i \in 1..m
      BY <1>1, <2>2
    <3> QED BY <1>1, <1>2, <1>3, <1>4, <3>1
  <2> QED BY <2>1, <2>2
<1>6. new[parent].type \in {"MODULE", "COMPOUND"}
  BY <1>2
<1> QED BY <1>2, <1>3, <1>5, <1>6 DEF HasShape

-------------------------------------------------------------------------------
(* What the calls in progress know of their nodes.                           *)

\* A block gets its parent in the second instruction of the body that makes it; until
\* then the node of its caller is as it was in front of the call.
Hanging(s, i) == i > 1 /\ s[i - 1].fn \in Bodies /\ s[i - 1].pc \in {1, 2}
Seen(s, i, class) == Kinds[s[i].fn][class][IF Hanging(s, i) THEN s[i].pc - 1 ELSE s[i].pc]

\* What the caller of a body holds when the block has its parent.
BodyFits(fn, class, pc) ==
    LET before == Kinds[fn][class][pc - 1]
        now == Kinds[fn][class][pc]
    IN /\ TakeAll(before["node"], {"COMPOUND"})
       /\ \A kind \in Grown(before["node"], {"COMPOUND"}) : Fits(kind, now["node"])
       /\ \A r \in Owned[fn][pc] \ {"node"} : \A kind \in before[r] : Fits(kind, now[r])

\* The i-th call was handed a node of class w[i].
CallHas(s, tree, w, i) ==
    /\ w[i] \in Classes(s[i].fn)
    /\ \A r \in LiveAt(s, i) : IsOneOf(tree, s[i][r], Seen(s, i, w[i])[r])
    /\ s[i].fn \in Bodies /\ s[i].pc \notin {1, 2} => tree[s[i].node].type = "COMPOUND"
\* The caller of the i-th call goes on with what that call returns.
CallGets(s, w, i) ==
    /\ s[i].fn \in Makers =>
          \A t \in Returned(s[i].fn, w[i]) :
              Kind(t, Done) \in Kinds[s[i + 1].fn][w[i + 1]][s[i + 1].pc][s[i].into]
    /\ s[i].fn \in Bodies => BodyFits(s[i + 1].fn, w[i + 1], s[i + 1].pc)
CallsShape(s, tree, w) ==
    /\ \A i \in 1..Len(s) : CallHas(s, tree, w, i)
    /\ \A i \in 1..Len(s) - 1 : CallGets(s, w, i)

\* Every node that has a parent has its shape; the others grow as the programs say.
TreeShape(tree, orphans) ==
    /\ tree[Root].type = "MODULE"
    /\ \A n \in DOMAIN tree \ orphans : HasShape(tree, n)

\* The inductive invariant.
ShapeInv ==
    /\ OwnerInv
    /\ TreeShape(nodes, Orphans)
    /\ \E w : CallsShape(stack, nodes, w)

Now(w) == Kinds[Top.fn][w[1]][Top.pc]

\* What the running call knows of its nodes.
LEMMA TopShows ==
    ASSUME OwnerInv, status = "running", NEW w, CallsShape(stack, nodes, w)
    PROVE  /\ w[1] \in Classes(Top.fn)
           /\ \A r \in OwnedBy(Top) : IsOneOf(nodes, Top[r], Now(w)[r])
           /\ Top.fn \in Bodies /\ Top.pc \notin {1, 2} => nodes[Top.node].type = "COMPOUND"
           /\ ShapesRight(Top.fn, w[1], Top.pc)
           /\ DOMAIN Now(w) = Registers
           /\ \A r \in Registers : \A kind \in Now(w)[r] : kind.stage \in Stages \cup {Done}
<1>1. /\ 1 \in 1..Len(stack) /\ Top.fn \in DOMAIN Program /\ Top.fn # "nothing"
      /\ Top.pc \in DOMAIN Program[Top.fn]
  BY TopOwns
<1>2. CallHas(stack, nodes, w, 1)
  BY <1>1 DEF CallsShape
<1>3. LiveAt(stack, 1) = OwnedBy(Top) /\ Seen(stack, 1, w[1]) = Now(w) /\ stack[1] = Top
  BY DEF LiveAt, Seen, Hanging, Now, Top
<1>4. w[1] \in Classes(Top.fn)
  BY <1>2, <1>3 DEF CallHas
<1>5. /\ DOMAIN Kinds[Top.fn][w[1]][Top.pc] = Registers
      /\ \A r \in Registers : \A kind \in Kinds[Top.fn][w[1]][Top.pc][r] : kind.stage \in Stages \cup {Done}
      /\ ShapesRight(Top.fn, w[1], Top.pc)
  BY <1>1, <1>4, ProgramsShapeRight
<1> QED BY <1>2, <1>3, <1>4, <1>5 DEF CallHas, Now

\* What the calls hold are different nodes of the arena.
LEMMA OthersHold ==
    ASSUME OwnerInv, status = "running"
    PROVE  \A i \in 2..Len(stack) : \A r \in LiveAt(stack, i) :
               stack[i][r] \in Orphans \ HeldNow(Top)
<1> SUFFICES ASSUME NEW i \in 2..Len(stack), NEW r \in LiveAt(stack, i)
             PROVE  stack[i][r] \in Orphans \ HeldNow(Top)
  OBVIOUS
<1>1. 1 \in 1..Len(stack) /\ Len(stack) \in Nat /\ Held(stack)[1] = HeldNow(Top)
  BY TopOwns
<1>2. i \in 1..Len(stack) /\ i # 1
  BY <1>1
<1>3. stack[i][r] \in Held(stack)[i]
  BY <1>2 DEF Held
<1>4. Partition(Held(stack), Len(stack), Orphans)
  BY DEF OwnerInv, CallsOwn
<1>5. Held(stack)[i] \subseteq Orphans /\ Held(stack)[1] \cap Held(stack)[i] = {}
  BY <1>1, <1>2, <1>4 DEF Partition
<1> QED BY <1>1, <1>3, <1>5

\* The running call goes on.
LEMMA ShapesGo ==
    ASSUME OwnerInv, NEW w, CallsShape(stack, nodes, w), NEW g, Goes(g),
           NEW but, OthersSame(nodes, nodes', but),
           \A i \in 3..Len(stack) : \A r \in LiveAt(stack, i) : stack[i][r] \notin but,
           \A n \in DOMAIN nodes : nodes'[n].type = nodes[n].type,
           \A r \in OwnedBy(g) : IsOneOf(nodes', g[r], Kinds[g.fn][w[1]][g.pc][r]),
           g.fn \in Bodies /\ g.pc \notin {1, 2} => nodes'[g.node].type = "COMPOUND",
           Len(stack) > 1 => \A r \in LiveAt(stack, 2) :
                                 IsOneOf(nodes', stack[2][r], Seen(stack', 2, w[2])[r])
    PROVE  CallsShape(stack', nodes', w)
<1> DEFINE n == Len(stack)
           t == stack'
<1>1. /\ status = "running" /\ Replaces(stack, t, g)
      /\ g.fn = Top.fn /\ g.into = Top.into
  BY DEF Goes
<1>2. n \in Nat \ {0} /\ 1 \in 1..n
  BY <1>1, TopOwns
<1>3. Len(t) = n /\ t[1] = g /\ \A i \in 2..n : t[i] = stack[i]
  BY <1>1 DEF Replaces
<1>4. /\ \A i \in 1..n : CallHas(stack, nodes, w, i)
      /\ \A i \in 1..n - 1 : CallGets(stack, w, i)
  BY DEF CallsShape
<1>5. \A i \in 1..n : t[i].fn = stack[i].fn /\ t[i].into = stack[i].into
  <2> TAKE i \in 1..n
  <2>1. i = 1 \/ i \in 2..n
    BY <1>2
  <2> QED BY <1>1, <1>3, <2>1 DEF Top
<1>6. LiveAt(t, 1) = OwnedBy(g) /\ \A i \in 2..n : LiveAt(t, i) = LiveAt(stack, i)
  <2>1. ASSUME NEW i \in 2..n PROVE LiveAt(t, i) = LiveAt(stack, i)
    <3>1. i # 1 /\ t[i] = stack[i] /\ i - 1 \in 1..n
      BY <1>2, <1>3
    <3> QED BY <1>5, <3>1 DEF LiveAt
  <2> QED BY <1>3, <2>1 DEF LiveAt
<1> HIDE DEF n, t
<1>7. \A i \in 3..n : Seen(t, i, w[i]) = Seen(stack, i, w[i])
  <2> TAKE i \in 3..n
  <2>1. i \in 2..n /\ i - 1 \in 2..n
    BY <1>2
  <2>2. t[i] = stack[i] /\ t[i - 1] = stack[i - 1]
    BY <1>3, <2>1
  <2> QED BY <2>2 DEF Seen, Hanging
<1>8. ASSUME NEW i \in 2..n
      PROVE  t[i].fn \in Bodies /\ t[i].pc \notin {1, 2} => nodes'[t[i].node].type = "COMPOUND"
  <2> SUFFICES ASSUME t[i].fn \in Bodies, t[i].pc \notin {1, 2}
               PROVE  nodes'[t[i].node].type = "COMPOUND"
    OBVIOUS
  <2>1. i \in 1..n /\ t[i] = stack[i]
    BY <1>2, <1>3
  <2>2. nodes[stack[i].node].type = "COMPOUND"
    BY <1>4, <2>1 DEF CallHas
  <2>3. Hangs(stack, i, nodes)
    BY <2>1 DEF OwnerInv, CallsOwn, n
  <2>4. stack[i].node \in DOMAIN nodes
    BY <2>1, <2>3 DEF Hangs
  <2> QED BY <2>1, <2>2, <2>4
<1>9. ASSUME NEW i \in 1..n PROVE CallHas(t, nodes', w, i)
  <2>0. w[i] \in Classes(t[i].fn)
    BY <1>4, <1>5 DEF CallHas
  <2>1. CASE i = 1
    <3>1. Seen(t, 1, w[1]) = Kinds[g.fn][w[1]][g.pc]
      BY <1>3 DEF Seen, Hanging
    <3> QED BY <1>3, <1>6, <2>0, <2>1, <3>1 DEF CallHas
  <2>2. CASE i = 2
    <3>1. n > 1 /\ 2 \in 2..n
      BY <1>2, <2>2
    <3>2. \A r \in LiveAt(t, 2) : IsOneOf(nodes', t[2][r], Seen(t, 2, w[2])[r])
      BY <1>3, <1>6, <3>1 DEF n, t
    <3> QED BY <1>8, <2>0, <2>2, <3>1, <3>2 DEF CallHas
  <2>3. CASE i \in 3..n
    <3>1. i \in 2..n /\ i \in 1..n
      BY <1>2, <2>3
    <3>2. ASSUME NEW r \in LiveAt(t, i) PROVE IsOneOf(nodes', t[i][r], Seen(t, i, w[i])[r])
      <4>1. r \in LiveAt(stack, i) /\ t[i] = stack[i]
        BY <1>3, <1>6, <3>1
      <4>2. IsOneOf(nodes, stack[i][r], Seen(stack, i, w[i])[r])
        BY <1>4, <3>1, <4>1 DEF CallHas
      <4>3. stack[i][r] \in DOMAIN nodes \ but
        BY <1>1, <2>3, <3>1, <4>1, OthersHold DEF n, Orphans
      <4> QED BY <1>7, <2>3, <4>1, <4>2, <4>3, OneKept
    <3> QED BY <1>8, <2>0, <3>1, <3>2 DEF CallHas
  <2>4. i = 1 \/ i = 2 \/ i \in 3..n
    BY <1>2
  <2> QED BY <2>1, <2>2, <2>3, <2>4
<1>10. ASSUME NEW i \in 1..n - 1 PROVE CallGets(t, w, i)
  <2>1. i \in 1..n /\ i + 1 \in 2..n /\ CallGets(stack, w, i)
    BY <1>2, <1>4
  <2>2. t[i + 1] = stack[i + 1] /\ t[i].fn = stack[i].fn /\ t[i].into = stack[i].into
    BY <1>3, <1>5, <2>1
  <2> QED BY <2>1, <2>2 DEF CallGets
<1>11. Len(t) = n
  BY <1>3
<1> QED BY <1>9, <1>10, <1>11 DEF CallsShape, t

-------------------------------------------------------------------------------
(* A call and a return keep what the calls know                              *)

\* The table has what a local holds on every way on.
LEMMA FitsOn ==
    ASSUME NEW fn, NEW class, NEW pc, ShapesRight(fn, class, pc),
           NEW next \in Successors(Program[fn][pc], pc), NEW r \in Owned[fn][next],
           NEW kind \in KindsAfter(Program[fn][pc], Kinds[fn][class][pc])[r]
    PROVE  Fits(kind, Kinds[fn][class][next][r])
BY DEF ShapesRight

\* Whatever its kind, a node that fits a set of kinds is of one of them.
LEMMA FitAreOne ==
    ASSUME NEW tree, AreFamilies(tree), NEW n \in DOMAIN tree, NEW kinds, IsOneOf(tree, n, kinds),
           NEW table, \A kind \in kinds : Fits(kind, table)
    PROVE  IsOneOf(tree, n, table)
<1>1. PICK kind \in kinds : Is(tree, n, kind)
  BY DEF IsOneOf
<1> QED BY <1>1, FitIsOne

\* A node that is whole whatever its kind.
LEMMA AllWhole ==
    ASSUME NEW tree, AreFamilies(tree), NEW n \in DOMAIN tree, NEW kinds, IsOneOf(tree, n, kinds),
           AreWhole(kinds)
    PROVE  HasShape(tree, n) /\ tree[n].type \in TypesOf(kinds)
<1>1. PICK kind \in kinds : Is(tree, n, kind)
  BY DEF IsOneOf
<1>2. Whole(kind)
  BY DEF AreWhole
<1>3. HasShape(tree, n) /\ tree[n].type = kind.type
  BY <1>1, <1>2, WholeHasShape
<1> QED BY <1>3 DEF TypesOf

\* A node with its shape is of one of the whole kinds.
LEMMA WholeIsOne ==
    ASSUME NEW tree, NEW n, HasShape(tree, n), NEW types, tree[n].type \in types
    PROVE  IsOneOf(tree, n, WholeOf(types))
<1>1. Kind(tree[n].type, Done) \in WholeOf(types)
  BY DEF WholeOf
<1> QED BY <1>1, WholeIs DEF IsOneOf

\* What the caller of a function has in front of it and behind it.
LEMMA CallShows ==
    ASSUME OwnerInv, NEW g, NEW callee, NEW arg, NEW into, NEW min,
           Enters(g, callee, arg, into, min), NEW w, CallsShape(stack, nodes, w)
    PROVE  LET class == ClassFor(callee, Now(w)[arg])
               after == KindsAfter(Instr, Now(w))
           IN /\ PassesRight(callee, arg, Now(w))
              /\ callee \notin Bodies => \A r \in Registers \ {into} : after[r] = Now(w)[r]
              /\ callee \in Makers => \A t \in Returned(callee, class) : Kind(t, Done) \in after[into]
              /\ callee \in Bodies => after["node"] = Grown(Now(w)["node"], {"COMPOUND"})
              /\ callee \in Bodies => \A r \in Registers \ {"node"} : after[r] = Now(w)[r]
              /\ callee \in Bodies => arg = "node" /\ arg \in OwnedBy(Top)
<1> DEFINE kinds == Now(w)
           class == ClassFor(callee, kinds[arg])
           after == KindsAfter(Instr, kinds)
<1>1. /\ status = "running"
      /\ \/ Instr.op = "call" /\ callee = Instr.fn /\ arg = Instr.arg /\ into = Instr.into
         \/ Instr.op = "switch" /\ arg = "arg" /\ into = "ret"
  BY DEF Enters
<1>2. /\ ShapesRight(Top.fn, w[1], Top.pc) /\ DOMAIN kinds = Registers
  BY <1>1, TopShows
<1>3. /\ Instr.op = "switch" => callee \in Targets(Instr) /\ callee \in Makers
      /\ CallsRight(Top.fn, OwnedBy(Top), callee, arg, into)
  BY CallMeets
<1>4. Makers \cap Bodies = {} /\ "node" \in Registers /\ "ret" \in Registers
  BY DEF Makers, Registers
<1>5. callee \in Bodies => arg = "node" /\ arg \in OwnedBy(Top)
  BY <1>3 DEF CallsRight
<1>6. PassesRight(callee, arg, kinds)
  BY <1>1, <1>2, <1>3 DEF ShapesRight, Now, Instr
<1>7. IsInstruction(Top.fn, Top.pc) /\ (Instr.op = "call" => Instr.into \in Registers)
  BY <1>1, TopOwns DEF IsInstruction, Instr
<1> HIDE DEF kinds
<1>8. CASE Instr.op = "call" /\ callee \in Bodies
  <2> DEFINE grown == Grown(kinds["node"], {"COMPOUND"})
  <2>1. after = [kinds EXCEPT !["node"] = grown]
    <3>1. Instr.op = "call" /\ Instr.fn \in Bodies /\ Instr.fn \notin Makers
      BY <1>1, <1>4, <1>8
    <3> QED BY <3>1 DEF KindsAfter
  <2> HIDE DEF grown
  <2>2. after["node"] = grown /\ \A r \in Registers \ {"node"} : after[r] = kinds[r]
    BY <1>2, <1>4, <2>1
  <2> QED BY <1>4, <1>5, <1>6, <1>8, <2>2 DEF kinds, grown
<1>9. CASE Instr.op = "call" /\ callee \in Makers
  <2>1. after = [kinds EXCEPT ![into] = WholeOf(Returned(callee, class))]
    BY <1>1, <1>4, <1>9 DEF KindsAfter
  <2>2. after[into] = WholeOf(Returned(callee, class)) /\ \A r \in Registers \ {into} : after[r] = kinds[r]
    BY <1>1, <1>2, <1>7, <1>9, <2>1
  <2> QED BY <1>4, <1>6, <1>9, <2>2 DEF kinds, WholeOf
<1>10. CASE Instr.op = "call" /\ callee \notin Makers \cup Bodies
  <2>1. after = kinds
    BY <1>1, <1>10 DEF KindsAfter
  <2> QED BY <1>6, <1>10, <2>1 DEF kinds
<1>11. CASE Instr.op = "switch"
  <2> DEFINE returned == UNION {Returned(fn, ClassFor(fn, kinds["arg"])) : fn \in Targets(Instr)}
  <2>1. after = [kinds EXCEPT !["ret"] = WholeOf(returned)]
    BY <1>11 DEF KindsAfter
  <2>2. after["ret"] = WholeOf(returned) /\ \A r \in Registers \ {"ret"} : after[r] = kinds[r]
    BY <1>2, <1>4, <2>1
  <2>3. \A t \in Returned(callee, class) : t \in returned
    BY <1>1, <1>3, <1>11
  <2> HIDE DEF returned
  <2> QED BY <1>1, <1>3, <1>4, <1>6, <1>11, <2>2, <2>3 DEF kinds, WholeOf
<1> QED BY <1>1, <1>8, <1>9, <1>10, <1>11

\* The callee is handed a whole node, and its caller is promised what it returns.
LEMMA ShapesPush ==
    ASSUME OwnerInv, AreFamilies(nodes), NEW g, NEW callee, NEW arg, NEW into, NEW min,
           Enters(g, callee, arg, into, min), NEW w, CallsShape(stack, nodes, w)
    PROVE  \E w2 : CallsShape(stack', nodes, w2)
<1> DEFINE n == Len(stack)
           t == stack'
           f == Frame(callee, Unset, Top[arg], min, into)
           kinds == Now(w)
           class == ClassFor(callee, kinds[arg])
           after == KindsAfter(Instr, kinds)
           table == Kinds[g.fn][w[1]][g.pc]
           w2 == [i \in 1..n + 1 |-> IF i = 1 THEN class ELSE w[i - 1]]
<1>1. /\ status = "running" /\ Pushes(stack, t, f, g) /\ LocalsKept(g)
      /\ g.fn = Top.fn /\ g.into = Top.into /\ g.pc = Top.pc + 1 /\ Instr.op \in {"call", "switch"}
  BY DEF Enters
<1>2. n \in Nat \ {0} /\ 1 \in 1..n /\ OwnedBy(Top) \subseteq Registers /\ Top.pc \in Nat
  <2>1. Top.pc \in Nat
    BY <1>1, TopTyped DEF OwnerInv
  <2> QED BY <1>1, <2>1, TopOwns
<1>3. /\ Len(t) = n + 1 /\ t[1] = f /\ t[2] = g
      /\ \A i \in 3..n + 1 : t[i] = stack[i - 1]
  BY <1>1 DEF Pushes
<1>4. f.fn = callee /\ f.pc = 1 /\ f["arg"] = Top[arg] /\ f.into = into
  BY DEF Frame
<1> HIDE DEF f
<1>5. /\ callee \in DOMAIN Program \ {"parse"}
      /\ CallsRight(Top.fn, OwnedBy(Top), callee, arg, into)
      /\ OwnedBy(g) = (OwnedBy(Top) \ Passed(callee, arg)) \cup Made(callee, into)
  BY CallMeets
<1>6. /\ callee # "nothing" /\ Passed(callee, arg) \subseteq OwnedBy(Top)
      /\ into \notin OwnedBy(Top) \ Passed(callee, arg)
  BY <1>5 DEF CallsRight
<1>7. /\ PassesRight(callee, arg, kinds)
      /\ callee \notin Bodies => \A r \in Registers \ {into} : after[r] = kinds[r]
      /\ callee \in Makers => \A t_ \in Returned(callee, class) : Kind(t_, Done) \in after[into]
      /\ callee \in Bodies => after["node"] = Grown(kinds["node"], {"COMPOUND"})
      /\ callee \in Bodies => \A r \in Registers \ {"node"} : after[r] = kinds[r]
      /\ callee \in Bodies => arg = "node" /\ arg \in OwnedBy(Top)
  BY CallShows
<1>8. /\ w[1] \in Classes(Top.fn)
      /\ \A r \in OwnedBy(Top) : IsOneOf(nodes, Top[r], kinds[r])
      /\ Top.fn \in Bodies /\ Top.pc \notin {1, 2} => nodes[Top.node].type = "COMPOUND"
      /\ ShapesRight(Top.fn, w[1], Top.pc)
      /\ \A r \in OwnedBy(Top) : Top[r] \in DOMAIN nodes
  BY <1>1, TopShows, TopOwns DEF Orphans
<1>9. \A r \in OwnedBy(g) : \A kind \in after[r] : Fits(kind, table[r])
  <2>1. g.pc \in Successors(Instr, Top.pc)
    BY <1>1 DEF Successors
  <2> QED BY <1>1, <1>8, <2>1, FitsOn DEF OwnedBy, Instr, Now
<1>10. kinds = Kinds[g.fn][w[1]][g.pc - 1]
  <2>1. g.pc - 1 = Top.pc
    BY <1>1, <1>2
  <2> QED BY <1>1, <2>1 DEF Now
<1>11. g.fn \in Bodies => Top.pc \notin {1, 2} /\ g.pc \notin {1, 2} /\ g.node = Top.node
  <2>1. g.pc \in Successors(Instr, Top.pc) /\ g.node = Top.node
    BY <1>1 DEF Successors, LocalsKept, Registers
  <2> QED BY <1>1, <2>1, BodiesGoOn
<1>12. /\ \A i \in 1..n : CallHas(stack, nodes, w, i)
       /\ \A i \in 1..n - 1 : CallGets(stack, w, i)
  BY DEF CallsShape
<1>13. /\ w2[1] = class /\ w2[2] = w[1] /\ \A i \in 3..n + 1 : w2[i] = w[i - 1]
  <2>1. 1 \in 1..n + 1 /\ 2 \in 1..n + 1 /\ 2 - 1 = 1 /\ 2 # 1
    BY <1>2
  <2>2. \A i \in 3..n + 1 : i \in 1..n + 1 /\ i # 1
    BY <1>2
  <2> QED BY <2>1, <2>2
<1> HIDE DEF n, t, kinds, class, after, table, w2
<1>14. \A i \in 3..n + 1 :
          i - 1 \in 1..n /\ i # 1 /\ i # 2 /\ t[i].into = stack[i - 1].into /\ t[i].fn = stack[i - 1].fn
  BY <1>2, <1>3
<1>15. \A i \in 3..n + 1 :
          /\ t[i - 1].into = stack[(i - 1) - 1].into
          /\ t[i - 1].fn = stack[(i - 1) - 1].fn
          /\ t[i - 1].fn \in Bodies =>
                (t[i - 1].pc \in {1, 2} <=> stack[(i - 1) - 1].pc \in {1, 2})
  <2> TAKE i \in 3..n + 1
  <2>1. CASE i = 3
    <3>1. i - 1 = 2 /\ (i - 1) - 1 = 1
      BY <2>1
    <3>2. t[i - 1] = g /\ stack[(i - 1) - 1] = Top
      BY <1>3, <3>1 DEF Top
    <3> QED BY <1>1, <1>11, <3>2
  <2>2. CASE i # 3
    <3>1. i - 1 \in 3..n + 1
      BY <1>2, <2>2
    <3> QED BY <1>3, <3>1
  <2> QED BY <2>1, <2>2
<1>16. /\ LiveAt(t, 1) = Passed(callee, "arg")
       /\ LiveAt(t, 2) = OwnedBy(Top) \ Passed(callee, arg)
       /\ \A i \in 3..n + 1 : LiveAt(t, i) = LiveAt(stack, i - 1)
  <2>1. LiveAt(t, 1) = Passed(callee, "arg")
    BY <1>3, <1>4, <1>5, ProgramsOwnRight DEF LiveAt, OwnedBy
  <2>2. LiveAt(t, 2) = OwnedBy(Top) \ Passed(callee, arg)
    <3>1. 2 - 1 = 1 /\ 2 # 1
      OBVIOUS
    <3>2. LiveAt(t, 2) = OwnedBy(g) \ {into}
      BY <1>3, <1>4, <3>1 DEF LiveAt
    <3> QED BY <1>5, <1>6, <3>2 DEF Made
  <2>3. ASSUME NEW i \in 3..n + 1 PROVE LiveAt(t, i) = LiveAt(stack, i - 1)
    <3>1. i # 1 /\ i - 1 # 1 /\ t[i] = stack[i - 1]
      BY <1>3
    <3> QED BY <1>15, <3>1 DEF LiveAt
  <2> QED BY <2>1, <2>2, <2>3
<1>17. \A i \in 3..n + 1 : Seen(t, i, w2[i]) = Seen(stack, i - 1, w[i - 1])
  <2> TAKE i \in 3..n + 1
  <2>1. i > 1 /\ i - 1 > 1 /\ t[i] = stack[i - 1] /\ w2[i] = w[i - 1]
    BY <1>3, <1>13
  <2>2. Hanging(t, i) = Hanging(stack, i - 1)
    <3>1. Hanging(t, i) <=> Hanging(stack, i - 1)
      BY <1>15, <2>1 DEF Hanging
    <3>2. Hanging(t, i) \in BOOLEAN /\ Hanging(stack, i - 1) \in BOOLEAN
      BY DEF Hanging
    <3> QED BY <3>1, <3>2
  <2> QED BY <2>1, <2>2 DEF Seen
<1>18. CallHas(t, nodes, w2, 1)
  <2>1. class \in Classes(callee)
    BY <1>7 DEF PassesRight, class
  <2>2. Seen(t, 1, class) = Kinds[callee][class][1]
    BY <1>3, <1>4 DEF Seen, Hanging
  <2>3. ASSUME NEW r \in Passed(callee, "arg")
        PROVE  IsOneOf(nodes, f[r], Kinds[callee][class][1][r])
    <3>1. callee \in Receivers /\ r = "arg" /\ arg \in OwnedBy(Top)
      BY <1>6, <2>3 DEF Passed
    <3>2. Kinds[callee][class][1]["arg"] = WholeOf(class)
      BY <1>5, <1>6, <2>1, <3>1, ProgramsShapeRight
    <3>3. AreWhole(kinds[arg]) /\ TypesOf(kinds[arg]) \subseteq class
      BY <1>7, <3>1 DEF PassesRight, class
    <3>4. HasShape(nodes, Top[arg]) /\ nodes[Top[arg]].type \in class
      BY <1>8, <3>1, <3>3, AllWhole
    <3>5. IsOneOf(nodes, Top[arg], WholeOf(class))
      BY <3>4, WholeIsOne
    <3> QED BY <1>4, <3>1, <3>2, <3>5
  <2> QED BY <1>3, <1>4, <1>13, <1>16, <2>1, <2>2, <2>3 DEF CallHas
<1>19. CallHas(t, nodes, w2, 2)
  <2>1. g.fn \in Bodies /\ g.pc \notin {1, 2} => nodes[g.node].type = "COMPOUND"
    BY <1>1, <1>8, <1>11
  <2>2. ASSUME NEW r \in OwnedBy(Top) \ Passed(callee, arg)
        PROVE  IsOneOf(nodes, g[r], Seen(t, 2, w[1])[r])
    <3>1. g[r] = Top[r] /\ r \in Registers /\ r # into /\ r \in OwnedBy(g) /\ IsOneOf(nodes, Top[r], kinds[r])
      BY <1>1, <1>2, <1>5, <1>6, <1>8 DEF LocalsKept
    <3>2. 2 > 1 /\ 2 - 1 = 1
      OBVIOUS
    <3>3. CASE callee \in Bodies
      <4>1. Hanging(t, 2)
        BY <1>3, <1>4, <3>2, <3>3 DEF Hanging
      <4>2. Seen(t, 2, w[1]) = kinds
        BY <1>3, <1>10, <4>1 DEF Seen
      <4> QED BY <3>1, <4>2
    <3>4. CASE callee \notin Bodies
      <4>1. ~Hanging(t, 2)
        BY <1>3, <1>4, <3>2, <3>4 DEF Hanging
      <4>2. Seen(t, 2, w[1]) = table
        BY <1>3, <4>1 DEF Seen, table
      <4>3. \A kind \in kinds[r] : Fits(kind, table[r])
        BY <1>7, <1>9, <3>1, <3>4
      <4> QED BY <1>8, <3>1, <4>2, <4>3, FitAreOne
    <3> QED BY <3>3, <3>4
  <2> QED BY <1>1, <1>3, <1>8, <1>13, <1>16, <2>1, <2>2 DEF CallHas
<1>20. ASSUME NEW i \in 3..n + 1 PROVE CallHas(t, nodes, w2, i)
  <2>1. CallHas(stack, nodes, w, i - 1)
    BY <1>12, <1>14
  <2> QED BY <1>3, <1>13, <1>16, <1>17, <2>1 DEF CallHas
<1>21. CallGets(t, w2, 1)
  <2>1. 1 + 1 = 2
    OBVIOUS
  <2>2. ASSUME callee \in Makers, NEW type \in Returned(callee, class)
        PROVE  Kind(type, Done) \in table[into]
    <3>1. into \in OwnedBy(g) /\ Kind(type, Done) \in after[into]
      BY <1>5, <1>7, <2>2 DEF Made
    <3>2. Fits(Kind(type, Done), table[into]) /\ Kind(type, Done).type = type
      BY <1>9, <3>1 DEF Kind
    <3> QED BY <3>2 DEF Fits
  <2>3. callee \in Bodies => BodyFits(g.fn, w[1], g.pc)
    <3> SUFFICES ASSUME callee \in Bodies PROVE BodyFits(g.fn, w[1], g.pc)
      OBVIOUS
    <3>1. TakeAll(kinds["node"], {"COMPOUND"})
      BY <1>7 DEF PassesRight
    <3>2. callee \notin Receivers /\ callee \notin Makers
      BY DEF Bodies, Receivers, Makers
    <3>3. OwnedBy(g) = OwnedBy(Top)
      BY <1>5, <3>2 DEF Passed, Made
    <3>4. \A kind \in Grown(kinds["node"], {"COMPOUND"}) : Fits(kind, table["node"])
      BY <1>7, <1>9, <3>3
    <3>5. \A r \in OwnedBy(g) \ {"node"} : \A kind \in kinds[r] : Fits(kind, table[r])
      BY <1>2, <1>7, <1>9, <3>3
    <3> QED BY <1>10, <3>1, <3>4, <3>5 DEF BodyFits, OwnedBy, table
  <2> QED BY <1>3, <1>4, <1>13, <2>1, <2>2, <2>3 DEF CallGets, table
<1>22. ASSUME NEW i \in 2..n PROVE CallGets(t, w2, i)
  <2>1. i + 1 \in 3..n + 1 /\ i - 1 \in 1..n - 1 /\ (i - 1) + 1 = i /\ (i + 1) - 1 = i
    BY <1>2
  <2>2. CallGets(stack, w, i - 1) /\ t[i + 1] = stack[i] /\ w2[i + 1] = w[i]
    BY <1>3, <1>12, <1>13, <2>1
  <2>3. t[i].fn = stack[i - 1].fn /\ t[i].into = stack[i - 1].into
    BY <1>15, <2>1
  <2>4. w2[i] = w[i - 1]
    <3>1. CASE i = 2
      <4>1. i - 1 = 1
        BY <3>1
      <4> QED BY <1>13, <3>1, <4>1
    <3>2. CASE i # 2
      <4>1. i \in 3..n + 1
        BY <1>2, <3>2
      <4> QED BY <1>13, <4>1
    <3> QED BY <3>1, <3>2
  <2> QED BY <2>1, <2>2, <2>3, <2>4 DEF CallGets
<1>23. /\ \A i \in 1..n + 1 : i = 1 \/ i = 2 \/ i \in 3..n + 1
       /\ \A i \in 1..(n + 1) - 1 : i = 1 \/ i \in 2..n
  BY <1>2
<1>24. CallsShape(t, nodes, w2)
  BY <1>3, <1>18, <1>19, <1>20, <1>21, <1>22, <1>23 DEF CallsShape
<1> QED BY <1>24 DEF t

\* The caller gets what it was promised.
LEMMA ShapesPop ==
    ASSUME OwnerInv, AreFamilies(nodes), NEW g, ReturnsNode(g) \/ ReturnsVartype(g),
           NEW w, CallsShape(stack, nodes, w)
    PROVE  \E w2 : CallsShape(stack', nodes, w2)
<1> DEFINE n == Len(stack)
           t == stack'
           caller == stack[2]
           into == Top.into
           table == Kinds[caller.fn][w[2]][caller.pc]
           w2 == [i \in 1..n - 1 |-> w[i + 1]]
<1>1. /\ Returns(g) /\ status = "running" /\ Pops(stack, t, g) /\ n > 1
      /\ g.fn = caller.fn /\ g.into = caller.into /\ g.pc = caller.pc
  BY ReturnMeets DEF Returns
<1>2. /\ \A r \in Registers : r # into => g[r] = caller[r]
      /\ Top.fn \notin Makers => OwnedBy(Top) = {}
      /\ Top.fn \in Makers =>
            Instr.op = "return" /\ OwnedBy(Top) = {Instr.reg} /\ g[into] = Top[Instr.reg]
  BY ReturnMeets
<1>3. n \in Nat /\ 1 \in 1..n /\ Instr.op \in {"return", "return_vartype"}
  BY <1>1, TopOwns DEF ReturnsNode, ReturnsVartype
<1>4. /\ Len(t) = n - 1 /\ t[1] = g
      /\ \A i \in 2..n - 1 : t[i] = stack[i + 1]
  BY <1>1 DEF Pops
<1>5. /\ \A i \in 1..n : CallHas(stack, nodes, w, i)
      /\ \A i \in 1..n - 1 : CallGets(stack, w, i)
      /\ \A i \in 1..n - 1 : Awaits(stack, i)
  BY DEF CallsShape, OwnerInv, CallsOwn
<1>6. /\ \A i \in 2..n - 1 : i + 1 \in 1..n /\ (i + 1) - 1 = i /\ i \in 1..n /\ i # 1
      /\ \A i \in 1..n - 1 : i = 1 \/ i \in 2..n - 1
      /\ 1 \in 1..n - 1 /\ 2 \in 1..n /\ 2 \in 2..n /\ 1 + 1 = 2 /\ 2 - 1 = 1
  BY <1>1, <1>3
<1>7. /\ into \in OwnedBy(caller) <=> Top.fn \in Makers
      /\ into = "node" => caller.fn \notin Bodies \cup {"parse"}
      /\ caller.fn \in Bodies => caller.pc \notin {1, 2}
  BY <1>5, <1>6 DEF Awaits, Top
<1>8. LiveAt(stack, 2) = OwnedBy(caller) \ {into} /\ ~Hanging(stack, 2)
  <2>1. LiveAt(stack, 2) = OwnedBy(caller) \ {into}
    BY <1>6 DEF LiveAt, Top
  <2>2. Top.fn \in Bodies => Top.pc \notin {1, 2}
    BY <1>1, <1>3, BodiesGoOn
  <2> QED BY <1>6, <2>1, <2>2 DEF Hanging, Top
<1>9. OwnedBy(caller) \subseteq Registers /\ caller.fn \in DOMAIN Program
  <2>1. FrameOK(caller, Ids) /\ caller.fn # "nothing"
    BY <1>1, <1>6, TopTyped DEF OwnerInv, CallsOwn
  <2>2. OwnsRight(caller.fn, caller.pc)
    BY <2>1, ProgramsOwnRight DEF FrameOK
  <2> QED BY <2>1, <2>2 DEF OwnsRight, OwnedBy, FrameOK
<1>10. \A i \in 1..n - 1 : w2[i] = w[i + 1]
  OBVIOUS
<1> HIDE DEF n, t, caller, into, table, w2
<1>11. \A i \in 1..n - 1 : t[i].fn = stack[i + 1].fn /\ t[i].into = stack[i + 1].into /\ t[i].pc = stack[i + 1].pc
  BY <1>1, <1>4, <1>6 DEF caller
<1>12. /\ LiveAt(t, 1) = OwnedBy(caller)
       /\ \A i \in 2..n - 1 : LiveAt(t, i) = LiveAt(stack, i + 1)
  <2>1. LiveAt(t, 1) = OwnedBy(caller)
    BY <1>1, <1>4 DEF LiveAt, OwnedBy
  <2>2. ASSUME NEW i \in 2..n - 1 PROVE LiveAt(t, i) = LiveAt(stack, i + 1)
    <3>1. i # 1 /\ i + 1 # 1 /\ t[i] = stack[i + 1] /\ (i + 1) - 1 = i /\ i - 1 \in 1..n - 1 /\ (i - 1) + 1 = i
      BY <1>3, <1>4
    <3> QED BY <1>11, <3>1 DEF LiveAt
  <2> QED BY <2>1, <2>2
<1>13. \A i \in 2..n - 1 : Seen(t, i, w2[i]) = Seen(stack, i + 1, w[i + 1])
  <2> TAKE i \in 2..n - 1
  <2>1. /\ i > 1 /\ i + 1 > 1 /\ t[i] = stack[i + 1] /\ (i + 1) - 1 = i
        /\ i - 1 \in 1..n - 1 /\ (i - 1) + 1 = i /\ i \in 1..n - 1
    BY <1>3, <1>4
  <2>2. t[i - 1].fn = stack[i].fn /\ t[i - 1].pc = stack[i].pc
    BY <1>11, <2>1
  <2>3. Hanging(t, i) = Hanging(stack, i + 1)
    <3>1. Hanging(t, i) <=> Hanging(stack, i + 1)
      BY <2>1, <2>2 DEF Hanging
    <3>2. Hanging(t, i) \in BOOLEAN /\ Hanging(stack, i + 1) \in BOOLEAN
      BY DEF Hanging
    <3> QED BY <3>1, <3>2
  <2> QED BY <1>10, <2>1, <2>3 DEF Seen
<1>14. CallHas(stack, nodes, w, 2) /\ stack[2] = caller /\ Seen(stack, 2, w[2]) = table
  BY <1>5, <1>6, <1>8 DEF caller, table, Seen
<1>15. CallHas(t, nodes, w2, 1)
  <2>1. Seen(t, 1, w[2]) = table
    BY <1>1, <1>4 DEF Seen, Hanging, table
  <2>2. g.fn \in Bodies /\ g.pc \notin {1, 2} => nodes[g.node].type = "COMPOUND"
    <3> SUFFICES ASSUME g.fn \in Bodies, g.pc \notin {1, 2} PROVE nodes[g.node].type = "COMPOUND"
      OBVIOUS
    <3>1. into # "node" /\ "node" \in Registers
      BY <1>1, <1>7 DEF Registers
    <3>2. g.node = caller.node
      BY <1>2, <3>1
    <3> QED BY <1>1, <1>14, <3>2 DEF CallHas
  <2>3. ASSUME NEW r \in OwnedBy(caller) PROVE IsOneOf(nodes, g[r], table[r])
    <3>1. CASE r # into
      <4>1. r \in LiveAt(stack, 2) /\ g[r] = caller[r]
        BY <1>2, <1>8, <1>9, <3>1
      <4> QED BY <1>14, <4>1 DEF CallHas
    <3>2. CASE r = into
      <4> DEFINE reg == Instr.reg
                 kinds == Now(w)
      <4>1. /\ Top.fn \in Makers /\ Instr.op = "return" /\ OwnedBy(Top) = {reg}
            /\ g[into] = Top[reg]
        BY <1>2, <1>7, <3>2
      <4>2. ShapesRight(Top.fn, w[1], Top.pc) /\ IsOneOf(nodes, Top[reg], kinds[reg])
        BY <1>1, <4>1, TopShows
      <4>3. AreWhole(kinds[reg]) /\ TypesOf(kinds[reg]) \subseteq Returned(Top.fn, w[1])
        BY <4>1, <4>2 DEF ShapesRight, Now, Instr
      <4>4. Top[reg] \in DOMAIN nodes
        BY <1>1, <4>1, TopOwns DEF Orphans
      <4> HIDE DEF reg, kinds
      <4>5. HasShape(nodes, Top[reg]) /\ nodes[Top[reg]].type \in Returned(Top.fn, w[1])
        BY <4>2, <4>3, <4>4, AllWhole
      <4>6. \A type \in Returned(Top.fn, w[1]) : Kind(type, Done) \in table[into]
        BY <1>5, <1>6, <4>1 DEF CallGets, Top, table, caller, into
      <4> QED BY <3>2, <4>1, <4>5, <4>6, WholeIs DEF IsOneOf
    <3> QED BY <3>1, <3>2
  <2>4. w2[1] = w[2]
    BY <1>6, <1>10
  <2> QED BY <1>1, <1>4, <1>12, <1>14, <2>1, <2>2, <2>3, <2>4 DEF CallHas
<1>16. ASSUME NEW i \in 2..n - 1 PROVE CallHas(t, nodes, w2, i)
  <2>1. CallHas(stack, nodes, w, i + 1) /\ i \in 1..n - 1
    BY <1>3, <1>5, <1>6
  <2> QED BY <1>4, <1>10, <1>12, <1>13, <2>1 DEF CallHas
<1>17. ASSUME NEW i \in 1..(n - 1) - 1 PROVE CallGets(t, w2, i)
  <2>1. i + 1 \in 1..n - 1 /\ i \in 1..n - 1
    BY <1>3
  <2>2. CallGets(stack, w, i + 1) /\ w2[i] = w[i + 1] /\ w2[i + 1] = w[(i + 1) + 1]
    BY <1>5, <1>10, <2>1
  <2> QED BY <1>11, <2>1, <2>2 DEF CallGets
<1>18. CallsShape(t, nodes, w2)
  BY <1>4, <1>6, <1>15, <1>16, <1>17 DEF CallsShape
<1> QED BY <1>18 DEF t

-------------------------------------------------------------------------------
(* Each step keeps the shapes                                                *)

\* What is known of a step before it is known to keep the shapes.
Ready ==
    /\ Kept
    /\ IsFiniteSet(DOMAIN nodes) /\ AreFamilies(nodes) /\ AreFamilies(nodes')
    /\ Root \in DOMAIN nodes /\ Root \notin Orphans
    /\ \A n \in DOMAIN nodes : n \in DOMAIN nodes' /\ nodes'[n].type = nodes[n].type

Shaped == TreeShape(nodes', Orphans') /\ \E w : CallsShape(stack', nodes', w)

\* The kinds after the instruction are those in front of the next one.
LEMMA GoneShows ==
    ASSUME OwnerInv, Ready, NEW w, CallsShape(stack, nodes, w), NEW g, Goes(g),
           \A r \in OwnedBy(g) : IsOneOf(nodes', g[r], KindsAfter(Instr, Now(w))[r])
    PROVE  \A r \in OwnedBy(g) : IsOneOf(nodes', g[r], Kinds[g.fn][w[1]][g.pc][r])
<1>1. /\ status = "running" /\ g.fn = Top.fn /\ g.pc \in Successors(Instr, Top.pc)
      /\ stack'[1] = g /\ Len(stack') = Len(stack)
  BY DEF Goes, Replaces
<1>2. 1 \in 1..Len(stack) /\ ShapesRight(Top.fn, w[1], Top.pc)
  BY <1>1, TopOwns, TopShows
<1>3. \A r \in OwnedBy(g) : g[r] \in DOMAIN nodes'
  <2>1. Held(stack')[1] \subseteq Orphans'
    BY <1>1, <1>2 DEF Ready, Kept, CallsOwn, Partition
  <2>2. Held(stack')[1] = {g[r] : r \in OwnedBy(g)}
    BY <1>1, <1>2 DEF Held, LiveAt
  <2>3. Orphans' \subseteq DOMAIN nodes'
    BY DEF Orphans
  <2> QED BY <2>1, <2>2, <2>3
<1>4. ASSUME NEW r \in OwnedBy(g) PROVE IsOneOf(nodes', g[r], Kinds[g.fn][w[1]][g.pc][r])
  <2>1. \A kind \in KindsAfter(Instr, Now(w))[r] : Fits(kind, Kinds[g.fn][w[1]][g.pc][r])
    BY <1>1, <1>2, FitsOn DEF Instr, Now, OwnedBy
  <2> QED BY <1>3, <2>1, FitAreOne DEF Ready
<1> QED BY <1>4

\* A step of the running call that leaves the nodes of the others alone.
LEMMA ShapesGoOn ==
    ASSUME OwnerInv, Ready, NEW w, CallsShape(stack, nodes, w), NEW g, Goes(g),
           NEW but, OthersSame(nodes, nodes', but), but \cap (Orphans \ HeldNow(Top)) = {},
           \A r \in OwnedBy(g) : IsOneOf(nodes', g[r], KindsAfter(Instr, Now(w))[r]),
           g.fn \in Bodies => \/ g.pc \in {1, 2} /\ Top.pc \in {1, 2}
                              \/ /\ g.pc \notin {1, 2} /\ Top.pc \notin {1, 2}
                                 /\ nodes'[g.node].type = "COMPOUND"
    PROVE  CallsShape(stack', nodes', w)
<1>1. /\ status = "running" /\ g.fn = Top.fn /\ stack'[1] = g
      /\ \A i \in 2..Len(stack) : stack'[i] = stack[i]
  BY DEF Goes, Replaces
<1>2. Len(stack) \in Nat
  BY <1>1, TopOwns
<1>3. \A i \in 2..Len(stack) : \A r \in LiveAt(stack, i) : stack[i][r] \in DOMAIN nodes \ but
  BY <1>1, OthersHold DEF Orphans
<1>4. \A i \in 3..Len(stack) : \A r \in LiveAt(stack, i) : stack[i][r] \notin but
  <2>1. \A i \in 3..Len(stack) : i \in 2..Len(stack)
    BY <1>2
  <2> QED BY <1>3, <2>1
<1>5. ASSUME Len(stack) > 1, NEW r \in LiveAt(stack, 2)
      PROVE  IsOneOf(nodes', stack[2][r], Seen(stack', 2, w[2])[r])
  <2>1. 2 \in 2..Len(stack) /\ 2 \in 1..Len(stack) /\ 2 - 1 = 1
    BY <1>2, <1>5
  <2>2. IsOneOf(nodes, stack[2][r], Seen(stack, 2, w[2])[r])
    BY <1>5, <2>1 DEF CallsShape, CallHas
  <2>3. Seen(stack', 2, w[2]) = Seen(stack, 2, w[2])
    <3>1. Hanging(stack', 2) <=> Hanging(stack, 2)
      BY <1>1, <2>1 DEF Hanging, Top
    <3>2. Hanging(stack', 2) \in BOOLEAN /\ Hanging(stack, 2) \in BOOLEAN
      BY DEF Hanging
    <3>3. Hanging(stack', 2) = Hanging(stack, 2)
      BY <3>1, <3>2
    <3> QED BY <1>1, <2>1, <3>3 DEF Seen
  <2> QED BY <1>3, <1>5, <2>1, <2>2, <2>3, OneKept
<1>6. \A r \in OwnedBy(g) : IsOneOf(nodes', g[r], Kinds[g.fn][w[1]][g.pc][r])
  BY GoneShows
<1>7. g.fn \in Bodies /\ g.pc \notin {1, 2} => nodes'[g.node].type = "COMPOUND"
  OBVIOUS
<1>8. \A n \in DOMAIN nodes : nodes'[n].type = nodes[n].type
  BY DEF Ready
<1> QED BY <1>4, <1>5, <1>6, <1>7, <1>8, ShapesGo

\* A step that only moves nodes between locals or changes what a node says.
LEMMA SayingShapes ==
    ASSUME ShapeInv, Ready, NEW w, CallsShape(stack, nodes, w), NEW g, Goes(g),
           LinksKept(nodes, nodes'), Instr.op \notin {"add", "append"},
           \A r \in OwnedBy(g) : IsOneOf(nodes', g[r], KindsAfter(Instr, Now(w))[r]),
           g.fn \in Bodies => g.node = Top.node
    PROVE  Shaped
<1>1. status = "running" /\ g.fn = Top.fn /\ g.pc \in Successors(Instr, Top.pc)
  BY DEF Goes
<1>2. Orphans' = Orphans /\ DOMAIN nodes' = DOMAIN nodes
  BY RetainedLinks DEF ShapeInv, OwnerInv, LinksKept
<1>3. OthersSame(nodes, nodes', {})
  BY SayingKeepsKids DEF ShapeInv, OwnerInv, Ready
<1>4. g.fn \in Bodies =>
         g.pc \notin {1, 2} /\ Top.pc \notin {1, 2} /\ nodes'[g.node].type = "COMPOUND"
  <2> SUFFICES ASSUME g.fn \in Bodies
               PROVE  g.pc \notin {1, 2} /\ Top.pc \notin {1, 2} /\ nodes'[g.node].type = "COMPOUND"
    OBVIOUS
  <2>1. Top.pc \notin {1, 2} /\ g.pc \notin {1, 2} /\ Top.node \in DOMAIN nodes
    BY <1>1, BodiesGoOn DEF ShapeInv
  <2>2. nodes[Top.node].type = "COMPOUND"
    BY <1>1, <2>1, TopShows DEF ShapeInv
  <2> QED BY <2>1, <2>2 DEF Ready
<1>5. CallsShape(stack', nodes', w)
  BY <1>3, <1>4, ShapesGoOn DEF ShapeInv
<1>6. TreeShape(nodes', Orphans')
  <2>1. \A n \in DOMAIN nodes \ Orphans : HasShape(nodes', n)
    BY <1>3, OneKept DEF ShapeInv, TreeShape
  <2> QED BY <1>2, <2>1 DEF ShapeInv, TreeShape, Ready
<1> QED BY <1>5, <1>6 DEF Shaped

\* Most instructions leave the locals as they are.
LEMMA AdvanceShapes ==
    ASSUME ShapeInv, Ready, NEW g, Advances(g)
    PROVE  Shaped
<1>1. /\ Goes(g) /\ LocalsKept(g) /\ Instr.op \in Plain /\ LinksKept(nodes, nodes') /\ status = "running"
  BY DEF Advances, Retained, Goes
<1>2. PICK w : CallsShape(stack, nodes, w)
  BY DEF ShapeInv
<1>3. OwnedBy(g) = OwnedBy(Top) /\ KindsAfter(Instr, Now(w)) = Now(w)
  <2>1. After(Instr, OwnedBy(Top)) = OwnedBy(Top)
    BY <1>1 DEF After, Plain
  <2>2. KindsAfter(Instr, Now(w)) = Now(w)
    BY <1>1 DEF KindsAfter, Plain
  <2> QED BY <1>1, <2>1, <2>2, GoneOwns DEF ShapeInv
<1>4. OthersSame(nodes, nodes', {})
  BY <1>1, SayingKeepsKids DEF ShapeInv, OwnerInv, Ready
<1>5. ASSUME NEW r \in OwnedBy(g) PROVE IsOneOf(nodes', g[r], KindsAfter(Instr, Now(w))[r])
  <2>1. IsOneOf(nodes, Top[r], Now(w)[r]) /\ Top[r] \in DOMAIN nodes /\ r \in Registers
    BY <1>1, <1>2, <1>3, TopShows, TopOwns DEF ShapeInv, Orphans
  <2>2. IsOneOf(nodes', Top[r], Now(w)[r])
    BY <1>4, <2>1, OneKept
  <2> QED BY <1>1, <1>3, <2>1, <2>2 DEF LocalsKept
<1>6. Instr.op \notin {"add", "append"} /\ g.node = Top.node
  BY <1>1 DEF Plain, LocalsKept, Registers
<1> QED BY <1>1, <1>2, <1>5, <1>6, SayingShapes

\* A local takes over what another one holds.
LEMMA MoveShapes ==
    ASSUME ShapeInv, Ready, NEW g, Moves(g)
    PROVE  Shaped
<1>1. /\ Goes(g) /\ Instr.op = "move" /\ LocalSet(g, Instr.to, Top[Instr.from])
      /\ nodes' = nodes /\ status = "running"
  BY DEF Moves, Goes
<1>2. PICK w : CallsShape(stack, nodes, w)
  BY DEF ShapeInv
<1>3. LinksKept(nodes, nodes')
  BY <1>1 DEF LinksKept
<1>4. OwnsRight(Top.fn, Top.pc) /\ IsInstruction(Top.fn, Top.pc) /\ OwnedBy(Top) \subseteq Registers
  BY <1>1, TopOwns DEF ShapeInv
<1>5. /\ Instr.from \in OwnedBy(Top) /\ Instr.to \in Registers
      /\ Top.fn \notin Bodies \cup {"parse"}
  BY <1>1, <1>4 DEF OwnsRight, IsInstruction, OwnedBy, Instr
<1>6. OwnedBy(g) = (OwnedBy(Top) \ {Instr.from}) \cup {Instr.to}
  BY <1>1, GoneOwns DEF After, ShapeInv
<1>7. DOMAIN Now(w) = Registers /\ \A r \in OwnedBy(Top) : IsOneOf(nodes, Top[r], Now(w)[r])
  BY <1>1, <1>2, TopShows DEF ShapeInv
<1>8. KindsAfter(Instr, Now(w)) = [Now(w) EXCEPT ![Instr.to] = Now(w)[Instr.from]]
  BY <1>1 DEF KindsAfter
<1>9. ASSUME NEW r \in OwnedBy(g) PROVE IsOneOf(nodes', g[r], KindsAfter(Instr, Now(w))[r])
  <2>1. CASE r = Instr.to
    <3>1. KindsAfter(Instr, Now(w))[r] = Now(w)[Instr.from] /\ g[r] = Top[Instr.from]
      BY <1>1, <1>5, <1>7, <1>8, <2>1 DEF LocalSet
    <3> QED BY <1>1, <1>5, <1>7, <3>1
  <2>2. CASE r # Instr.to
    <3>1. r \in OwnedBy(Top) /\ r \in Registers
      BY <1>4, <1>6, <2>2
    <3>2. KindsAfter(Instr, Now(w))[r] = Now(w)[r] /\ g[r] = Top[r]
      BY <1>1, <1>7, <1>8, <2>2, <3>1 DEF LocalSet
    <3> QED BY <1>1, <1>7, <3>1, <3>2
  <2> QED BY <2>1, <2>2
<1>10. g.fn \notin Bodies
  BY <1>1, <1>5 DEF Goes
<1> QED BY <1>1, <1>2, <1>3, <1>9, <1>10, SayingShapes

\* The node made for a member, and the primitive that is given one, are whole.
LEMMA MemberKinds ==
    ASSUME OwnerInv, status = "running", Instr.op = "member", AreFamilies(nodes),
           NEW w, CallsShape(stack, nodes, w)
    PROVE  LET after == KindsAfter(Instr, Now(w))
               type == nodes[Top.arg].type
           IN /\ HasShape(nodes, Top.arg) /\ type \in Callees
              /\ after["node"] = WholeOf({IF t = "BUILTIN" THEN t ELSE "MEMBER" : t \in TypesOf(Now(w)["arg"])})
              /\ type \in TypesOf(Now(w)["arg"])
              /\ \A r \in Registers \ {"node"} : after[r] = Now(w)[r]
              /\ Top.arg \in Orphans /\ Top["arg"] = Top.arg
              /\ "arg" \in OwnedBy(Top) /\ Top.fn \notin Bodies \cup {"parse"}
<1>1. OwnsRight(Top.fn, Top.pc) /\ \A r \in OwnedBy(Top) : Top[r] \in Orphans
  BY TopOwns
<1>2. "arg" \in OwnedBy(Top) /\ Top.fn \notin Bodies \cup {"parse"} /\ "node" \in Registers
  BY <1>1 DEF OwnsRight, OwnedBy, Instr, Registers
<1>3. /\ ShapesRight(Top.fn, w[1], Top.pc) /\ IsOneOf(nodes, Top["arg"], Now(w)["arg"])
      /\ DOMAIN Now(w) = Registers
  BY <1>2, TopShows
<1>4. AreWhole(Now(w)["arg"]) /\ TypesOf(Now(w)["arg"]) \subseteq Callees
  BY <1>3 DEF ShapesRight, Now, Instr
<1>5. Top["arg"] \in DOMAIN nodes /\ Top["arg"] \in Orphans
  BY <1>1, <1>2 DEF Orphans
<1>6. HasShape(nodes, Top["arg"]) /\ nodes[Top["arg"]].type \in TypesOf(Now(w)["arg"])
  BY <1>3, <1>4, <1>5, AllWhole
<1> DEFINE kinds == Now(w)
           member == WholeOf({IF t = "BUILTIN" THEN t ELSE "MEMBER" : t \in TypesOf(kinds["arg"])})
<1>7. KindsAfter(Instr, kinds) = [kinds EXCEPT !["node"] = member]
  <2> HIDE DEF kinds
  <2> QED BY DEF KindsAfter
<1> HIDE DEF member
<1>8. KindsAfter(Instr, kinds)["node"] = member /\ \A r \in Registers \ {"node"} : KindsAfter(Instr, kinds)[r] = kinds[r]
  BY <1>2, <1>3, <1>7
<1> QED BY <1>2, <1>4, <1>5, <1>6, <1>8 DEF member

\* The primitive that gets its property stays one.
LEMMA NameShapes ==
    ASSUME ShapeInv, Ready, NEW g, NamesMember(g)
    PROVE  Shaped
<1>1. /\ Goes(g) /\ Instr.op = "member" /\ LocalSet(g, "node", Top.arg)
      /\ nodes[Top.arg].type = "BUILTIN" /\ LinksKept(nodes, nodes') /\ status = "running"
  BY DEF NamesMember, Goes, Retained
<1>2. PICK w : CallsShape(stack, nodes, w)
  BY DEF ShapeInv
<1> DEFINE kinds == Now(w)
           after == KindsAfter(Instr, kinds)
<1>3. /\ HasShape(nodes, Top.arg)
      /\ after["node"] = WholeOf({IF t = "BUILTIN" THEN t ELSE "MEMBER" : t \in TypesOf(kinds["arg"])})
      /\ "BUILTIN" \in TypesOf(kinds["arg"])
      /\ \A r \in Registers \ {"node"} : after[r] = kinds[r]
      /\ Top.arg \in DOMAIN nodes /\ "arg" \in OwnedBy(Top) /\ Top.fn \notin Bodies \cup {"parse"}
  BY <1>1, <1>2, MemberKinds DEF ShapeInv, Ready, Orphans
<1>4. OwnedBy(g) = (OwnedBy(Top) \ {"arg"}) \cup {"node"} /\ OwnedBy(Top) \subseteq Registers
  BY <1>1, GoneOwns, TopOwns DEF After, ShapeInv
<1>5. OthersSame(nodes, nodes', {})
  BY <1>1, SayingKeepsKids DEF ShapeInv, OwnerInv, Ready
<1>6. \A r \in OwnedBy(Top) : IsOneOf(nodes, Top[r], kinds[r]) /\ Top[r] \in DOMAIN nodes
  BY <1>1, <1>2, TopShows, TopOwns DEF ShapeInv, Orphans
<1> HIDE DEF kinds, after
<1>7. ASSUME NEW r \in OwnedBy(g) PROVE IsOneOf(nodes', g[r], after[r])
  <2>1. CASE r = "node"
    <3>1. g[r] = Top.arg
      BY <1>1, <2>1 DEF LocalSet, Registers
    <3>2. HasShape(nodes', Top.arg) /\ nodes'[Top.arg].type = "BUILTIN"
      BY <1>1, <1>3, <1>5, OneKept DEF Ready
    <3>3. "BUILTIN" \in {IF t = "BUILTIN" THEN t ELSE "MEMBER" : t \in TypesOf(kinds["arg"])}
      BY <1>3
    <3> QED BY <1>3, <2>1, <3>1, <3>2, <3>3, WholeIsOne
  <2>2. CASE r # "node"
    <3>1. r \in OwnedBy(Top) /\ r \in Registers /\ g[r] = Top[r] /\ after[r] = kinds[r]
      BY <1>1, <1>3, <1>4, <2>2 DEF LocalSet
    <3> QED BY <1>5, <1>6, <3>1, OneKept
  <2> QED BY <2>1, <2>2
<1>8. g.fn \notin Bodies
  BY <1>1, <1>3 DEF Goes
<1>9. Instr.op \notin {"add", "append"}
  BY <1>1
<1> QED BY <1>1, <1>2, <1>7, <1>8, <1>9, SayingShapes DEF after, kinds

\* A new node has no children yet.
LEMMA AddShapes ==
    ASSUME ShapeInv, Ready, NEW g, NEW node, Adds(g, node)
    PROVE  Shaped
<1>1. /\ Goes(g) /\ Instr.op = "add" /\ LocalSet(g, Instr.into, node_count) /\ status = "running"
      /\ nodes' = AddNode(nodes, node_count, node)
      /\ node.parent = NodeNull /\ node.next_sibling = NodeNull
      /\ node.first_child = NodeNull /\ node.last_child = NodeNull
      /\ node.type = Instr.type /\ DOMAIN node = NodeFields /\ HasRoom /\ node_count' = node_count + 1
  BY DEF Adds, Goes
<1>2. /\ OwnsRight(Top.fn, Top.pc) /\ IsInstruction(Top.fn, Top.pc)
      /\ OwnedBy(Top) \subseteq Registers /\ \A r \in OwnedBy(Top) : Top[r] \in Orphans
  BY <1>1, TopOwns DEF ShapeInv
<1>3. /\ node.type \in NodeTypes /\ Instr.into \in Registers
      /\ Top.fn \in Bodies => Top.pc = 1
  BY <1>1, <1>2 DEF OwnsRight, IsInstruction, Instr
<1>4. /\ node_count \notin DOMAIN nodes /\ DOMAIN nodes' = DOMAIN nodes \cup {node_count}
      /\ \A n \in DOMAIN nodes : nodes'[n] = nodes[n]
      /\ nodes'[node_count] = node
  BY <1>1, <1>3, ArenaAdded DEF ShapeInv, OwnerInv
<1>5. node_count # NodeNull /\ node_count # Root
  <2>1. node_count \in 1..NodeCapacity
    BY DEF ShapeInv, OwnerInv, TypeInv, TypeOK
  <2> QED BY <2>1, CapacityAssumption DEF NodeNull, Root
<1>6. OthersSame(nodes, nodes', {}) /\ Children(nodes', node_count) = <<>>
  <2>1. IsFiniteSet(DOMAIN nodes) /\ IsTrees(nodes)
    BY DEF Ready, ShapeInv, OwnerInv
  <2> QED BY <1>1, <1>4, <1>5, <2>1, AddingKeepsKids
<1>7. Orphans' = Orphans \cup {node_count}
  BY <1>1, <1>4, <1>5 DEF Orphans
<1>8. PICK w : CallsShape(stack, nodes, w)
  BY DEF ShapeInv
<1> DEFINE kinds == Now(w)
           after == KindsAfter(Instr, kinds)
<1>9. DOMAIN kinds = Registers /\ \A r \in OwnedBy(Top) : IsOneOf(nodes, Top[r], kinds[r])
  BY <1>1, <1>8, TopShows DEF ShapeInv
<1>10. OwnedBy(g) = OwnedBy(Top) \cup {Instr.into}
  BY <1>1, GoneOwns DEF After, ShapeInv
<1> HIDE DEF kinds
<1>11. after = [kinds EXCEPT ![Instr.into] = {Kind(Instr.type, 0)}]
  BY <1>1 DEF KindsAfter
<1> HIDE DEF after
<1>12. ASSUME NEW r \in OwnedBy(g) PROVE IsOneOf(nodes', g[r], after[r])
  <2>1. CASE r = Instr.into
    <3>1. after[r] = {Kind(Instr.type, 0)} /\ g[r] = node_count
      BY <1>1, <1>3, <1>9, <1>11, <2>1 DEF LocalSet
    <3>2. Reaches(nodes', node_count, 0)
      BY <1>6, KindStarts
    <3>3. Is(nodes', node_count, Kind(Instr.type, 0))
      BY <1>1, <1>4, <3>2 DEF Is, Kind, Done
    <3> QED BY <3>1, <3>3 DEF IsOneOf
  <2>2. CASE r # Instr.into
    <3>1. r \in OwnedBy(Top) /\ r \in Registers
      BY <1>2, <1>10, <2>2
    <3>2. after[r] = kinds[r] /\ g[r] = Top[r] /\ Top[r] \in DOMAIN nodes
      BY <1>1, <1>2, <1>9, <1>11, <2>2, <3>1 DEF LocalSet, Orphans
    <3> QED BY <1>6, <1>9, <3>1, <3>2, OneKept
  <2> QED BY <2>1, <2>2
<1>13. g.fn \in Bodies => g.pc \in {1, 2} /\ Top.pc \in {1, 2}
  BY <1>1, <1>3 DEF Goes, Successors
<1>14. CallsShape(stack', nodes', w)
  <2>1. \A r \in OwnedBy(g) : IsOneOf(nodes', g[r], KindsAfter(Instr, Now(w))[r])
    BY <1>12 DEF after, kinds
  <2>2. {} \cap (Orphans \ HeldNow(Top)) = {}
    OBVIOUS
  <2> QED BY <1>1, <1>6, <1>8, <1>13, <2>1, <2>2, ShapesGoOn DEF ShapeInv
<1>15. TreeShape(nodes', Orphans')
  <2>1. \A n \in DOMAIN nodes \ Orphans : HasShape(nodes', n)
    BY <1>6, OneKept DEF ShapeInv, TreeShape
  <2>2. DOMAIN nodes' \ Orphans' = DOMAIN nodes \ Orphans
    BY <1>4, <1>7
  <2> QED BY <2>1, <2>2 DEF ShapeInv, TreeShape, Ready
<1> QED BY <1>14, <1>15 DEF Shaped

\* The node made for a member has its child; the others have the children they had and
\* say what they said.
MemberAdded ==
    /\ node_count \notin DOMAIN nodes /\ node_count \notin {NodeNull, Root}
    /\ DOMAIN nodes' = DOMAIN nodes \cup {node_count}
    /\ OthersSame(nodes, nodes', {}) /\ Children(nodes', node_count) = Append(<<>>, Top.arg)
    /\ nodes'[node_count].type = "MEMBER"
    /\ \A n \in DOMAIN nodes :
          /\ nodes'[n].type = nodes[n].type /\ nodes'[n].value = nodes[n].value
          /\ nodes'[n].span = nodes[n].span
          /\ nodes'[n].parent = IF n = Top.arg THEN node_count ELSE nodes[n].parent
    /\ Top.arg \in Orphans /\ Top.arg \in DOMAIN nodes \ {Root}
    /\ nodes'[node_count].parent = NodeNull

LEMMA AppendSays ==
    ASSUME NEW tree, NEW parent, NEW child, AreNodes(tree)
    PROVE  LET new == AppendChild(tree, parent, child)
           IN /\ DOMAIN new = DOMAIN tree
              /\ \A n \in DOMAIN tree :
                    /\ new[n].type = tree[n].type /\ new[n].value = tree[n].value
                    /\ new[n].span = tree[n].span
<1>1. ASSUME NEW n \in DOMAIN tree
      PROVE  LET new == AppendChild(tree, parent, child)[n]
             IN new.type = tree[n].type /\ new.value = tree[n].value /\ new.span = tree[n].span
  <2> DEFINE node == tree[n]
  <2>1. PICK a, b, c, d :
           AppendChild(tree, parent, child)[n] =
               [node EXCEPT !.next_sibling = a, !.last_child = b, !.first_child = c, !.parent = d]
    BY DEF AppendChild
  <2>2. DOMAIN node = NodeFields
    BY DEF AreNodes
  <2> HIDE DEF node
  <2>3. LET new == [node EXCEPT !.next_sibling = a, !.last_child = b, !.first_child = c, !.parent = d]
        IN new.type = node.type /\ new.value = node.value /\ new.span = node.span
    BY <2>2 DEF NodeFields
  <2> QED BY <2>1, <2>3 DEF node
<1> QED BY <1>1 DEF AppendChild

LEMMA MembersAdded ==
    ASSUME ShapeInv, Ready, NEW g, NEW node, AddsMember(g, node)
    PROVE  MemberAdded
<1> DEFINE new == AddNode(nodes, node_count, node)
           arg == Top.arg
<1>1. /\ Goes(g) /\ Instr.op = "member" /\ LocalSet(g, "node", node_count) /\ status = "running"
      /\ nodes' = AppendChild(new, node_count, arg) /\ nodes[arg].type # "BUILTIN"
      /\ node.parent = NodeNull /\ node.next_sibling = NodeNull
      /\ node.first_child = NodeNull /\ node.last_child = NodeNull
      /\ node.type = "MEMBER" /\ DOMAIN node = NodeFields /\ HasRoom /\ node_count' = node_count + 1
  BY DEF AddsMember, Goes
<1>2. node.type \in NodeTypes
  BY <1>1 DEF NodeTypes
<1>3. /\ node_count \notin DOMAIN nodes /\ DOMAIN new = DOMAIN nodes \cup {node_count}
      /\ \A n \in DOMAIN nodes : new[n] = nodes[n]
      /\ new[node_count] = node /\ AreNodes(new)
  BY <1>1, <1>2, ArenaAdded DEF ShapeInv, OwnerInv
<1>4. node_count # NodeNull /\ node_count # Root
  <2>1. node_count \in 1..NodeCapacity
    BY DEF ShapeInv, OwnerInv, TypeInv, TypeOK
  <2> QED BY <2>1, CapacityAssumption DEF NodeNull, Root
<1>9. arg \in Orphans /\ arg \in DOMAIN nodes /\ arg # Root /\ nodes[arg].parent = NodeNull /\ arg # node_count
  <2>1. PICK w : CallsShape(stack, nodes, w)
    BY DEF ShapeInv
  <2>2. arg \in Orphans
    BY <1>1, <2>1, MemberKinds DEF ShapeInv, Ready
  <2> QED BY <1>3, <2>2 DEF Orphans
<1> HIDE DEF new, arg
<1>10. /\ OthersSame(nodes, new, {}) /\ Children(new, node_count) = <<>>
       /\ IsTrees(new) /\ IsFiniteSet(DOMAIN new)
  <2>1. IsFiniteSet(DOMAIN nodes) /\ IsTrees(nodes)
    BY DEF Ready, ShapeInv, OwnerInv
  <2>2. /\ new[node_count].parent = NodeNull /\ new[node_count].next_sibling = NodeNull
        /\ new[node_count].first_child = NodeNull /\ new[node_count].last_child = NodeNull
    BY <1>1, <1>3
  <2> QED BY <1>3, <1>4, <2>1, <2>2, AddingKeepsKids
<1>11. /\ OthersSame(new, nodes', {node_count})
       /\ Children(nodes', node_count) = Append(<<>>, arg)
       /\ DOMAIN nodes' = DOMAIN new
       /\ \A n \in DOMAIN new : nodes'[n].type = new[n].type
       /\ \A n \in DOMAIN new : nodes'[n].parent = IF n = arg THEN node_count ELSE new[n].parent
  <2>1. PICK kids, top, depth : AreTrees(new, kids, top, depth)
    BY <1>10 DEF IsTrees
  <2>2. /\ node_count \in DOMAIN new /\ arg \in DOMAIN new \ {Root} /\ new[arg].parent = NodeNull
        /\ new[node_count].parent = NodeNull
    BY <1>1, <1>3, <1>9
  <2>3. top[node_count] # arg
    BY <1>9, <2>1, <2>2, TopsOf
  <2>4. /\ OthersSame(new, nodes', {node_count})
        /\ Children(nodes', node_count) = Append(Children(new, node_count), arg)
        /\ DOMAIN nodes' = DOMAIN new
        /\ \A n \in DOMAIN new : nodes'[n].type = new[n].type
    <3>1. AreNodes(new) /\ IsFiniteSet(DOMAIN new) /\ node_count \in DOMAIN new
      BY <1>3, <1>10
    <3>2. HasAppended(new, AppendChild(new, node_count, arg), node_count, arg)
      BY <2>1, <2>2, <2>3, <3>1, AppendingKeepsKids
    <3> QED BY <1>1, <3>2 DEF HasAppended
  <2>5. \A n \in DOMAIN new : nodes'[n].parent = IF n = arg THEN node_count ELSE new[n].parent
    BY <1>1, <1>3, <2>1, <2>2, <2>3, AppendJoins
  <2> QED BY <1>10, <2>4, <2>5
<1>12. OthersSame(nodes, nodes', {})
  <2>1. ASSUME NEW n \in DOMAIN nodes PROVE SameKids(nodes, nodes', n)
    <3>1. n \in DOMAIN new \ {node_count}
      BY <1>3
    <3>2. SameKids(nodes, new, n) /\ SameKids(new, nodes', n)
      BY <1>10, <1>11, <3>1 DEF OthersSame
    <3> QED BY <3>2 DEF SameKids
  <2> QED BY <2>1 DEF OthersSame
<1>13. nodes'[node_count].type = "MEMBER" /\ nodes'[node_count].parent = NodeNull
  BY <1>1, <1>3, <1>9, <1>11
<1>14. \A n \in DOMAIN nodes : nodes'[n].value = nodes[n].value /\ nodes'[n].span = nodes[n].span
  <2>1. \A n \in DOMAIN new : nodes'[n].value = new[n].value /\ nodes'[n].span = new[n].span
    BY <1>1, <1>3, AppendSays
  <2> QED BY <1>3, <2>1
<1> QED BY <1>3, <1>4, <1>9, <1>11, <1>12, <1>13, <1>14 DEF MemberAdded, arg

\* The member is whole: it takes the name it belongs to with it.
LEMMA AddMemberShapes ==
    ASSUME ShapeInv, Ready, NEW g, NEW node, AddsMember(g, node)
    PROVE  Shaped
<1> DEFINE arg == Top.arg
<1>1. /\ Goes(g) /\ Instr.op = "member" /\ LocalSet(g, "node", node_count) /\ status = "running"
      /\ nodes[arg].type # "BUILTIN"
  BY DEF AddsMember, Goes
<1>3. MemberAdded
  BY MembersAdded
<1>5. PICK w : CallsShape(stack, nodes, w)
  BY DEF ShapeInv
<1> DEFINE kinds == Now(w)
           after == KindsAfter(Instr, kinds)
<1>6. /\ HasShape(nodes, arg) /\ nodes[arg].type \in Names
      /\ after["node"] = WholeOf({IF t = "BUILTIN" THEN t ELSE "MEMBER" : t \in TypesOf(kinds["arg"])})
      /\ nodes[arg].type \in TypesOf(kinds["arg"])
      /\ \A r \in Registers \ {"node"} : after[r] = kinds[r]
      /\ arg \in Orphans /\ "arg" \in OwnedBy(Top) /\ Top["arg"] = arg
      /\ Top.fn \notin Bodies \cup {"parse"}
  <2>1. OwnerInv /\ AreFamilies(nodes)
    BY DEF ShapeInv, Ready
  <2> QED BY <1>1, <1>5, <2>1, MemberKinds DEF Callees
<1>7. /\ \A r \in OwnedBy(Top) : IsOneOf(nodes, Top[r], kinds[r]) /\ Top[r] \in DOMAIN nodes
      /\ OwnedBy(Top) \subseteq Registers /\ HoldsApart(Top, OwnedBy(Top))
  BY <1>1, <1>5, TopShows, TopOwns DEF ShapeInv, Orphans
<1>8. OwnedBy(g) = (OwnedBy(Top) \ {"arg"}) \cup {"node"}
  BY <1>1, GoneOwns DEF After, ShapeInv
<1>12. OthersSame(nodes, nodes', {}) /\ arg \in DOMAIN nodes
  BY <1>3 DEF MemberAdded, arg
<1> HIDE DEF arg, kinds, after
<1>13. HasShape(nodes', node_count) /\ nodes'[node_count].type = "MEMBER"
  <2>1. nodes'[node_count].type = "MEMBER" /\ nodes'[arg].type \in Names
    BY <1>3, <1>6, <1>12 DEF MemberAdded
  <2> DEFINE one == Append(<<>>, arg)
  <2>2. Len(one) = 1 /\ one[1] = arg
    OBVIOUS
  <2> HIDE DEF one
  <2>3. Children(nodes', node_count) = one
    BY <1>3 DEF one, MemberAdded, arg
  <2> QED BY <2>1, <2>2, <2>3 DEF HasShape, Names
<1>14. Orphans' = (Orphans \ {arg}) \cup {node_count}
  <2>1. ASSUME NEW n PROVE n \in Orphans' <=> n \in (Orphans \ {arg}) \cup {node_count}
    <3>1. CASE n = node_count
      BY <1>3, <3>1 DEF Orphans, MemberAdded
    <3>2. CASE n # node_count /\ n \notin DOMAIN nodes
      BY <1>3, <3>2 DEF Orphans, MemberAdded
    <3>3. CASE n # node_count /\ n \in DOMAIN nodes
      BY <1>3, <3>3 DEF Orphans, MemberAdded, arg
    <3> QED BY <3>1, <3>2, <3>3
  <2> QED BY <2>1
<1>15. ASSUME NEW r \in OwnedBy(g) PROVE IsOneOf(nodes', g[r], after[r])
  <2>1. CASE r = "node"
    <3>1. g[r] = node_count
      BY <1>1, <2>1 DEF LocalSet, Registers
    <3>2. "MEMBER" \in {IF t = "BUILTIN" THEN t ELSE "MEMBER" : t \in TypesOf(kinds["arg"])}
      <4>1. nodes[arg].type # "BUILTIN"
        BY <1>1
      <4> QED BY <1>6, <4>1
    <3> QED BY <1>6, <1>13, <2>1, <3>1, <3>2, WholeIsOne
  <2>2. CASE r # "node"
    <3>1. r \in OwnedBy(Top) /\ r \in Registers
      BY <1>7, <1>8, <2>2
    <3>2. after[r] = kinds[r] /\ g[r] = Top[r] /\ Top[r] \in DOMAIN nodes
      BY <1>1, <1>6, <1>7, <2>2, <3>1 DEF LocalSet
    <3> QED BY <1>7, <1>12, <3>1, <3>2, OneKept
  <2> QED BY <2>1, <2>2
<1>16. g.fn \notin Bodies
  BY <1>1, <1>6 DEF Goes
<1>17. CallsShape(stack', nodes', w)
  <2>1. \A r \in OwnedBy(g) : IsOneOf(nodes', g[r], KindsAfter(Instr, Now(w))[r])
    BY <1>15 DEF after, kinds
  <2>2. {} \cap (Orphans \ HeldNow(Top)) = {}
    OBVIOUS
  <2> QED BY <1>1, <1>5, <1>12, <1>16, <2>1, <2>2, ShapesGoOn DEF ShapeInv
<1>18. TreeShape(nodes', Orphans')
  <2>1. \A n \in DOMAIN nodes \ Orphans : HasShape(nodes', n)
    BY <1>12, OneKept DEF ShapeInv, TreeShape
  <2>2. HasShape(nodes', arg)
    BY <1>6, <1>12, OneKept
  <2>3. DOMAIN nodes' \ Orphans' \subseteq (DOMAIN nodes \ Orphans) \cup {arg}
    BY <1>3, <1>14 DEF MemberAdded
  <2> QED BY <2>1, <2>2, <2>3 DEF ShapeInv, TreeShape, Ready
<1> QED BY <1>17, <1>18 DEF Shaped

\* What an append finds: a whole child, and a parent that takes it.
LEMMA AppendShows ==
    ASSUME OwnerInv, AreFamilies(nodes), status = "running", Instr.op = "append",
           NEW w, CallsShape(stack, nodes, w)
    PROVE  LET kinds == Now(w)
               types == TypesOf(kinds[Instr.child])
               parent == Top[Instr.parent]
               child == Top[Instr.child]
           IN /\ HasShape(nodes, child) /\ nodes[child].type \in types /\ parent # child
              /\ \/ /\ Instr.parent \in OwnedBy(Top) /\ Top.fn \notin Bodies /\ parent \in HeldNow(Top)
                    /\ TakeAll(kinds[Instr.parent], types)
                 \/ /\ Instr.parent \notin OwnedBy(Top) /\ parent \notin Orphans
                    /\ types \subseteq Statements
                    /\ \/ Top.fn = "parse" /\ parent = Root
                       \/ /\ Top.fn \in Bodies /\ Top.pc > 2 /\ parent = Top.node
                          /\ nodes[parent].type = "COMPOUND"
                          /\ Successors(Instr, Top.pc) \cap {1, 2} = {}
                 \/ /\ Instr.parent \notin OwnedBy(Top) /\ types \subseteq {"COMPOUND"}
                    /\ Top.fn \in Bodies /\ Top.pc = 2 /\ Instr.child = "node"
                    /\ Len(stack) > 1 /\ "node" \in LiveAt(stack, 2) /\ parent = stack[2].node
<1> DEFINE kinds == Now(w)
           types == TypesOf(kinds[Instr.child])
           parent == Top[Instr.parent]
           child == Top[Instr.child]
<1>1. /\ OwnsRight(Top.fn, Top.pc) /\ HoldsApart(Top, OwnedBy(Top)) /\ Hangs(stack, 1, nodes)
      /\ \A r \in OwnedBy(Top) : Top[r] \in Orphans
      /\ Top.fn = "parse" => Top.node = Root
      /\ Len(stack) \in Nat /\ 1 \in 1..Len(stack)
  BY TopOwns
<1>2. /\ Instr.child \in OwnedBy(Top) /\ Instr.parent # Instr.child
      /\ Instr.parent \in Parents(Top.fn, Top.pc)
      /\ Top.fn \in Bodies /\ Top.pc = 2 => Instr.child = "node"
      /\ Top.fn \in Bodies => Top.pc # 1
      /\ Top.fn \in Bodies /\ Top.pc > 2 => Successors(Instr, Top.pc) \cap {1, 2} = {}
  BY <1>1 DEF OwnsRight, OwnedBy, Instr
<1>3. /\ IsOneOf(nodes, child, kinds[Instr.child]) /\ child \in DOMAIN nodes /\ child \in Orphans
      /\ ShapesRight(Top.fn, w[1], Top.pc)
      /\ Top.fn \in Bodies /\ Top.pc \notin {1, 2} => nodes[Top.node].type = "COMPOUND"
  BY <1>1, <1>2, TopShows DEF Orphans
<1>4. /\ AreWhole(kinds[Instr.child])
      /\ IF Instr.parent \in OwnedBy(Top) THEN TakeAll(kinds[Instr.parent], types)
         ELSE types \subseteq (IF Top.fn \in Bodies /\ Top.pc = 2 THEN {"COMPOUND"} ELSE Statements)
  BY <1>3 DEF ShapesRight, Now, Instr, OwnedBy
<1>5. HasShape(nodes, child) /\ nodes[child].type \in types
  BY <1>3, <1>4, AllWhole
<1>6. /\ Root \in DOMAIN nodes /\ Root \notin Orphans /\ NodeNull \notin DOMAIN nodes
  <2>1. PICK kids, top, depth : AreTrees(nodes, kids, top, depth)
    BY DEF OwnerInv, IsTrees
  <2> QED BY <2>1 DEF AreTrees, Orphans
<1>7. ASSUME Top.fn \in Bodies
      PROVE  /\ Len(stack) > 1 /\ "node" \in LiveAt(stack, 2)
             /\ stack[2].node \in Orphans \ HeldNow(Top)
             /\ Top.pc \in {1, 2} => Top.arg = stack[2].node
             /\ Top.pc \notin {1, 2} => nodes[Top.node].parent = stack[2].node
  <2>1. 1 < Len(stack) /\ "node" \in LiveAt(stack, 2) /\ 1 + 1 = 2 /\ 2 \in 2..Len(stack)
    BY <1>1, <1>7 DEF Hangs, Top
  <2>2. stack[2].node \in Orphans \ HeldNow(Top)
    BY <2>1, OthersHold
  <2> QED BY <1>1, <1>7, <2>1, <2>2 DEF Hangs, Top
<1> HIDE DEF kinds, types, parent, child
<1>8. CASE Top.fn \notin Bodies /\ Instr.parent \in OwnedBy(Top)
  <2>1. parent \in HeldNow(Top) /\ parent # child
    BY <1>1, <1>2, <1>8 DEF HeldNow, HoldsApart, parent, child
  <2> QED BY <1>4, <1>5, <1>8, <2>1 DEF kinds, types, parent, child
<1>9. CASE Top.fn = "parse" /\ Instr.parent = "node"
  <2>1. "parse" \notin Bodies
    BY DEF Bodies
  <2>2. parent = Root /\ parent \notin Orphans /\ parent # child
    BY <1>1, <1>3, <1>6, <1>9 DEF parent
  <2>3. Instr.parent \notin OwnedBy(Top)
    BY <1>1, <2>2 DEF parent
  <2> QED BY <1>4, <1>5, <1>9, <2>1, <2>2, <2>3 DEF kinds, types, parent, child
<1>10. CASE Top.fn \in Bodies /\ Top.pc = 2
  <2>1. Instr.parent = "arg"
    BY <1>2, <1>10 DEF Parents
  <2>2. parent = stack[2].node
    BY <1>7, <1>10, <2>1 DEF parent
  <2>3. Instr.parent \notin OwnedBy(Top)
    BY <1>7, <1>10, <2>2 DEF HeldNow, parent
  <2>4. parent # child
    BY <1>2, <1>7, <1>10, <2>2 DEF HeldNow, child
  <2> QED BY <1>2, <1>4, <1>5, <1>7, <1>10, <2>2, <2>3, <2>4 DEF kinds, types, parent, child
<1>11. CASE Top.fn \in Bodies /\ Top.pc # 2
  <2>1. Instr.parent = "node" /\ Top.pc # 1
    BY <1>2, <1>11 DEF Parents
  <2>2. Top.pc > 2 /\ Top.pc \notin {1, 2}
    <3>1. Top.pc \in Nat \ {0}
      BY TopTyped DEF OwnerInv
    <3> QED BY <1>11, <2>1, <3>1
  <2>3. parent = Top.node
    BY <2>1 DEF parent
  <2>4. parent \notin Orphans /\ parent # child
    <3>1. nodes[parent].parent \in DOMAIN nodes
      BY <1>7, <1>11, <2>2, <2>3 DEF Orphans
    <3> QED BY <1>3, <1>6, <3>1 DEF Orphans
  <2>5. Instr.parent \notin OwnedBy(Top)
    BY <1>1, <2>4 DEF parent
  <2> QED BY <1>2, <1>3, <1>4, <1>5, <1>11, <2>2, <2>3, <2>4, <2>5 DEF kinds, types, parent, child
<1>12. \/ Top.fn \notin Bodies /\ Instr.parent \in OwnedBy(Top)
       \/ Top.fn = "parse" /\ Instr.parent = "node"
       \/ Top.fn \in Bodies
  BY <1>2 DEF Parents, OwnedBy
<1> QED BY <1>8, <1>9, <1>10, <1>11, <1>12

\* The block of a body comes to the node of the caller, which the caller then finds
\* grown; the calls further out hold other nodes.
LEMMA CallerGrows ==
    ASSUME OwnerInv, AreFamilies(nodes), AreFamilies(nodes'), NEW w, CallsShape(stack, nodes, w),
           NEW g, Goes(g), Top.fn \in Bodies, Top.pc = 2, g.pc \notin {1, 2},
           Len(stack) > 1, "node" \in LiveAt(stack, 2),
           NEW child \in DOMAIN nodes, nodes[child].type = "COMPOUND",
           HasAppended(nodes, nodes', stack[2].node, child)
    PROVE  /\ \A r \in LiveAt(stack, 2) : IsOneOf(nodes', stack[2][r], Seen(stack', 2, w[2])[r])
           /\ \A i \in 3..Len(stack) : \A r \in LiveAt(stack, i) : stack[i][r] # stack[2].node
<1> DEFINE caller == stack[2]
           parent == caller.node
           before == Kinds[caller.fn][w[2]][caller.pc - 1]
           now == Kinds[caller.fn][w[2]][caller.pc]
<1>1. /\ status = "running" /\ stack'[1] = g /\ \A i \in 2..Len(stack) : stack'[i] = stack[i]
  BY DEF Goes, Replaces
<1>2. Len(stack) \in Nat /\ 2 \in 2..Len(stack) /\ 2 \in 1..Len(stack) /\ 1 \in 1..Len(stack) - 1
  <2>1. Len(stack) \in Nat
    BY <1>1, TopOwns
  <2> QED BY <2>1
<1>3. 2 - 1 = 1 /\ 1 + 1 = 2 /\ 2 > 1
  OBVIOUS
<1>4. BodyFits(caller.fn, w[2], caller.pc)
  BY <1>2, <1>3 DEF CallsShape, CallGets, Top
<1>5. Seen(stack, 2, w[2]) = before /\ Seen(stack', 2, w[2]) = now
  <2>1. Hanging(stack, 2)
    BY <1>3 DEF Hanging, Top
  <2>2. ~Hanging(stack', 2)
    BY <1>1, <1>3 DEF Hanging
  <2> QED BY <1>1, <1>2, <2>1, <2>2 DEF Seen
<1>6. /\ \A r \in LiveAt(stack, 2) : IsOneOf(nodes, caller[r], before[r])
      /\ HoldsApart(caller, LiveAt(stack, 2))
  BY <1>2, <1>5 DEF CallsShape, CallHas, OwnerInv, CallsOwn
<1>7. LiveAt(stack, 2) \subseteq Owned[caller.fn][caller.pc]
  BY <1>3 DEF LiveAt, OwnedBy
<1>8. \A i \in 2..Len(stack) : \A r \in LiveAt(stack, i) : stack[i][r] \in DOMAIN nodes
  BY <1>1, OthersHold DEF Orphans
<1>9. /\ OthersSame(nodes, nodes', {parent})
      /\ Children(nodes', parent) = Append(Children(nodes, parent), child)
      /\ DOMAIN nodes' = DOMAIN nodes
      /\ \A n \in DOMAIN nodes : nodes'[n].type = nodes[n].type
  BY DEF HasAppended
<1>10. caller["node"] = parent
  OBVIOUS
<1>11. ASSUME NEW i \in 3..Len(stack), NEW r \in LiveAt(stack, i) PROVE stack[i][r] # parent
  <2>1. i \in 1..Len(stack) /\ i # 2
    BY <1>2
  <2>2. stack[i][r] \in Held(stack)[i] /\ parent \in Held(stack)[2]
    BY <1>2, <1>10, <2>1 DEF Held
  <2>3. Held(stack)[i] \cap Held(stack)[2] = {}
    BY <1>2, <2>1 DEF OwnerInv, CallsOwn, Partition
  <2> QED BY <2>2, <2>3
<1> HIDE DEF caller, parent, before, now
<1>12. ASSUME NEW r \in LiveAt(stack, 2) PROVE IsOneOf(nodes', caller[r], now[r])
  <2>1. CASE r = "node"
    <3>1. parent \in DOMAIN nodes /\ IsOneOf(nodes, parent, before["node"])
      BY <1>2, <1>6, <1>8, <1>10, <2>1 DEF caller
    <3>2. TakeAll(before["node"], {"COMPOUND"})
      BY <1>4 DEF BodyFits, before
    <3>3. IsOneOf(nodes', parent, Grown(before["node"], {"COMPOUND"}))
      BY <1>9, <3>1, <3>2, ParentGrows
    <3>4. \A kind \in Grown(before["node"], {"COMPOUND"}) : Fits(kind, now["node"])
      BY <1>4 DEF BodyFits, before, now
    <3> QED BY <1>9, <1>10, <2>1, <3>1, <3>3, <3>4, FitAreOne
  <2>2. CASE r # "node"
    <3>1. caller[r] \in DOMAIN nodes /\ caller[r] # parent
      BY <1>2, <1>6, <1>8, <1>10, <2>2 DEF caller, HoldsApart
    <3>2. IsOneOf(nodes', caller[r], before[r])
      BY <1>6, <1>9, <3>1, OneKept
    <3>3. \A kind \in before[r] : Fits(kind, now[r])
      BY <1>4, <1>7, <2>2 DEF BodyFits, before, now
    <3> QED BY <1>9, <3>1, <3>2, <3>3, FitAreOne
  <2> QED BY <2>1, <2>2
<1> QED BY <1>5, <1>11, <1>12 DEF caller, parent

\* A node takes a child and loses nothing of its shape.
LEMMA AppendShapes ==
    ASSUME ShapeInv, Ready, NEW g, Appends(g)
    PROVE  Shaped
<1> DEFINE parent == Top[Instr.parent]
           child == Top[Instr.child]
<1>1. /\ Goes(g) /\ Instr.op = "append" /\ LocalsKept(g) /\ status = "running"
      /\ nodes' = AppendChild(nodes, parent, child)
  BY DEF Appends, Goes
<1>2. OwnerInv /\ AreFamilies(nodes) /\ AreFamilies(nodes') /\ AreNodes(nodes) /\ IsFiniteSet(DOMAIN nodes)
  BY DEF ShapeInv, Ready, OwnerInv, TypeInv
<1>3. PICK kids, top, depth : AreTrees(nodes, kids, top, depth)
  BY <1>2 DEF OwnerInv, IsTrees
<1>4. PICK w : CallsShape(stack, nodes, w)
  BY DEF ShapeInv
<1> DEFINE kinds == Now(w)
           after == KindsAfter(Instr, kinds)
           types == TypesOf(kinds[Instr.child])
           Grows == /\ Instr.parent \in OwnedBy(Top) /\ Top.fn \notin Bodies /\ parent \in HeldNow(Top)
                    /\ TakeAll(kinds[Instr.parent], types)
           Lists == /\ Instr.parent \notin OwnedBy(Top) /\ parent \notin Orphans
                    /\ types \subseteq Statements
                    /\ \/ Top.fn = "parse" /\ parent = Root
                       \/ /\ Top.fn \in Bodies /\ Top.pc > 2 /\ parent = Top.node
                          /\ nodes[parent].type = "COMPOUND"
                          /\ Successors(Instr, Top.pc) \cap {1, 2} = {}
           Hosts == /\ Instr.parent \notin OwnedBy(Top) /\ types \subseteq {"COMPOUND"}
                    /\ Top.fn \in Bodies /\ Top.pc = 2 /\ Instr.child = "node"
                    /\ Len(stack) > 1 /\ "node" \in LiveAt(stack, 2) /\ parent = stack[2].node
<1>5. /\ parent \in DOMAIN nodes /\ child \in DOMAIN nodes \ {Root}
      /\ nodes[child].parent = NodeNull /\ child \in Orphans /\ top[parent] # child
      /\ Instr.child \in OwnedBy(Top)
  BY <1>1, <1>2, <1>3, AppendMeets
<1>6. HasAppended(nodes, nodes', parent, child)
  BY <1>1, <1>2, <1>3, <1>5, AppendingKeepsKids
<1>7. /\ HasShape(nodes, child) /\ nodes[child].type \in types /\ parent # child
      /\ Grows \/ Lists \/ Hosts
  BY <1>1, <1>2, <1>4, AppendShows
<1>8. /\ OwnedBy(Top) \subseteq Registers /\ HoldsApart(Top, OwnedBy(Top))
      /\ \A r \in OwnedBy(Top) : Top[r] \in Orphans /\ Top[r] \in DOMAIN nodes /\ Top[r] \in HeldNow(Top)
      /\ IsInstruction(Top.fn, Top.pc)
  BY <1>1, <1>2, TopOwns DEF Orphans, HeldNow
<1>9. OwnedBy(g) = OwnedBy(Top) \ {Instr.child}
  BY <1>1, <1>2, GoneOwns DEF After
<1>10. DOMAIN kinds = Registers /\ \A r \in OwnedBy(Top) : IsOneOf(nodes, Top[r], kinds[r])
  BY <1>1, <1>2, <1>4, TopShows
<1>11. Instr.parent \in Registers
  BY <1>1, <1>8 DEF IsInstruction, Instr
<1>12. g.fn = Top.fn /\ g.pc = Top.pc + 1 /\ g.pc \in Successors(Instr, Top.pc) /\ g.node = Top.node
  BY <1>1 DEF Goes, Successors, LocalsKept, Registers
<1> HIDE DEF kinds
<1>13. after = [kinds EXCEPT ![Instr.parent] = Grown(kinds[Instr.parent], types)]
  BY <1>1 DEF KindsAfter
<1> DEFINE rest == \A r \in OwnedBy(g) : IsOneOf(nodes', g[r], after[r])
<1> HIDE DEF parent, child, types, after
<1>14. /\ OthersSame(nodes, nodes', {parent}) /\ DOMAIN nodes' = DOMAIN nodes
       /\ Children(nodes', parent) = Append(Children(nodes, parent), child)
       /\ \A n \in DOMAIN nodes : nodes'[n].type = nodes[n].type
  BY <1>6 DEF HasAppended
<1>15. Orphans' = Orphans \ {child}
  <2>1. \A n \in DOMAIN nodes : nodes'[n].parent = IF n = child THEN parent ELSE nodes[n].parent
    BY <1>1, <1>2, <1>3, <1>5, AppendJoins DEF parent, child
  <2>2. parent # NodeNull
    BY <1>3, <1>5 DEF AreTrees
  <2> QED BY <1>14, <2>1, <2>2 DEF Orphans
<1>16. ASSUME NEW r \in OwnedBy(g), r # Instr.parent PROVE Top[r] # parent /\ g[r] = Top[r] /\ after[r] = kinds[r]
  <2>1. r \in OwnedBy(Top) /\ r \in Registers
    BY <1>8, <1>9
  <2>2. g[r] = Top[r] /\ after[r] = kinds[r]
    BY <1>1, <1>10, <1>13, <1>16, <2>1 DEF LocalsKept
  <2>3. CASE Grows
    BY <1>8, <1>16, <2>1, <2>2, <2>3 DEF HoldsApart, parent
  <2>4. CASE Lists
    BY <1>8, <2>1, <2>2, <2>4
  <2>5. CASE Hosts
    <3>1. 2 \in 2..Len(stack) /\ parent = stack[2]["node"]
      <4>1. Len(stack) \in Nat
        BY <1>1, <1>2, TopOwns
      <4> QED BY <2>5, <4>1
    <3>2. parent \notin HeldNow(Top)
      BY <1>1, <1>2, <2>5, <3>1, OthersHold
    <3> QED BY <1>8, <2>1, <2>2, <3>2
  <2> QED BY <1>7, <2>3, <2>4, <2>5
<1>17. ASSUME NEW r \in OwnedBy(g), r # Instr.parent PROVE IsOneOf(nodes', g[r], after[r])
  <2>1. r \in OwnedBy(Top)
    BY <1>9
  <2> QED BY <1>8, <1>10, <1>14, <1>16, <1>17, <2>1, OneKept
<1>18. HasShape(nodes', child)
  BY <1>5, <1>7, <1>14, OneKept
<1>19. ASSUME parent \in Orphans \/ HasShape(nodes', parent) PROVE TreeShape(nodes', Orphans')
  <2>1. \A n \in (DOMAIN nodes \ Orphans) \ {parent} : HasShape(nodes', n)
    BY <1>14, OneKept DEF ShapeInv, TreeShape
  <2>2. DOMAIN nodes' \ Orphans' \subseteq (DOMAIN nodes \ Orphans) \cup {child}
    BY <1>14, <1>15
  <2>3. parent \in DOMAIN nodes' \ Orphans' => parent \notin Orphans
    BY <1>7, <1>15
  <2> QED BY <1>14, <1>18, <1>19, <2>1, <2>2, <2>3 DEF ShapeInv, TreeShape, Ready
<1>20. CASE Grows
  <2>1. TreeShape(nodes', Orphans')
    <3>1. parent \in Orphans
      BY <1>8, <1>20 DEF parent
    <3> QED BY <1>19, <3>1
  <2>2. ASSUME NEW r \in OwnedBy(g), r = Instr.parent PROVE IsOneOf(nodes', g[r], after[r])
    <3>1. g[r] = parent /\ after[r] = Grown(kinds[Instr.parent], types)
      BY <1>1, <1>10, <1>11, <1>13, <2>2 DEF LocalsKept, parent
    <3>2. IsOneOf(nodes, parent, kinds[Instr.parent])
      BY <1>10, <1>20 DEF parent
    <3>3. IsOneOf(nodes', parent, Grown(kinds[Instr.parent], types))
      BY <1>2, <1>5, <1>7, <1>14, <1>20, <3>2, ParentGrows DEF parent, child, types
    <3> QED BY <3>1, <3>3
  <2>3. \A r \in OwnedBy(g) : IsOneOf(nodes', g[r], KindsAfter(Instr, Now(w))[r])
    BY <1>17, <2>2 DEF after, kinds
  <2>4. {parent} \cap (Orphans \ HeldNow(Top)) = {}
    BY <1>20
  <2>5. g.fn \notin Bodies
    BY <1>12, <1>20
  <2>6. CallsShape(stack', nodes', w)
    BY <1>1, <1>2, <1>4, <1>14, <2>3, <2>4, <2>5, ShapesGoOn
  <2> QED BY <2>1, <2>6 DEF Shaped
<1>21. CASE Lists
  <2>1. TreeShape(nodes', Orphans')
    <3>1. HasShape(nodes, parent) /\ nodes[child].type \in Statements
      BY <1>5, <1>7, <1>21 DEF ShapeInv, TreeShape, parent
    <3>2. nodes[parent].type \in {"MODULE", "COMPOUND"}
      BY <1>21 DEF ShapeInv, TreeShape
    <3>3. HasShape(nodes', parent)
      BY <1>2, <1>5, <1>6, <3>1, <3>2, ListGrows DEF parent, child
    <3> QED BY <1>19, <3>3
  <2>2. \A r \in OwnedBy(g) : r # Instr.parent
    BY <1>9, <1>21
  <2>3. \A r \in OwnedBy(g) : IsOneOf(nodes', g[r], KindsAfter(Instr, Now(w))[r])
    BY <1>17, <2>2 DEF after, kinds
  <2>4. {parent} \cap (Orphans \ HeldNow(Top)) = {}
    BY <1>21
  <2>5. g.fn \in Bodies =>
           g.pc \notin {1, 2} /\ Top.pc \notin {1, 2} /\ nodes'[g.node].type = "COMPOUND"
    <3> SUFFICES ASSUME g.fn \in Bodies
                 PROVE  g.pc \notin {1, 2} /\ Top.pc \notin {1, 2} /\ nodes'[g.node].type = "COMPOUND"
      OBVIOUS
    <3>1. "parse" \notin Bodies
      BY DEF Bodies
    <3>2. /\ Top.pc > 2 /\ parent = Top.node /\ nodes[parent].type = "COMPOUND"
          /\ Successors(Instr, Top.pc) \cap {1, 2} = {}
      BY <1>12, <1>21, <3>1
    <3>3. g.pc \notin {1, 2} /\ nodes'[g.node].type = "COMPOUND"
      BY <1>5, <1>12, <1>14, <3>2 DEF parent
    <3>4. Top.pc \notin {1, 2}
      BY <3>2
    <3> QED BY <3>3, <3>4
  <2>6. CallsShape(stack', nodes', w)
    BY <1>1, <1>2, <1>4, <1>14, <2>3, <2>4, <2>5, ShapesGoOn
  <2> QED BY <2>1, <2>6 DEF Shaped
<1>22. CASE Hosts
  <2>1. nodes[child].type = "COMPOUND" /\ child = Top.node /\ child \in DOMAIN nodes
    BY <1>5, <1>7, <1>22 DEF child
  <2>2. TreeShape(nodes', Orphans')
    <3>1. parent \in Orphans
      <4>1. Len(stack) \in Nat
        BY <1>1, <1>2, TopOwns
      <4>2. 2 \in 2..Len(stack) /\ parent = stack[2]["node"]
        BY <1>22, <4>1
      <4> QED BY <1>1, <1>2, <1>22, <4>2, OthersHold
    <3> QED BY <1>19, <3>1
  <2>3. \A r \in OwnedBy(g) : r # Instr.parent
    BY <1>9, <1>22
  <2>4. \A r \in OwnedBy(g) : IsOneOf(nodes', g[r], KindsAfter(Instr, Now(w))[r])
    BY <1>17, <2>3 DEF after, kinds
  <2>5. \A r \in OwnedBy(g) : IsOneOf(nodes', g[r], Kinds[g.fn][w[1]][g.pc][r])
    BY <1>1, <1>2, <1>4, <2>4, GoneShows
  <2>6. g.pc \notin {1, 2}
    BY <1>12, <1>22
  <2>7. /\ \A r \in LiveAt(stack, 2) : IsOneOf(nodes', stack[2][r], Seen(stack', 2, w[2])[r])
        /\ \A i \in 3..Len(stack) : \A r \in LiveAt(stack, i) : stack[i][r] \notin {parent}
    <3>1. HasAppended(nodes, nodes', stack[2].node, child)
      BY <1>6, <1>22 DEF parent, child
    <3>2. /\ \A r \in LiveAt(stack, 2) : IsOneOf(nodes', stack[2][r], Seen(stack', 2, w[2])[r])
          /\ \A i \in 3..Len(stack) : \A r \in LiveAt(stack, i) : stack[i][r] # stack[2].node
      BY <1>1, <1>2, <1>4, <1>22, <2>1, <2>6, <3>1, CallerGrows
    <3> QED BY <1>22, <3>2
  <2>8. nodes'[g.node].type = "COMPOUND"
    BY <1>12, <1>14, <2>1
  <2>9. CallsShape(stack', nodes', w)
    BY <1>1, <1>2, <1>4, <1>14, <2>5, <2>7, <2>8, ShapesGo
  <2> QED BY <2>2, <2>9 DEF Shaped
<1> QED BY <1>7, <1>20, <1>21, <1>22

\* A call and a return leave the nodes alone.
LEMMA TurnShapes ==
    ASSUME ShapeInv, Ready, UNCHANGED nodes, \E w : CallsShape(stack', nodes, w)
    PROVE  Shaped
<1>1. Orphans' = Orphans /\ nodes' = nodes
  BY DEF Orphans
<1> QED BY <1>1 DEF Shaped, ShapeInv

LEMMA CallShapes ==
    ASSUME ShapeInv, Ready, NEW g, NEW callee, NEW arg, NEW into, NEW min,
           Enters(g, callee, arg, into, min)
    PROVE  Shaped
<1>1. PICK w : CallsShape(stack, nodes, w)
  BY DEF ShapeInv
<1>2. OwnerInv /\ AreFamilies(nodes) /\ UNCHANGED nodes
  BY DEF ShapeInv, Ready, Enters
<1>3. \E w2 : CallsShape(stack', nodes, w2)
  BY <1>1, <1>2, ShapesPush
<1> QED BY <1>2, <1>3, TurnShapes

LEMMA ReturnShapes ==
    ASSUME ShapeInv, Ready, NEW g, ReturnsNode(g) \/ ReturnsVartype(g)
    PROVE  Shaped
<1>1. PICK w : CallsShape(stack, nodes, w)
  BY DEF ShapeInv
<1>2. OwnerInv /\ AreFamilies(nodes)
  BY DEF ShapeInv, Ready
<1>3. UNCHANGED nodes
  BY <1>2, ReturnMeets
<1>4. \E w2 : CallsShape(stack', nodes, w2)
  BY <1>1, <1>2, ShapesPop
<1> QED BY <1>3, <1>4, TurnShapes

\* No call is left.
LEMMA EndShapes ==
    ASSUME ShapeInv, Ready, Ends
    PROVE  Shaped
<1>1. stack' = <<>> /\ UNCHANGED nodes
  BY DEF Ends
<1>2. Len(stack') = 0 /\ (\A i \in 1..0 : FALSE) /\ (\A i \in 1..0 - 1 : FALSE)
  BY <1>1
<1>3. \A w : CallsShape(stack', nodes, w)
  BY <1>2 DEF CallsShape
<1> QED BY <1>1, <1>3, TurnShapes

\* Each step keeps the shapes.
LEMMA StepsShape ==
    ASSUME ShapeInv, Ready, Does
    PROVE  Shaped
<1>1. CASE Waits
  <2>1. UNCHANGED nodes /\ stack' = stack
    BY <1>1 DEF Waits
  <2>2. \E w : CallsShape(stack', nodes, w)
    BY <2>1 DEF ShapeInv
  <2> QED BY <2>1, <2>2, TurnShapes
<1>2. CASE \E g : Advances(g) \/ Moves(g) \/ NamesMember(g) \/ Appends(g)
  BY <1>2, AdvanceShapes, MoveShapes, NameShapes, AppendShapes
<1>3. CASE \E g : ReturnsNode(g) \/ ReturnsVartype(g)
  BY <1>3, ReturnShapes
<1>4. CASE \E g, node : Adds(g, node) \/ AddsMember(g, node)
  BY <1>4, AddShapes, AddMemberShapes
<1>5. CASE \E g, callee, arg, into, min : Enters(g, callee, arg, into, min)
  BY <1>5, CallShapes
<1> QED BY <1>1, <1>2, <1>3, <1>4, <1>5, EndShapes DEF Does

\* The loop over the children ends in every state.
LEMMA FamiliesMet == OwnerInv => AreFamilies(nodes)
BY ArenaIsFinite, TreesHaveFamilies DEF OwnerInv

LEMMA StepIsReady ==
    ASSUME StatementsAreFinished, OwnerInv, ParserStep
    PROVE  Ready /\ Does /\ OwnerInv'
<1>1. Does /\ TypeInv /\ status = "running" /\ OwnerInv'
  BY StatusSteps, StepsDo, OwnerStep DEF OwnerInv
<1>2. Kept
  BY <1>1, StepsKeep
<1>3. IsFiniteSet(DOMAIN nodes) /\ AreFamilies(nodes)
  BY ArenaIsFinite, FamiliesMet
<1>4. (OwnerInv => AreFamilies(nodes))'
  BY FamiliesMet, PTL
<1>5. Root \in DOMAIN nodes /\ Root \notin Orphans
  <2>1. PICK kids, top, depth : AreTrees(nodes, kids, top, depth)
    BY DEF OwnerInv, IsTrees
  <2> QED BY <2>1 DEF AreTrees, Orphans
<1>6. \A n \in DOMAIN nodes : n \in DOMAIN nodes' /\ nodes'[n].type = nodes[n].type
  BY <1>1, ArenaSteps DEF ArenaTyped
<1> QED BY <1>1, <1>2, <1>3, <1>4, <1>5, <1>6 DEF Ready

LEMMA ShapeStep ==
    ASSUME StatementsAreFinished, ShapeInv, ParserStep
    PROVE  ShapeInv'
<1>1. Ready /\ Does /\ OwnerInv'
  BY StepIsReady DEF ShapeInv
<1>2. Shaped
  BY <1>1, StepsShape
<1> QED BY <1>1, <1>2 DEF ShapeInv, Shaped

LEMMA ShapeStart ==
    ASSUME StatementsAreFinished, StartParse
    PROVE  ShapeInv
<1> DEFINE f == Frame("parse", Root, Unset, 0, "node")
           w == [i \in {1} |-> Names]
<1>1. OwnerInv /\ stack = <<f>> /\ nodes = ClearedNodes
  BY OwnerStart DEF StartParse
<1>2. f.fn = "parse" /\ f.pc = 1
  BY DEF Frame
<1>3. Len(stack) = 1 /\ stack[1] = f
  <2> HIDE DEF f
  <2> QED BY <1>1, StackOf
<1> HIDE DEF f
<1>4. DOMAIN nodes = {Root} /\ nodes[Root].type = "MODULE" /\ nodes[Root].first_child = NodeNull
  <2>1. DOMAIN ClearedNodes = {Root} /\ ClearedNodes[Root] = NewNode("MODULE", "", "", 0)
    BY DEF ClearedNodes
  <2>2. NewNode("MODULE", "", "", 0).type = "MODULE" /\ NewNode("MODULE", "", "", 0).first_child = NodeNull
    BY DEF NewNode
  <2> QED BY <1>1, <2>1, <2>2
<1>5. HasShape(nodes, Root)
  <2>1. Children(nodes, Root) = <<>>
    BY <1>4 DEF Children
  <2> QED BY <1>4, <2>1 DEF HasShape
<1>6. OwnedBy(f) = {}
  <2>1. "parse" \in DOMAIN Program
    BY DEF Program
  <2>2. Owned["parse"][1] = Passed("parse", "arg")
    BY <2>1, ProgramsOwnRight
  <2> QED BY <1>2, <2>2 DEF OwnedBy, Passed, Receivers
<1>7. CallHas(stack, nodes, w, 1)
  <2>1. "parse" \notin Bodies /\ w[1] = Names /\ Names \in Classes("parse")
    BY DEF Bodies, Classes
  <2> HIDE DEF w
  <2>2. LiveAt(stack, 1) = {}
    BY <1>3, <1>6 DEF LiveAt
  <2> QED BY <1>2, <1>3, <2>1, <2>2 DEF CallHas
<1> HIDE DEF w
<1>8. (\A i \in 1..1 : i = 1) /\ (\A i \in 1..1 - 1 : FALSE)
  OBVIOUS
<1>9. CallsShape(stack, nodes, w)
  BY <1>3, <1>7, <1>8 DEF CallsShape
<1>10. TreeShape(nodes, Orphans)
  BY <1>4, <1>5 DEF TreeShape
<1> QED BY <1>1, <1>9, <1>10 DEF ShapeInv

LEMMA ShapeStutters ==
    ASSUME ShapeInv, UNCHANGED parserVars
    PROVE  ShapeInv'
<1>1. /\ UNCHANGED <<stack, nodes>> /\ OwnerInv'
  BY OwnerStutters DEF parserVars, ShapeInv
<1> QED BY <1>1 DEF ShapeInv, Orphans

\* ShapeInv holds in all the states of such a module.
LEMMA ShapesKept ==
    ASSUME StatementsAreFinished
    PROVE  Spec => []ShapeInv
<1>1. StartParse => ShapeInv
  BY ShapeStart
<1>2. ShapeInv /\ [ParserStep]_parserVars => ShapeInv'
  BY ShapeStep, ShapeStutters
<1> QED BY <1>1, <1>2, PTL DEF Spec

\* What a successful parse leaves in the arena is the tree of the module and nothing
\* else, and every node of it has the children its type asks for: the conditions and
\* blocks of an if alternate, a call begins with its callee, a block holds statements
\* and operands are expressions. The passes after the parser rely on it
\* (parser.h:283-913).
THEOREM TreeIsComplete ==
    ASSUME StatementsAreFinished
    PROVE  Spec => []TreeComplete
<1>1. ShapeInv => TreeComplete
  <2> SUFFICES ASSUME ShapeInv, status = "done"
               PROVE  /\ Subtree(nodes, Root) = DOMAIN nodes
                      /\ \A n \in DOMAIN nodes : HasShape(nodes, n)
    BY DEF TreeComplete
  <2>1. OwnerInv
    BY DEF ShapeInv
  <2>2. Orphans = {}
    <3>1. Len(stack) = 0
      BY <2>1 DEF OwnerInv, TypeInv
    <3>2. \A i \in 1..Len(stack) : FALSE
      BY <3>1
    <3> QED BY <2>1, <3>2 DEF OwnerInv, CallsOwn, Partition
  <2> QED BY <2>1, <2>2, WholeTree DEF ShapeInv, TreeShape
<1> QED BY <1>1, ShapesKept, PTL

\* What a successful parse leaves is what module Compiler assumes of the trees it is
\* given: the resolver of symbols and the resolver of archetypes start from such a tree
\* (compiler.h:101-116).
DeliversModule ==
    status = "done" => IsModule(nodes) /\ Cardinality(DOMAIN nodes) <= NodeCapacity

THEOREM ModuleDelivered ==
    ASSUME StatementsAreFinished
    PROVE  Spec => []DeliversModule
<1>1. ShapeInv /\ TreeComplete => DeliversModule
  <2> SUFFICES ASSUME ShapeInv, TreeComplete, status = "done"
               PROVE  IsModule(nodes) /\ Cardinality(DOMAIN nodes) <= NodeCapacity
    BY DEF DeliversModule
  <2>1. OwnerInv /\ nodes[Root].type = "MODULE"
    BY DEF ShapeInv, TreeShape
  <2>2. /\ Subtree(nodes, Root) = DOMAIN nodes
        /\ \A n \in DOMAIN nodes : HasShape(nodes, n)
    BY DEF TreeComplete
  <2>3. PICK kids, top, depth : AreTrees(nodes, kids, top, depth)
    BY <2>1 DEF OwnerInv, IsTrees
  <2>4. IsForest(nodes) /\ IsFiniteSet(DOMAIN nodes) /\ AreFamilies(nodes)
    BY <2>1, <2>3, ArenaIsFinite, FamiliesMet, TreesAreForest
  <2>5. /\ DOMAIN nodes = 0..(node_count - 1) /\ node_count \in 1..NodeCapacity
        /\ node_count \in Nat /\ NodeCapacity \in Nat /\ 0 <= node_count - 1
    <3>1. /\ DOMAIN nodes = 0..(node_count - 1)
          /\ node_count \in 1..NodeCapacity
      BY <2>1 DEF OwnerInv, TypeInv, TypeOK
    <3>2. NodeCapacity \in Nat
      BY CapacityAssumption
    <3> QED BY <3>1, <3>2
  <2>6. Cardinality(DOMAIN nodes) <= NodeCapacity
    <3>1. Cardinality(0..(node_count - 1)) =
             IF 0 > node_count - 1 THEN 0 ELSE (node_count - 1) - 0 + 1
      BY <2>5, FS_Interval
    <3> QED BY <2>5, <3>1
  <2>7. Unset \notin DOMAIN nodes
    BY <2>5 DEF Unset
  <2>8. \A n \in DOMAIN nodes :
           nodes[n].parent \in DOMAIN nodes \cup {NodeNull} /\ Root \in Ancestors(nodes, n)
    BY <2>2, <2>3 DEF AreTrees, Placed, Subtree
  <2>9. OneTree(nodes)
    BY <2>3, <2>4, <2>7, <2>8 DEF OneTree, AreTrees
  <2> QED BY <2>1, <2>2, <2>4, <2>6, <2>9 DEF IsModule, AreFamilies
<1> QED BY <1>1, ShapesKept, TreeIsComplete, PTL

-------------------------------------------------------------------------------
(* Operators. The operand on the left of an operator was complete when the  *)
(* operator was looked at, the one on the right took every operator that    *)
(* binds tighter: what is between them and the operator is a parenthesis or *)
(* an operator that binds less.                                             *)

\* The text of the three functions of an expression, instruction by instruction.
Joins(S, u, s, t, m, n) ==
    /\ u \in Seq(S) /\ Len(u) = m + n
    /\ \A i \in 1..m : u[i] = s[i]
    /\ \A i \in 1..n : u[m + i] = t[i]

LEMMA JoinsAre ==
    ASSUME NEW S, NEW s, NEW t, NEW m, NEW n, m \in Nat, n \in Nat,
           s \in Seq(S), t \in Seq(S), Len(s) = m, Len(t) = n
    PROVE  Joins(S, s \o t, s, t, m, n)
<1> DEFINE u == s \o t
<1>1. u \in Seq(S) /\ Len(u) = m + n
      /\ \A i \in 1..(m + n) : u[i] = IF i <= m THEN s[i] ELSE t[i - m]
  BY ConcatProperties
<1> HIDE DEF u
<1>2. \A i \in 1..m : u[i] = s[i]
  BY <1>1
<1>3. ASSUME NEW i \in 1..n PROVE u[m + i] = t[i]
  <2>1. m + i \in 1..(m + n) /\ ~(m + i <= m) /\ (m + i) - m = i
    OBVIOUS
  <2> QED BY <1>1, <2>1
<1> QED BY <1>1, <1>2, <1>3 DEF u, Joins

LEMMA ExprText ==
    LET p == Program["expr"] IN
    /\ DOMAIN p = 1..10
    /\ p[1] = Call("primary", "node", "lhs")
    /\ p[2].op = "test" /\ p[2].kind = "binop" /\ p[2].by = 7
    /\ p[3] = Consume
    /\ p[4] = ParseExpr(RightOperand, "ret")
    /\ p[5] = Add("BINOP", "tok")
    /\ p[6] = Adopt("lhs")
    /\ p[7] = Adopt("ret")
    /\ p[8] = Move("node", "lhs")
    /\ p[9].op = "skip" /\ p[9].by = -8
    /\ p[10] = Return("lhs")
<1>1. Program["expr"] = ParseExprBody
  BY DEF Program
<1> DEFINE body == <<Consume, ParseExpr(RightOperand, "ret"), Add("BINOP", "tok"),
                    Adopt("lhs"), Adopt("ret"), Move("node", "lhs")>>
           test == [Test("binop", {}, 0) EXCEPT !.by = 7]
           back == Skip(-8)
<1>2. ParseExprBody = <<Call("primary", "node", "lhs")>> \o (<<test>> \o body \o <<back>>) \o <<Return("lhs")>>
  BY DEF ParseExprBody, WhileBinop, Loop
<1>3. test.op = "test" /\ test.kind = "binop" /\ test.by = 7 /\ back.op = "skip" /\ back.by = -8
  BY DEF Test, Skip
<1> HIDE DEF test, back
<1> DEFINE call == <<Call("primary", "node", "lhs")>>
           return == <<Return("lhs")>>
           loop == <<test>> \o body \o <<back>>
           I == {call[1], return[1], test, back} \cup {body[i] : i \in 1..6}
<1>4. /\ Len(call) = 1 /\ Len(<<test>>) = 1 /\ Len(body) = 6 /\ Len(<<back>>) = 1 /\ Len(return) = 1
      /\ call \in Seq(I) /\ <<test>> \in Seq(I) /\ body \in Seq(I) /\ <<back>> \in Seq(I) /\ return \in Seq(I)
      /\ body[1] = Consume /\ body[2] = ParseExpr(RightOperand, "ret") /\ body[3] = Add("BINOP", "tok")
      /\ body[4] = Adopt("lhs") /\ body[5] = Adopt("ret") /\ body[6] = Move("node", "lhs")
  OBVIOUS
<1>5. /\ <<test>>[1] = test /\ <<back>>[1] = back
      /\ call[1] = Call("primary", "node", "lhs") /\ return[1] = Return("lhs")
  OBVIOUS
<1> DEFINE p == Program["expr"]
<1>6. p = call \o loop \o return
  BY <1>1, <1>2
<1> HIDE DEF body, call, return, I
<1> DEFINE front == <<test>> \o body
<1>7. Joins(I, front, <<test>>, body, 1, 6)
  BY <1>4, JoinsAre
<1> HIDE DEF front
<1>8. Joins(I, loop, front, <<back>>, 7, 1)
  <2>1. front \in Seq(I) /\ Len(front) = 7
    BY <1>7 DEF Joins
  <2> QED BY <1>4, <1>7, <2>1, JoinsAre DEF front
<1> HIDE DEF loop
<1> DEFINE most == call \o loop
<1>9. Joins(I, most, call, loop, 1, 8)
  <2>1. loop \in Seq(I) /\ Len(loop) = 8
    BY <1>8 DEF Joins
  <2> QED BY <1>4, <1>8, <2>1, JoinsAre
<1>10. p = most \o return
  BY <1>6
<1> HIDE DEF most, p
<1>11. Joins(I, p, most, return, 9, 1)
  <2>1. most \in Seq(I) /\ Len(most) = 9
    BY <1>9 DEF Joins
  <2> QED BY <1>4, <1>9, <1>10, <2>1, JoinsAre
<1>12. DOMAIN p = 1..10
  BY <1>11 DEF Joins
<1>13. /\ front[1] = test /\ front[2] = body[1] /\ front[3] = body[2] /\ front[4] = body[3]
       /\ front[5] = body[4] /\ front[6] = body[5] /\ front[7] = body[6]
  BY <1>7, <1>5 DEF Joins
<1>14. /\ loop[1] = test /\ loop[2] = body[1] /\ loop[3] = body[2] /\ loop[4] = body[3]
       /\ loop[5] = body[4] /\ loop[6] = body[5] /\ loop[7] = body[6] /\ loop[8] = back
  BY <1>8, <1>13, <1>5 DEF Joins
<1>15. /\ p[1] = call[1] /\ p[2] = test /\ p[3] = body[1] /\ p[4] = body[2] /\ p[5] = body[3]
       /\ p[6] = body[4] /\ p[7] = body[5] /\ p[8] = body[6] /\ p[9] = back /\ p[10] = return[1]
  BY <1>9, <1>11, <1>14 DEF Joins
<1> QED BY <1>3, <1>4, <1>5, <1>12, <1>15 DEF p

LEMMA PrimaryText ==
    /\ Program["primary"] = ParsePrimary /\ Program["primary_paren"] = PrimaryParen
    /\ DOMAIN ParsePrimary = 1..2 /\ ParsePrimary[1].op = "switch" /\ ParsePrimary[2] = Return("ret")
    /\ DOMAIN PrimaryParen = 1..4
    /\ PrimaryParen[1] = Consume /\ PrimaryParen[2] = ParseExpr(1, "ret") /\ PrimaryParen[3] = Expect("rparen")
    /\ PrimaryParen[4] = Return("ret")
    /\ ParsePrimary[1].default = "atom"
    /\ \A t \in DOMAIN ParsePrimary[1].targets :
          ParsePrimary[1].targets[t] \in {"primary_unop", "unexpected_binop", "primary_paren"}
    /\ \A t \in DOMAIN ParsePrimary[1].targets :
          ParsePrimary[1].targets[t] = "primary_paren" => t = "lparen"
<1>1. Program["primary"] = ParsePrimary /\ Program["primary_paren"] = PrimaryParen
  BY DEF Program
<1>2. /\ DOMAIN PrimaryParen = 1..4
      /\ PrimaryParen[1] = Consume /\ PrimaryParen[2] = ParseExpr(1, "ret") /\ PrimaryParen[3] = Expect("rparen")
      /\ PrimaryParen[4] = Return("ret")
  BY DEF PrimaryParen
<1>3. DOMAIN ParsePrimary = 1..2 /\ ParsePrimary[1].op = "switch" /\ ParsePrimary[2] = Return("ret")
  BY DEF ParsePrimary, Switch
<1>4. /\ ParsePrimary[1].default = "atom"
      /\ \A t \in DOMAIN ParsePrimary[1].targets :
            ParsePrimary[1].targets[t] \in {"primary_unop", "unexpected_binop", "primary_paren"}
      /\ \A t \in DOMAIN ParsePrimary[1].targets :
            ParsePrimary[1].targets[t] = "primary_paren" => t = "lparen"
  BY DEF ParsePrimary, Switch
<1> QED BY <1>1, <1>2, <1>3, <1>4

BinopAt(tree, n) == n \in DOMAIN tree /\ tree[n].type = "BINOP"
Says(text, at, type) == at \in 1..Len(text) /\ text[at].type = type
Binds(type, min) == type \in Binops /\ Precedence(type) >= min
Below(type, min) == type # "none" /\ ~Binds(type, min)

\* n may be the left operand of an operator of this type, which is the token at "at";
\* n may be what an expression of this minimal precedence is, which begins at "at".
LeftFits(tree, text, n, op, at) ==
    BinopAt(tree, n) => Says(text, at - 1, "rparen") \/ Below(op, NextMin(tree[n].value))
RightFits(tree, text, n, min, at) ==
    BinopAt(tree, n) => Says(text, at, "lparen") \/ Precedence(tree[n].value) >= min

OperatorFits(tree, text, n) ==
    LET kids == Children(tree, n)
        op == tree[n].value
        at == tree[n].span
    IN /\ op \in Binops
       /\ Len(kids) = 2 => /\ LeftFits(tree, text, kids[1], op, at)
                           /\ RightFits(tree, text, kids[2], NextMin(op), at + 1)
Nested(tree, text) == \A n \in DOMAIN tree : tree[n].type = "BINOP" => OperatorFits(tree, text, n)

\* The running call is f, its first token is the s-th.
HasOperator(f, text) == Binds(f.tok.type, f.min) /\ f.tok.at \in 1..Len(text)
ExprRuns(f, s, tree, text, token) ==
    /\ f.pc \in {2, 3, 9, 10} => /\ RightFits(tree, text, f.lhs, f.min, s)
                                 /\ LeftFits(tree, text, f.lhs, token.type, Len(text) + 1)
    /\ f.pc = 3 => Binds(token.type, f.min)
    /\ f.pc = 10 => Below(token.type, f.min)
    /\ f.pc \in 4..8 => HasOperator(f, text)
    /\ f.pc = 4 => f.tok.at = Len(text)
    /\ f.pc \in 4..7 => LeftFits(tree, text, f.lhs, f.tok.type, f.tok.at)
    /\ f.pc \in 5..8 => Below(token.type, NextMin(f.tok.type))
    /\ f.pc \in 5..7 => RightFits(tree, text, f.ret, NextMin(f.tok.type), f.tok.at + 1)
    /\ f.pc \in 6..8 => /\ BinopAt(tree, f.node)
                        /\ tree[f.node].value = f.tok.type /\ tree[f.node].span = f.tok.at
    /\ f.pc = 6 => Children(tree, f.node) = <<>>
    /\ f.pc = 7 => Children(tree, f.node) = <<f.lhs>>
ParenRuns(f, s, text, token) ==
    /\ IF f.pc = 1 THEN token.type = "lparen" ELSE Says(text, s, "lparen")
    /\ f.pc = 4 => Says(text, Len(text), "rparen")
PrimaryRuns(f, s, tree, text) ==
    f.pc = 2 /\ BinopAt(tree, f.ret) => Says(text, s, "lparen") /\ Says(text, Len(text), "rparen")
Running(f, s, tree, text, token) ==
    /\ f.fn \in {"expr", "primary", "primary_paren"} /\ f.pc = 1 => s = Len(text) + 1
    /\ f.fn = "expr" => ExprRuns(f, s, tree, text, token)
    /\ f.fn = "primary_paren" => ParenRuns(f, s, text, token)
    /\ f.fn = "primary" => PrimaryRuns(f, s, tree, text)

\* f waits for the call of this function, whose first token is the t-th.
Operates(f, fn, into, min, t, tree, text) ==
    /\ f.pc = 5 /\ fn = "expr" /\ into = "ret" /\ min = NextMin(f.tok.type) /\ t = f.tok.at + 1
    /\ HasOperator(f, text) /\ LeftFits(tree, text, f.lhs, f.tok.type, f.tok.at)
Waiting(f, s, fn, into, min, t, tree, text) ==
    /\ f.fn = "expr" => \/ f.pc = 2 /\ fn = "primary" /\ into = "lhs" /\ t = s
                        \/ Operates(f, fn, into, min, t, tree, text)
    /\ f.fn = "primary" =>
          /\ f.pc = 2 /\ into = "ret" /\ t = s
          /\ fn \in {"primary_paren", "primary_unop", "unexpected_binop", "atom"}
    /\ f.fn = "primary_paren" =>
          f.pc = 3 /\ fn = "expr" /\ into = "ret" /\ Says(text, s, "lparen")

CallsNest(calls, s, tree, text, token) ==
    /\ Len(calls) > 0 => Running(calls[1], s[1], tree, text, token)
    /\ \A i \in 1..Len(calls) - 1 :
          Waiting(calls[i + 1], s[i + 1], calls[i].fn, calls[i].into, calls[i].min, s[i], tree, text)

\* The inductive invariant.
Reading == IsStack(consumed) /\ (look # NoToken => look.at = Len(consumed) + 1)
Nests ==
    /\ Nested(nodes, consumed)
    /\ status = "running" => \E s : CallsNest(stack, s, nodes, consumed, look)
NestInv == ShapeInv /\ Reading /\ Nests

\* The text goes on, and the tree keeps its operators.
TextGrows(text, more) ==
    /\ IsStack(text) /\ IsStack(more) /\ Len(text) <= Len(more)
    /\ \A i \in 1..Len(text) : more[i] = text[i]
BinopsKept(tree, new, ids) ==
    \A n \in ids : /\ BinopAt(tree, n) => BinopAt(new, n)
                   /\ BinopAt(new, n) => /\ BinopAt(tree, n)
                                         /\ new[n].value = tree[n].value
                                         /\ new[n].span = tree[n].span

LEMMA TextStays == ASSUME NEW text, IsStack(text) PROVE TextGrows(text, text)
BY DEF TextGrows, IsStack

LEMMA TextGoesOn ==
    ASSUME NEW text, IsStack(text), NEW token
    PROVE  LET more == Append(text, token)
           IN TextGrows(text, more) /\ Len(more) = Len(text) + 1 /\ more[Len(more)] = token
<1> DEFINE S == Elements(text) \cup {token}
           more == Append(text, token)
<1>1. text \in Seq(S) /\ Len(text) \in Nat
  BY SeqMonotonic DEF IsStack
<1>2. token \in S
  OBVIOUS
<1> HIDE DEF S
<1>3. /\ more \in Seq(S) /\ Len(more) = Len(text) + 1 /\ more[Len(text) + 1] = token
      /\ \A i \in 1..Len(text) : more[i] = text[i]
  BY <1>1, <1>2, AppendProperties
<1>4. IsStack(more)
  BY <1>3, StackOf
<1> HIDE DEF more
<1>5. Len(text) <= Len(more)
  BY <1>1, <1>3
<1> QED BY <1>3, <1>4, <1>5 DEF TextGrows, more

LEMMA SaysOn ==
    ASSUME NEW text, NEW more, TextGrows(text, more), NEW at, NEW type, Says(text, at, type)
    PROVE  Says(more, at, type)
<1>1. at \in 1..Len(text) /\ Len(text) \in Nat /\ Len(more) \in Nat /\ Len(text) <= Len(more)
  BY DEF Says, TextGrows, IsStack
<1>2. at \in 1..Len(more)
  BY <1>1
<1> QED BY <1>1, <1>2 DEF Says, TextGrows

LEMMA OperandsOn ==
    ASSUME NEW tree, NEW new, NEW ids, BinopsKept(tree, new, ids), NEW n \in ids,
           NEW text, NEW more, TextGrows(text, more), NEW at
    PROVE  /\ \A op : LeftFits(tree, text, n, op, at) => LeftFits(new, more, n, op, at)
           /\ \A min : RightFits(tree, text, n, min, at) => RightFits(new, more, n, min, at)
<1>1. BinopAt(new, n) => BinopAt(tree, n) /\ new[n].value = tree[n].value
  BY DEF BinopsKept
<1>2. ASSUME NEW op, LeftFits(tree, text, n, op, at) PROVE LeftFits(new, more, n, op, at)
  <2>1. Says(text, at - 1, "rparen") => Says(more, at - 1, "rparen")
    BY SaysOn
  <2> QED BY <1>1, <1>2, <2>1 DEF LeftFits
<1>3. ASSUME NEW min, RightFits(tree, text, n, min, at) PROVE RightFits(new, more, n, min, at)
  <2>1. Says(text, at, "lparen") => Says(more, at, "lparen")
    BY SaysOn
  <2> QED BY <1>1, <1>3, <2>1 DEF RightFits
<1> QED BY <1>2, <1>3

\* A caller waits on.
LEMMA WaitingOn ==
    ASSUME NEW tree, NEW new, NEW ids, BinopsKept(tree, new, ids),
           NEW text, NEW more, TextGrows(text, more),
           NEW f, f.lhs \in ids, NEW s, NEW fn, NEW into, NEW min, NEW t,
           Waiting(f, s, fn, into, min, t, tree, text)
    PROVE  Waiting(f, s, fn, into, min, t, new, more)
<1>1. ASSUME Operates(f, fn, into, min, t, tree, text)
      PROVE  Operates(f, fn, into, min, t, new, more)
  <2>1. LeftFits(new, more, f.lhs, f.tok.type, f.tok.at)
    BY <1>1, OperandsOn DEF Operates
  <2>2. f.tok.at \in 1..Len(more)
    <3>1. f.tok.at \in 1..Len(text) /\ Len(text) \in Nat /\ Len(more) \in Nat /\ Len(text) <= Len(more)
      BY <1>1 DEF Operates, HasOperator, TextGrows, IsStack
    <3> QED BY <3>1
  <2> QED BY <1>1, <2>1, <2>2 DEF Operates, HasOperator
<1>2. Says(text, s, "lparen") => Says(more, s, "lparen")
  BY SaysOn
<1> QED BY <1>1, <1>2 DEF Waiting

\* An operator with the same operands.
LEMMA OperatorOn ==
    ASSUME NEW tree, NEW new, AreFamilies(tree), BinopsKept(tree, new, DOMAIN tree),
           NEW text, NEW more, TextGrows(text, more),
           NEW n \in DOMAIN tree, SameKids(tree, new, n), new[n].type = "BINOP",
           Nested(tree, text)
    PROVE  OperatorFits(new, more, n)
<1> DEFINE kids == Children(tree, n)
           op == tree[n].value
           at == tree[n].span
<1>1. tree[n].type = "BINOP" /\ Children(new, n) = kids
  BY DEF SameKids
<1>2. new[n].value = op /\ new[n].span = at
  <2>1. BinopAt(tree, n)
    BY <1>1 DEF BinopAt
  <2>2. BinopAt(new, n)
    BY <2>1 DEF BinopsKept
  <2> QED BY <2>2 DEF BinopsKept
<1>3. OperatorFits(tree, text, n)
  BY <1>1 DEF Nested
<1>4. ASSUME Len(kids) = 2
      PROVE  /\ LeftFits(new, more, kids[1], op, at)
             /\ RightFits(new, more, kids[2], NextMin(op), at + 1)
  <2>1. kids[1] \in DOMAIN tree /\ kids[2] \in DOMAIN tree
    BY <1>4 DEF AreFamilies
  <2>2. LeftFits(tree, text, kids[1], op, at) /\ RightFits(tree, text, kids[2], NextMin(op), at + 1)
    BY <1>3, <1>4 DEF OperatorFits
  <2> HIDE DEF kids, op, at
  <2> QED BY <2>1, <2>2, OperandsOn
<1>5. op \in Binops
  BY <1>3 DEF OperatorFits
<1> HIDE DEF kids, op, at
<1> QED BY <1>1, <1>2, <1>4, <1>5 DEF OperatorFits

\* The running call goes on; the others wait as before.
LEMMA GoNests ==
    ASSUME NestInv, NEW g, Goes(g), BinopsKept(nodes, nodes', Ids), TextGrows(consumed, consumed'),
           \A t : Running(Top, t, nodes, consumed, look) => Running(g, t, nodes', consumed', look')
    PROVE  \E s : CallsNest(stack', s, nodes', consumed', look')
<1>1. /\ status = "running" /\ stack'[1] = g /\ Len(stack') = Len(stack)
      /\ \A i \in 2..Len(stack) : stack'[i] = stack[i]
      /\ g.fn = Top.fn /\ g.into = Top.into /\ g.min = Top.min
  BY DEF Goes, Replaces
<1>2. PICK s : CallsNest(stack, s, nodes, consumed, look)
  BY <1>1 DEF NestInv, Nests
<1>3. Len(stack) \in Nat /\ Len(stack) # 0 /\ \A i \in 1..Len(stack) : FrameOK(stack[i], Ids)
  BY <1>1, TopTyped DEF NestInv, ShapeInv, OwnerInv
<1>4. Running(g, s[1], nodes', consumed', look')
  <2>1. Len(stack) > 0
    BY <1>3
  <2> QED BY <1>2, <2>1 DEF CallsNest, Top
<1>5. ASSUME NEW i \in 1..Len(stack) - 1
      PROVE  Waiting(stack'[i + 1], s[i + 1], stack'[i].fn, stack'[i].into, stack'[i].min, s[i],
                     nodes', consumed')
  <2>1. i + 1 \in 2..Len(stack) /\ i + 1 \in 1..Len(stack) /\ (i = 1 \/ i \in 2..Len(stack))
    BY <1>3
  <2>2. stack'[i + 1] = stack[i + 1]
    BY <1>1, <2>1
  <2>3. stack'[i].fn = stack[i].fn /\ stack'[i].into = stack[i].into /\ stack'[i].min = stack[i].min
    BY <1>1, <2>1 DEF Top
  <2>4. Waiting(stack[i + 1], s[i + 1], stack[i].fn, stack[i].into, stack[i].min, s[i], nodes, consumed)
    BY <1>2 DEF CallsNest
  <2>5. stack[i + 1].lhs \in Ids
    BY <1>3, <2>1 DEF FrameOK, Registers
  <2> QED BY <2>2, <2>3, <2>4, <2>5, WaitingOn
<1> QED BY <1>1, <1>4, <1>5 DEF CallsNest

\* A call is made with the next token.
LEMMA EnterNests ==
    ASSUME NestInv, status = "running", NEW f, NEW g, Pushes(stack, stack', f, g),
           UNCHANGED <<nodes, consumed, look>>,
           g.fn = Top.fn, g.into = Top.into, g.min = Top.min,
           \A t : Running(Top, t, nodes, consumed, look) =>
                      /\ Running(f, Len(consumed) + 1, nodes, consumed, look)
                      /\ Waiting(g, t, f.fn, f.into, f.min, Len(consumed) + 1, nodes, consumed)
    PROVE  \E s : CallsNest(stack', s, nodes', consumed', look')
<1>1. /\ stack'[1] = f /\ stack'[2] = g /\ Len(stack') = Len(stack) + 1
      /\ \A i \in 3..Len(stack) + 1 : stack'[i] = stack[i - 1]
  BY DEF Pushes
<1>2. PICK s : CallsNest(stack, s, nodes, consumed, look)
  BY DEF NestInv, Nests
<1>3. Len(stack) \in Nat /\ Len(stack) # 0
  BY TopTyped DEF NestInv, ShapeInv, OwnerInv
<1> DEFINE at == Len(consumed) + 1
           s2 == [i \in 1..Len(stack) + 1 |-> IF i = 1 THEN at ELSE s[i - 1]]
<1>4. s2[1] = at /\ \A i \in 2..Len(stack) + 1 : s2[i] = s[i - 1]
  BY <1>3
<1> HIDE DEF s2
<1>5. /\ Running(f, at, nodes, consumed, look)
      /\ Waiting(g, s[1], f.fn, f.into, f.min, at, nodes, consumed)
  <2>1. Len(stack) > 0
    BY <1>3
  <2>2. Running(Top, s[1], nodes, consumed, look)
    BY <1>2, <2>1 DEF CallsNest, Top
  <2> QED BY <2>2
<1> HIDE DEF at
<1>6. ASSUME NEW i \in 1..Len(stack')- 1
      PROVE  Waiting(stack'[i + 1], s2[i + 1], stack'[i].fn, stack'[i].into, stack'[i].min, s2[i],
                     nodes, consumed)
  <2>1. CASE i = 1
    <3>1. 1 + 1 = 2 /\ 2 \in 2..Len(stack) + 1 /\ 2 - 1 = 1
      BY <1>3
    <3>2. s2[2] = s[1]
      BY <1>4, <3>1
    <3> QED BY <1>1, <1>4, <1>5, <2>1, <3>1, <3>2
  <2>2. CASE i # 1
    <3>1. i \in 2..Len(stack) /\ i - 1 \in 1..Len(stack) - 1
      BY <1>1, <1>3, <2>2
    <3>2. /\ i + 1 \in 3..Len(stack) + 1 /\ i + 1 \in 2..Len(stack) + 1 /\ i \in 2..Len(stack) + 1
          /\ (i + 1) - 1 = i /\ (i - 1) + 1 = i
      BY <1>3, <3>1
    <3>3. Waiting(stack[i], s[i], stack[i - 1].fn, stack[i - 1].into, stack[i - 1].min, s[i - 1],
                  nodes, consumed)
      <4>1. Waiting(stack[(i - 1) + 1], s[(i - 1) + 1], stack[i - 1].fn, stack[i - 1].into,
                    stack[i - 1].min, s[i - 1], nodes, consumed)
        BY <1>2, <3>1 DEF CallsNest
      <4> QED BY <3>2, <4>1
    <3>4. stack'[i + 1] = stack[i] /\ s2[i + 1] = s[i] /\ s2[i] = s[i - 1]
      BY <1>1, <1>4, <3>2
    <3>5. /\ stack'[i].fn = stack[i - 1].fn /\ stack'[i].into = stack[i - 1].into
          /\ stack'[i].min = stack[i - 1].min
      <4>1. CASE i = 2
        <5>1. 2 - 1 = 1
          OBVIOUS
        <5> QED BY <1>1, <4>1, <5>1 DEF Top
      <4>2. CASE i # 2
        <5>1. i \in 3..Len(stack) + 1
          BY <3>1, <4>2, <1>3
        <5>2. stack'[i] = stack[i - 1]
          BY <1>1, <5>1
        <5> QED BY <5>2
      <4> QED BY <4>1, <4>2
    <3> QED BY <3>3, <3>4, <3>5
  <2> QED BY <2>1, <2>2
<1> QED BY <1>1, <1>4, <1>5, <1>6 DEF CallsNest

\* A call returns to its caller.
LEMMA ReturnNests ==
    ASSUME NestInv, status = "running", Len(stack) > 1, NEW g, Pops(stack, stack', g),
           UNCHANGED <<nodes, consumed, look>>,
           g.fn = stack[2].fn, g.into = stack[2].into, g.min = stack[2].min,
           \A t, u : /\ Running(Top, t, nodes, consumed, look)
                     /\ Waiting(stack[2], u, Top.fn, Top.into, Top.min, t, nodes, consumed)
                     => Running(g, u, nodes, consumed, look)
    PROVE  \E s : CallsNest(stack', s, nodes', consumed', look')
<1>1. /\ stack'[1] = g /\ Len(stack') = Len(stack) - 1
      /\ \A i \in 2..Len(stack) - 1 : stack'[i] = stack[i + 1]
  BY DEF Pops
<1>2. PICK s : CallsNest(stack, s, nodes, consumed, look)
  BY DEF NestInv, Nests
<1>3. Len(stack) \in Nat /\ 1 \in 1..Len(stack) - 1 /\ 1 + 1 = 2
  BY TopTyped DEF NestInv, ShapeInv, OwnerInv
<1> DEFINE s2 == [i \in 1..Len(stack) |-> s[i + 1]]
<1>4. \A i \in 1..Len(stack) : s2[i] = s[i + 1]
  OBVIOUS
<1> HIDE DEF s2
<1>5. Running(g, s[2], nodes, consumed, look)
  <2>1. Running(Top, s[1], nodes, consumed, look)
    BY <1>2 DEF CallsNest, Top
  <2>2. Waiting(stack[2], s[2], Top.fn, Top.into, Top.min, s[1], nodes, consumed)
    BY <1>2, <1>3 DEF CallsNest, Top
  <2> QED BY <2>1, <2>2
<1>6. s2[1] = s[2]
  <2>1. 1 \in 1..Len(stack)
    BY <1>3
  <2> QED BY <1>3, <1>4, <2>1
<1>7. ASSUME NEW i \in 1..Len(stack') - 1
      PROVE  Waiting(stack'[i + 1], s2[i + 1], stack'[i].fn, stack'[i].into, stack'[i].min, s2[i],
                     nodes, consumed)
  <2>1. /\ i + 1 \in 1..Len(stack) - 1 /\ i + 1 \in 1..Len(stack) /\ i \in 1..Len(stack)
        /\ i + 1 \in 2..Len(stack) - 1
    BY <1>1, <1>3
  <2>2. stack'[i + 1] = stack[(i + 1) + 1] /\ s2[i + 1] = s[(i + 1) + 1] /\ s2[i] = s[i + 1]
    BY <1>1, <1>4, <2>1
  <2>3. /\ stack'[i].fn = stack[i + 1].fn /\ stack'[i].into = stack[i + 1].into
        /\ stack'[i].min = stack[i + 1].min
    <3>1. CASE i = 1
      BY <1>1, <1>3, <3>1
    <3>2. CASE i # 1
      <4>1. i \in 2..Len(stack) - 1
        BY <1>3, <2>1, <3>2
      <4>2. stack'[i] = stack[i + 1]
        BY <1>1, <4>1
      <4> QED BY <4>2
    <3> QED BY <3>1, <3>2
  <2>4. Waiting(stack[(i + 1) + 1], s[(i + 1) + 1], stack[i + 1].fn, stack[i + 1].into,
                stack[i + 1].min, s[i + 1], nodes, consumed)
    BY <1>2, <2>1 DEF CallsNest
  <2> QED BY <2>2, <2>3, <2>4
<1> QED BY <1>1, <1>5, <1>6, <1>7 DEF CallsNest

-------------------------------------------------------------------------------
(* What a step does to the text and to the operators of the tree             *)

\* Where the running call is.
ExprSays(pc, instr) ==
    /\ pc \in 1..10
    /\ pc = 1 => instr.op = "call" /\ instr.fn = "primary" /\ instr.into = "lhs"
    /\ pc = 2 => instr.op = "test" /\ instr.kind = "binop" /\ instr.by = 7
    /\ pc = 3 => instr.op = "consume"
    /\ pc = 4 => instr.op = "call" /\ instr.fn = "expr" /\ instr.into = "ret" /\ instr.min = RightOperand
    /\ pc = 5 => instr.op = "add" /\ instr.into = "node" /\ instr.type = "BINOP" /\ instr.at = "tok"
    /\ pc = 6 => instr.op = "append" /\ instr.parent = "node" /\ instr.child = "lhs"
    /\ pc = 7 => instr.op = "append" /\ instr.parent = "node" /\ instr.child = "ret"
    /\ pc = 8 => instr.op = "move" /\ instr.from = "node" /\ instr.to = "lhs"
    /\ pc = 9 => instr.op = "skip" /\ instr.by = -8
    /\ pc = 10 => instr.op = "return" /\ instr.reg = "lhs"
PrimarySays(pc, instr) ==
    /\ pc \in 1..2
    /\ pc = 1 => /\ instr.op = "switch" /\ instr.default = "atom"
                 /\ \A t \in DOMAIN instr.targets :
                       /\ instr.targets[t] \in {"primary_unop", "unexpected_binop", "primary_paren"}
                       /\ instr.targets[t] = "primary_paren" => t = "lparen"
    /\ pc = 2 => instr.op = "return" /\ instr.reg = "ret"
ParenSays(pc, instr) ==
    /\ pc \in 1..4
    /\ pc = 1 => instr.op = "consume"
    /\ pc = 2 => instr.op = "call" /\ instr.fn = "expr" /\ instr.into = "ret"
    /\ pc = 3 => instr.op = "expect" /\ instr.type = "rparen"
    /\ pc = 4 => instr.op = "return" /\ instr.reg = "ret"

LEMMA TopReads ==
    ASSUME TypeInv, status = "running"
    PROVE  /\ Top.fn = "expr" => ExprSays(Top.pc, Instr)
           /\ Top.fn = "primary" => PrimarySays(Top.pc, Instr)
           /\ Top.fn = "primary_paren" => ParenSays(Top.pc, Instr)
<1>1. Top.pc \in DOMAIN Program[Top.fn]
  BY TopTyped DEF FrameOK
<1>2. ASSUME Top.fn = "expr" PROVE ExprSays(Top.pc, Instr)
  <2>1. Top.pc \in 1..10
    BY <1>1, <1>2, ExprText
  <2>2. ASSUME NEW pc \in 1..10 PROVE ExprSays(pc, Program["expr"][pc])
    <3> DEFINE p == Program["expr"]
    <3>1. /\ p[1].op = "call" /\ p[1].fn = "primary" /\ p[1].into = "lhs"
          /\ p[2].op = "test" /\ p[2].kind = "binop" /\ p[2].by = 7
          /\ p[3].op = "consume"
          /\ p[4].op = "call" /\ p[4].fn = "expr" /\ p[4].into = "ret" /\ p[4].min = RightOperand
      BY ExprText DEF Call, Consume, ParseExpr
    <3>2. /\ p[5].op = "add" /\ p[5].into = "node" /\ p[5].type = "BINOP" /\ p[5].at = "tok"
          /\ p[6].op = "append" /\ p[6].parent = "node" /\ p[6].child = "lhs"
          /\ p[7].op = "append" /\ p[7].parent = "node" /\ p[7].child = "ret"
      BY ExprText DEF Add, AddInto, Adopt, AppendTo
    <3>3. /\ p[8].op = "move" /\ p[8].from = "node" /\ p[8].to = "lhs"
          /\ p[9].op = "skip" /\ p[9].by = -8
          /\ p[10].op = "return" /\ p[10].reg = "lhs"
      BY ExprText DEF Move, Return
    <3> HIDE DEF p
    <3> QED BY <3>1, <3>2, <3>3 DEF ExprSays, p
  <2> QED BY <1>2, <2>1, <2>2 DEF Instr
<1>3. ASSUME Top.fn = "primary" PROVE PrimarySays(Top.pc, Instr)
  <2>1. Top.pc \in 1..2 /\ Instr = ParsePrimary[Top.pc]
    BY <1>1, <1>3, PrimaryText DEF Instr
  <2>2. ParsePrimary[2].op = "return" /\ ParsePrimary[2].reg = "ret"
    BY PrimaryText DEF Return
  <2> QED BY <2>1, <2>2, PrimaryText DEF PrimarySays
<1>4. ASSUME Top.fn = "primary_paren" PROVE ParenSays(Top.pc, Instr)
  <2>1. Top.pc \in 1..4 /\ Instr = PrimaryParen[Top.pc]
    BY <1>1, <1>4, PrimaryText DEF Instr
  <2>2. /\ PrimaryParen[1].op = "consume"
        /\ PrimaryParen[2].op = "call" /\ PrimaryParen[2].fn = "expr" /\ PrimaryParen[2].into = "ret"
        /\ PrimaryParen[3].op = "expect" /\ PrimaryParen[3].type = "rparen"
        /\ PrimaryParen[4].op = "return" /\ PrimaryParen[4].reg = "ret"
    BY PrimaryText DEF Consume, ParseExpr, Expect, Return
  <2> QED BY <2>1, <2>2 DEF ParenSays
<1> QED BY <1>2, <1>3, <1>4

\* The text is read token by token.
LEMMA StepsRead ==
    ASSUME Reading, Does
    PROVE  Reading' /\ TextGrows(consumed, consumed')
<1>1. CASE KeepTokens
  <2>1. IsStack(consumed) /\ (look # NoToken => look.at = Len(consumed) + 1)
    BY DEF Reading
  <2> QED BY <1>1, <2>1, TextStays DEF Reading, KeepTokens
<1>2. CASE Consumes
  <2>1. IsStack(consumed)
    BY DEF Reading
  <2>2. look' = NoToken /\ consumed' = Append(consumed, look)
    BY <1>2 DEF Consumes
  <2>3. TextGrows(consumed, consumed')
    BY <2>1, <2>2, TextGoesOn
  <2> QED BY <2>2, <2>3 DEF Reading, TextGrows
<1>3. CASE Lex
  <2>1. IsStack(consumed) /\ consumed' = consumed
    BY <1>3 DEF Reading, Lex
  <2>2. look'.at = Len(consumed) + 1
    BY <1>3 DEF Lex
  <2> QED BY <2>1, <2>2, TextStays DEF Reading
<1>4. KeepTokens \/ Consumes \/ Lex
  BY DEF Does, Waits, Advances, Reads, Keeps, Moves, NamesMember, Appends, ReturnsNode,
         ReturnsVartype, Returns, Adds, AddsMember, Enters, Ends
<1> QED BY <1>1, <1>2, <1>3, <1>4

\* The local that no node is in is none that is made.
LEMMA IdsAreOld ==
    ASSUME TypeInv
    PROVE  Unset \notin DOMAIN nodes /\ node_count \notin Ids
<1>3. DOMAIN nodes = 0..(node_count - 1) /\ node_count \in 1..NodeCapacity
  BY DEF TypeInv, TypeOK
<1>1. DOMAIN nodes = 0..(node_count - 1) /\ node_count \in Nat
  BY <1>3, CapacityAssumption
<1>2. Unset \notin 0..(node_count - 1) /\ node_count \notin 0..(node_count - 1) /\ node_count # Unset
  BY <1>1 DEF Unset
<1> QED BY <1>1, <1>2 DEF Ids

\* Nodes that say what they said keep the operators.
LEMMA SayingKeepsBinops ==
    ASSUME TypeInv, DOMAIN nodes' = DOMAIN nodes \/ DOMAIN nodes' = DOMAIN nodes \cup {node_count},
           \A n \in DOMAIN nodes :
              /\ nodes'[n].type = nodes[n].type
              /\ nodes[n].type # "BUILTIN" => nodes'[n].value = nodes[n].value
              /\ nodes'[n].span = nodes[n].span
    PROVE  BinopsKept(nodes, nodes', Ids)
<1>1. ASSUME NEW n \in Ids, BinopAt(nodes', n) PROVE BinopAt(nodes, n)
  <2>1. n \in DOMAIN nodes
    BY <1>1, IdsAreOld DEF BinopAt, Ids
  <2> QED BY <1>1, <2>1 DEF BinopAt
<1>2. ASSUME NEW n \in Ids, BinopAt(nodes, n)
      PROVE  BinopAt(nodes', n) /\ nodes'[n].value = nodes[n].value /\ nodes'[n].span = nodes[n].span
  BY <1>2 DEF BinopAt
<1> QED BY <1>1, <1>2 DEF BinopsKept

\* A step that leaves the operators alone, but for those in "but".
TreeKept(but) == BinopsKept(nodes, nodes', Ids) /\ OthersSame(nodes, nodes', but)

LEMMA NestedOn ==
    ASSUME ShapeInv, Ready, Nested(nodes, consumed), TextGrows(consumed, consumed'),
           NEW but, TreeKept(but),
           \A n \in DOMAIN nodes' : nodes'[n].type = "BINOP" /\ (n \in but \/ n \notin DOMAIN nodes)
                                        => OperatorFits(nodes', consumed', n)
    PROVE  Nested(nodes', consumed')
<1>1. BinopsKept(nodes, nodes', DOMAIN nodes)
  BY DEF TreeKept, BinopsKept, Ids
<1>2. ASSUME NEW n \in DOMAIN nodes \ but, nodes'[n].type = "BINOP"
      PROVE  OperatorFits(nodes', consumed', n)
  <2>1. SameKids(nodes, nodes', n) /\ AreFamilies(nodes)
    BY DEF TreeKept, OthersSame, Ready
  <2> QED BY <1>1, <1>2, <2>1, OperatorOn
<1> QED BY <1>2 DEF Nested

LEMMA RetainedTree ==
    ASSUME ShapeInv, Ready, Retained
    PROVE  TreeKept({}) /\ DOMAIN nodes' = DOMAIN nodes
<1>1. LinksKept(nodes, nodes') /\ DOMAIN nodes' = DOMAIN nodes
  BY DEF Retained, LinksKept
<1>2. BinopsKept(nodes, nodes', Ids)
  BY <1>1, SayingKeepsBinops DEF Retained, ShapeInv, OwnerInv
<1>3. OthersSame(nodes, nodes', {})
  BY <1>1, SayingKeepsKids DEF Retained, ShapeInv, OwnerInv, Ready
<1> QED BY <1>1, <1>2, <1>3 DEF TreeKept

\* Only an expression makes an operator, of the token it has just taken.
LEMMA AddedTree ==
    ASSUME NestInv, Ready, TextGrows(consumed, consumed'), NEW g, NEW node, Adds(g, node)
    PROVE  /\ TreeKept({}) /\ Nested(nodes', consumed')
           /\ node_count \in DOMAIN nodes' /\ nodes'[node_count] = node
           /\ Children(nodes', node_count) = <<>>
<1>1. /\ Goes(g) /\ Instr.op = "add" /\ status = "running"
      /\ nodes' = AddNode(nodes, node_count, node)
      /\ node.parent = NodeNull /\ node.next_sibling = NodeNull
      /\ node.first_child = NodeNull /\ node.last_child = NodeNull
      /\ node.type = Instr.type /\ DOMAIN node = NodeFields /\ HasRoom /\ node_count' = node_count + 1
      /\ Instr.at = "tok" /\ Instr.type = "BINOP" => node.value = Top.tok.type
  BY DEF Adds, Goes
<1>2. TypeInv /\ OwnerInv /\ ShapeInv /\ Nested(nodes, consumed)
  BY DEF NestInv, Nests, ShapeInv, OwnerInv
<1>3. node.type \in NodeTypes
  BY <1>1, <1>2, TopTyped DEF IsInstruction, Instr
<1>4. /\ node_count \notin DOMAIN nodes /\ DOMAIN nodes' = DOMAIN nodes \cup {node_count}
      /\ \A n \in DOMAIN nodes : nodes'[n] = nodes[n]
      /\ nodes'[node_count] = node
  BY <1>1, <1>2, <1>3, ArenaAdded
<1>5. node_count # NodeNull
  <2>1. node_count \in 1..NodeCapacity
    BY <1>2 DEF TypeInv, TypeOK
  <2> QED BY <2>1, CapacityAssumption DEF NodeNull
<1>6. OthersSame(nodes, nodes', {}) /\ Children(nodes', node_count) = <<>>
  <2>1. IsFiniteSet(DOMAIN nodes) /\ IsTrees(nodes)
    BY <1>2 DEF Ready, OwnerInv
  <2> QED BY <1>1, <1>4, <1>5, <2>1, AddingKeepsKids
<1>7. TreeKept({})
  BY <1>2, <1>4, <1>6, SayingKeepsBinops DEF TreeKept
<1>8. ASSUME node.type = "BINOP" PROVE OperatorFits(nodes', consumed', node_count)
  <2>1. Top.fn = "expr"
    <3>1. Top.fn \in DOMAIN Program /\ Top.pc \in DOMAIN Program[Top.fn]
      BY <1>1, <1>2, TopOwns
    <3> QED BY <1>1, <1>8, <3>1, ProgramsNestRight DEF Instr
  <2>2. Top.pc = 5 /\ Instr.at = "tok"
    BY <1>1, <1>2, <2>1, TopReads DEF ExprSays
  <2>3. PICK s : CallsNest(stack, s, nodes, consumed, look)
    BY <1>1 DEF NestInv, Nests
  <2>4. Len(stack) > 0
    BY <1>1, <1>2, TopTyped
  <2>5. ExprRuns(Top, s[1], nodes, consumed, look)
    BY <2>1, <2>3, <2>4 DEF CallsNest, Running, Top
  <2>6. Top.tok.type \in Binops
    BY <2>2, <2>5 DEF ExprRuns, HasOperator, Binds
  <2>7. nodes'[node_count].value \in Binops
    BY <1>1, <1>4, <1>8, <2>2, <2>6
  <2>8. Len(Children(nodes', node_count)) # 2
    BY <1>6
  <2> QED BY <2>7, <2>8 DEF OperatorFits
<1>9. Nested(nodes', consumed')
  <2>1. ASSUME NEW n \in DOMAIN nodes', nodes'[n].type = "BINOP", n \notin DOMAIN nodes
        PROVE  OperatorFits(nodes', consumed', n)
    BY <1>4, <1>8, <2>1
  <2> QED BY <1>2, <1>7, <2>1, NestedOn
<1> QED BY <1>4, <1>6, <1>7, <1>9

LEMMA MemberTree ==
    ASSUME NestInv, Ready, TextGrows(consumed, consumed'), NEW g, NEW node, AddsMember(g, node)
    PROVE  BinopsKept(nodes, nodes', Ids) /\ Nested(nodes', consumed')
<1>1. TypeInv /\ ShapeInv /\ Nested(nodes, consumed)
  BY DEF NestInv, Nests, ShapeInv, OwnerInv
<1>2. MemberAdded
  BY <1>1, MembersAdded
<1>3. TreeKept({})
  BY <1>1, <1>2, SayingKeepsBinops DEF MemberAdded, TreeKept
<1>4. ASSUME NEW n \in DOMAIN nodes', n \notin DOMAIN nodes PROVE nodes'[n].type # "BINOP"
  BY <1>2, <1>4 DEF MemberAdded
<1>5. Nested(nodes', consumed')
  BY <1>1, <1>3, <1>4, NestedOn
<1> QED BY <1>3, <1>5 DEF TreeKept

\* What is appended to an operator is appended by the expression that made it.
LEMMA OperatorsAdopt ==
    ASSUME ShapeInv, Ready, status = "running", Instr.op = "append",
           nodes[Top[Instr.parent]].type = "BINOP"
    PROVE  Top.fn = "expr"
<1> SUFFICES ASSUME Top.fn # "expr" PROVE FALSE
  OBVIOUS
<1> DEFINE parent == Top[Instr.parent]
<1>1. OwnerInv /\ AreFamilies(nodes) /\ nodes[Root].type = "MODULE"
  BY DEF ShapeInv, Ready, TreeShape
<1>2. PICK w : CallsShape(stack, nodes, w)
  BY DEF ShapeInv
<1>3. \/ Instr.parent \in OwnedBy(Top) /\ parent \in HeldNow(Top)
      \/ parent = Root
      \/ nodes[parent].type = "COMPOUND"
      \/ Top.fn \in Bodies /\ Top.pc = 2 /\ Len(stack) > 1 /\ "node" \in LiveAt(stack, 2) /\ parent = stack[2].node
  BY <1>1, <1>2, AppendShows
<1>4. CASE Instr.parent \in OwnedBy(Top)
  <2>1. /\ Top.fn \in DOMAIN Program /\ Top.pc \in DOMAIN Program[Top.fn]
        /\ w[1] \in Classes(Top.fn) /\ IsOneOf(nodes, parent, Now(w)[Instr.parent])
    BY <1>1, <1>2, <1>4, TopOwns, TopShows
  <2>2. "BINOP" \notin TypesOf(Now(w)[Instr.parent])
    BY <1>4, <2>1, ProgramsNestRight DEF Instr, Now, OwnedBy
  <2> QED BY <2>1, <2>2 DEF IsOneOf, Is, TypesOf
<1>5. CASE Top.fn \in Bodies /\ Top.pc = 2 /\ Len(stack) > 1 /\ "node" \in LiveAt(stack, 2) /\ parent = stack[2].node
  <2> DEFINE caller == stack[2]
             before == Kinds[caller.fn][w[2]][caller.pc - 1]
  <2>1. Len(stack) \in Nat /\ 2 \in 1..Len(stack) /\ 1 \in 1..Len(stack) - 1 /\ 2 - 1 = 1 /\ 1 + 1 = 2 /\ 2 > 1
    BY <1>1, <1>5, TopOwns
  <2>2. BodyFits(caller.fn, w[2], caller.pc)
    BY <1>2, <1>5, <2>1 DEF CallsShape, CallGets, Top
  <2>3. Hanging(stack, 2)
    BY <1>5, <2>1 DEF Hanging, Top
  <2>4. IsOneOf(nodes, caller["node"], before["node"])
    <3>1. CallHas(stack, nodes, w, 2)
      BY <1>2, <2>1 DEF CallsShape
    <3> QED BY <1>5, <2>3, <3>1 DEF CallHas, Seen
  <2>5. TakeAll(before["node"], {"COMPOUND"})
    BY <2>2 DEF BodyFits
  <2>6. caller["node"] = parent
    BY <1>5
  <2> HIDE DEF caller, before
  <2>7. PICK kind \in before["node"] : kind.type = "BINOP"
    BY <2>4, <2>6 DEF IsOneOf, Is
  <2>8. PICK to \in Stages : Takes("BINOP", kind.stage, "COMPOUND", to)
    BY <2>5, <2>7 DEF TakeAll
  <2> QED BY <2>8 DEF Takes, Expressions
<1> QED BY <1>1, <1>3, <1>4, <1>5

LEMMA AppendedTree ==
    ASSUME NestInv, Ready, TextGrows(consumed, consumed'), NEW g, Appends(g)
    PROVE  /\ BinopsKept(nodes, nodes', Ids) /\ Nested(nodes', consumed')
           /\ HasAppended(nodes, nodes', Top[Instr.parent], Top[Instr.child])
<1> DEFINE parent == Top[Instr.parent]
           child == Top[Instr.child]
<1>1. /\ Instr.op = "append" /\ status = "running" /\ nodes' = AppendChild(nodes, parent, child)
  BY DEF Appends, Goes
<1>2. /\ TypeInv /\ OwnerInv /\ ShapeInv /\ AreNodes(nodes) /\ IsFiniteSet(DOMAIN nodes)
      /\ Nested(nodes, consumed)
  BY DEF NestInv, Nests, ShapeInv, OwnerInv, TypeInv, Ready
<1>3. PICK kids, top, depth : AreTrees(nodes, kids, top, depth)
  BY <1>2 DEF OwnerInv, IsTrees
<1>4. /\ parent \in DOMAIN nodes /\ child \in DOMAIN nodes \ {Root}
      /\ nodes[child].parent = NodeNull /\ top[parent] # child
  BY <1>1, <1>2, <1>3, AppendMeets
<1>5. HasAppended(nodes, nodes', parent, child)
  BY <1>1, <1>2, <1>3, <1>4, AppendingKeepsKids
<1>6. BinopsKept(nodes, nodes', Ids)
  <2>1. /\ DOMAIN nodes' = DOMAIN nodes
        /\ \A n \in DOMAIN nodes : nodes'[n].type = nodes[n].type /\ nodes'[n].value = nodes[n].value
                                   /\ nodes'[n].span = nodes[n].span
    BY <1>1, <1>2, AppendSays
  <2> QED BY <1>2, <2>1, SayingKeepsBinops
<1>7. TreeKept({parent})
  BY <1>5, <1>6 DEF HasAppended, TreeKept
<1>8. ASSUME nodes'[parent].type = "BINOP" PROVE OperatorFits(nodes', consumed', parent)
  <2>1. nodes[parent].type = "BINOP"
    BY <1>4, <1>5, <1>8 DEF HasAppended
  <2>2. Top.fn = "expr"
    BY <1>1, <1>2, <2>1, OperatorsAdopt
  <2>3. /\ Top.pc \in {6, 7} /\ parent = Top.node
        /\ child = IF Top.pc = 6 THEN Top.lhs ELSE Top.ret
    BY <1>1, <1>2, <2>2, TopReads DEF ExprSays
  <2>4. PICK s : CallsNest(stack, s, nodes, consumed, look)
    BY <1>1 DEF NestInv, Nests
  <2>5. Len(stack) > 0
    BY <1>1, <1>2, TopTyped
  <2>6. ExprRuns(Top, s[1], nodes, consumed, look)
    BY <2>2, <2>4, <2>5 DEF CallsNest, Running, Top
  <2> HIDE DEF parent, child
  <2> DEFINE op == Top.tok.type
             at == Top.tok.at
  <2>7. nodes'[parent].value = op /\ nodes'[parent].span = at
    <3>1. nodes[Top.node].value = Top.tok.type /\ nodes[Top.node].span = Top.tok.at /\ BinopAt(nodes, Top.node)
      BY <2>3, <2>6 DEF ExprRuns
    <3>2. BinopAt(nodes', parent) /\ parent \in Ids
      BY <1>4, <1>5, <1>8 DEF BinopAt, HasAppended, Ids
    <3> QED BY <1>6, <2>3, <3>1, <3>2 DEF BinopsKept
  <2>8. op \in Binops /\ Children(nodes', parent) = Append(Children(nodes, parent), child)
    BY <1>5, <2>3, <2>6 DEF ExprRuns, HasOperator, Binds, HasAppended
  <2>9. CASE Top.pc = 6
    <3>1. Children(nodes', parent) = Append(<<>>, child)
      BY <2>3, <2>6, <2>8, <2>9 DEF ExprRuns
    <3>2. Len(Append(<<>>, child)) = 1
      OBVIOUS
    <3>3. Len(Children(nodes', parent)) # 2
      BY <3>1, <3>2
    <3> QED BY <2>7, <2>8, <3>3 DEF OperatorFits
  <2>10. CASE Top.pc = 7
    <3> DEFINE pair == Append(<<Top.lhs>>, child)
    <3>1. Children(nodes', parent) = pair
      BY <2>3, <2>6, <2>8, <2>10 DEF ExprRuns
    <3>2. pair[1] = Top.lhs /\ pair[2] = Top.ret
      BY <2>3, <2>10
    <3> HIDE DEF pair
    <3>3. /\ LeftFits(nodes, consumed, Top.lhs, op, at)
          /\ RightFits(nodes, consumed, Top.ret, NextMin(op), at + 1)
      BY <2>6, <2>10 DEF ExprRuns
    <3>4. Top.lhs \in Ids /\ Top.ret \in Ids
      BY <1>1, <1>2, TopTyped DEF FrameOK, Registers
    <3> HIDE DEF op, at
    <3>5. /\ LeftFits(nodes', consumed', Top.lhs, op, at)
          /\ RightFits(nodes', consumed', Top.ret, NextMin(op), at + 1)
      BY <1>6, <3>3, <3>4, OperandsOn
    <3> QED BY <2>7, <2>8, <3>1, <3>2, <3>5 DEF OperatorFits
  <2> QED BY <2>3, <2>9, <2>10
<1>9. Nested(nodes', consumed')
  <2>1. DOMAIN nodes' = DOMAIN nodes
    BY <1>5 DEF HasAppended
  <2> QED BY <1>2, <1>7, <1>8, <2>1, NestedOn
<1> QED BY <1>5, <1>6, <1>9

-------------------------------------------------------------------------------
(* What the running call knows after a step                                  *)

RunsOn(g) ==
    \A t : Running(Top, t, nodes, consumed, look) => Running(g, t, nodes', consumed', look')

LEMMA OthersRun ==
    ASSUME NEW g, Goes(g), Top.fn \notin {"expr", "primary", "primary_paren"}
    PROVE  RunsOn(g)
BY DEF RunsOn, Running, Goes

\* The operands a step leaves in their locals.
LEMMA LocalsFit ==
    ASSUME TypeInv, status = "running", BinopsKept(nodes, nodes', Ids), TextGrows(consumed, consumed'),
           NEW at
    PROVE  /\ \A op : LeftFits(nodes, consumed, Top.lhs, op, at)
                          => LeftFits(nodes', consumed', Top.lhs, op, at)
           /\ \A min : RightFits(nodes, consumed, Top.lhs, min, at)
                          => RightFits(nodes', consumed', Top.lhs, min, at)
           /\ \A min : RightFits(nodes, consumed, Top.ret, min, at)
                          => RightFits(nodes', consumed', Top.ret, min, at)
<1>1. Top.lhs \in Ids /\ Top.ret \in Ids
  BY TopTyped DEF FrameOK, Registers
<1> QED BY <1>1, OperandsOn

LEMMA AdvanceRuns ==
    ASSUME NestInv, NEW g, Advances(g), BinopsKept(nodes, nodes', Ids), TextGrows(consumed, consumed')
    PROVE  RunsOn(g)
<1>1. /\ Goes(g) /\ status = "running" /\ g.fn = Top.fn /\ g.min = Top.min
      /\ g.pc \in Successors(Instr, Top.pc)
      /\ Instr.op \in Plain
      /\ IF Instr.op \in Readers THEN Reads(g) ELSE Keeps(g)
      /\ Instr.op = "expect" => look.type = Instr.type
      /\ Instr.op = "test" =>
            look.type # "none" /\ g.pc = Top.pc + (IF TestHolds THEN 1 ELSE 1 + Instr.by)
  BY DEF Advances, Goes
<1>2. g.lhs = Top.lhs /\ g.ret = Top.ret /\ g.node = Top.node
  BY DEF Advances, LocalsKept, Registers
<1>3. TypeInv /\ IsStack(consumed) /\ (look # NoToken => look.at = Len(consumed) + 1)
  BY DEF NestInv, ShapeInv, OwnerInv, Reading
<1>4. ASSUME Reads(g)
      PROVE  /\ look # NoToken /\ g.tok = look /\ look' = NoToken
             /\ Len(consumed') = Len(consumed) + 1 /\ consumed'[Len(consumed')] = look
             /\ look.at = Len(consumed') /\ Len(consumed') \in Nat /\ Len(consumed) \in Nat
             /\ Len(consumed') \in 1..Len(consumed')
  <2>1. consumed' = Append(consumed, look) /\ look # NoToken /\ g.tok = look /\ look' = NoToken
    BY <1>4 DEF Reads, Consumes
  <2>2. Len(consumed') = Len(consumed) + 1 /\ consumed'[Len(consumed')] = look
    BY <1>3, <2>1, TextGoesOn
  <2>3. Len(consumed) \in Nat
    BY <1>3 DEF IsStack
  <2> QED BY <1>3, <2>1, <2>2, <2>3
<1> SUFFICES ASSUME NEW t, Running(Top, t, nodes, consumed, look)
             PROVE  Running(g, t, nodes', consumed', look')
  BY DEF RunsOn
<1>5. CASE Top.fn = "expr"
  <2>1. ExprRuns(Top, t, nodes, consumed, look) /\ ExprSays(Top.pc, Instr)
    BY <1>1, <1>3, <1>5, TopReads DEF Running
  <2>2. Top.pc \in {2, 3, 9}
    BY <1>1, <2>1 DEF ExprSays, Plain
  <2>3. CASE Top.pc = 2
    <3>1. Instr.op = "test" /\ Instr.kind = "binop" /\ Instr.by = 7
      BY <2>1, <2>3 DEF ExprSays
    <3>2. TestHolds <=> Binds(look.type, Top.min)
      BY <3>1 DEF TestHolds, Binds
    <3>3. /\ look' = look /\ consumed' = consumed
          /\ look.type # "none"
          /\ Binds(look.type, Top.min) => g.pc = 3
          /\ ~Binds(look.type, Top.min) => g.pc = 10
      BY <1>1, <2>3, <3>1, <3>2 DEF Keeps, KeepTokens, Readers
    <3>4. /\ RightFits(nodes', consumed', g.lhs, g.min, t)
          /\ LeftFits(nodes', consumed', g.lhs, look'.type, Len(consumed') + 1)
      <4>1. /\ RightFits(nodes, consumed, Top.lhs, Top.min, t)
            /\ LeftFits(nodes, consumed, Top.lhs, look.type, Len(consumed) + 1)
        BY <2>1, <2>3 DEF ExprRuns
      <4> QED BY <1>1, <1>2, <1>3, <3>3, <4>1, LocalsFit
    <3>5. ExprRuns(g, t, nodes', consumed', look')
      <4>1. CASE Binds(look.type, Top.min)
        <5>1. g.pc = 3
          BY <3>3, <4>1
        <5> QED BY <1>1, <3>3, <3>4, <4>1, <5>1 DEF ExprRuns
      <4>2. CASE ~Binds(look.type, Top.min)
        <5>1. g.pc = 10
          BY <3>3, <4>2
        <5>2. Below(look'.type, g.min)
          BY <1>1, <3>3, <4>2 DEF Below
        <5> QED BY <3>4, <5>1, <5>2 DEF ExprRuns
      <4> QED BY <4>1, <4>2
    <3>6. g.pc # 1
      BY <3>3
    <3> QED BY <1>1, <1>5, <3>5, <3>6 DEF Running
  <2>4. CASE Top.pc = 3
    <3>1. Instr.op = "consume"
      BY <2>1, <2>4 DEF ExprSays
    <3>2. Reads(g) /\ g.pc = 4
      BY <1>1, <2>4, <3>1 DEF Readers, Successors
    <3>3. Binds(look.type, Top.min) /\ LeftFits(nodes, consumed, Top.lhs, look.type, Len(consumed) + 1)
      BY <2>1, <2>4 DEF ExprRuns
    <3>4. LeftFits(nodes', consumed', g.lhs, g.tok.type, g.tok.at)
      <4>1. LeftFits(nodes', consumed', Top.lhs, look.type, Len(consumed) + 1)
        BY <1>1, <1>3, <3>3, LocalsFit
      <4> QED BY <1>2, <1>4, <3>2, <4>1
    <3>5. HasOperator(g, consumed') /\ g.tok.at = Len(consumed')
      BY <1>1, <1>4, <3>2, <3>3 DEF HasOperator
    <3>6. ExprRuns(g, t, nodes', consumed', look')
      BY <3>2, <3>4, <3>5 DEF ExprRuns
    <3> QED BY <1>1, <1>5, <3>2, <3>6 DEF Running
  <2>5. CASE Top.pc = 9
    <3>1. Instr.op = "skip" /\ Instr.by = -8
      BY <2>1, <2>5 DEF ExprSays
    <3>2. g.pc = 2 /\ look' = look /\ consumed' = consumed
      BY <1>1, <2>5, <3>1 DEF Readers, Successors, Keeps, KeepTokens
    <3>3. /\ RightFits(nodes', consumed', g.lhs, g.min, t)
          /\ LeftFits(nodes', consumed', g.lhs, look'.type, Len(consumed') + 1)
      <4>1. /\ RightFits(nodes, consumed, Top.lhs, Top.min, t)
            /\ LeftFits(nodes, consumed, Top.lhs, look.type, Len(consumed) + 1)
        BY <2>1, <2>5 DEF ExprRuns
      <4> QED BY <1>1, <1>2, <1>3, <3>2, <4>1, LocalsFit
    <3>4. ExprRuns(g, t, nodes', consumed', look')
      BY <3>2, <3>3 DEF ExprRuns
    <3> QED BY <1>1, <1>5, <3>2, <3>4 DEF Running
  <2> QED BY <2>2, <2>3, <2>4, <2>5
<1>6. CASE Top.fn = "primary_paren"
  <2>1. ParenRuns(Top, t, consumed, look) /\ ParenSays(Top.pc, Instr)
    BY <1>1, <1>3, <1>6, TopReads DEF Running
  <2>2. Top.pc \in {1, 3}
    BY <1>1, <2>1 DEF ParenSays, Plain
  <2>3. Instr.op \in Readers /\ Reads(g)
    BY <1>1, <2>1, <2>2 DEF ParenSays, Readers
  <2>4. CASE Top.pc = 1
    <3>1. g.pc = 2 /\ t = Len(consumed) + 1 /\ look.type = "lparen"
      BY <1>1, <1>6, <2>1, <2>4 DEF ParenSays, ParenRuns, Successors, Running
    <3>2. Says(consumed', t, "lparen")
      BY <1>4, <2>3, <3>1 DEF Says
    <3> QED BY <1>1, <1>6, <3>1, <3>2 DEF Running, ParenRuns
  <2>5. CASE Top.pc = 3
    <3>1. g.pc = 4 /\ look.type = "rparen" /\ Says(consumed, t, "lparen")
      BY <1>1, <2>1, <2>5 DEF ParenSays, ParenRuns, Successors
    <3>2. Says(consumed', t, "lparen")
      BY <3>1, SaysOn
    <3>3. Says(consumed', Len(consumed'), "rparen")
      BY <1>4, <2>3, <3>1 DEF Says
    <3> QED BY <1>1, <1>6, <3>1, <3>2, <3>3 DEF Running, ParenRuns
  <2> QED BY <2>2, <2>4, <2>5
<1>7. Top.fn # "primary"
  BY <1>1, <1>3, TopReads DEF PrimarySays, Plain
<1> QED BY <1>1, <1>5, <1>6, <1>7, OthersRun DEF RunsOn

\* The operator becomes the left operand of the next one.
LEMMA MoveRuns ==
    ASSUME NestInv, NEW g, Moves(g)
    PROVE  RunsOn(g)
<1>1. /\ Goes(g) /\ status = "running" /\ g.fn = Top.fn /\ g.min = Top.min
      /\ g.pc \in Successors(Instr, Top.pc) /\ Instr.op = "move"
      /\ nodes' = nodes /\ consumed' = consumed /\ look' = look /\ g.tok = Top.tok
  BY DEF Moves, Goes, Keeps, KeepTokens
<1>2. TypeInv
  BY DEF NestInv, ShapeInv, OwnerInv
<1>3. Top.fn # "primary" /\ Top.fn # "primary_paren"
  BY <1>1, <1>2, TopReads DEF PrimarySays, ParenSays
<1>4. CASE Top.fn = "expr"
  <2> SUFFICES ASSUME NEW t, Running(Top, t, nodes, consumed, look)
               PROVE  Running(g, t, nodes', consumed', look')
    BY DEF RunsOn
  <2>1. ExprRuns(Top, t, nodes, consumed, look) /\ ExprSays(Top.pc, Instr)
    BY <1>1, <1>2, <1>4, TopReads DEF Running
  <2>2. Top.pc = 8 /\ g.lhs = Top.node
    <3>1. Top.pc = 8 /\ Instr.from = "node" /\ Instr.to = "lhs"
      BY <1>1, <2>1 DEF ExprSays
    <3> QED BY <3>1 DEF Moves, LocalSet, Registers
  <2>3. g.pc = 9
    BY <1>1, <2>2 DEF Successors
  <2>4. /\ HasOperator(Top, consumed) /\ Below(look.type, NextMin(Top.tok.type))
        /\ nodes[Top.node].value = Top.tok.type
    BY <2>1, <2>2 DEF ExprRuns
  <2>5. RightFits(nodes, consumed, g.lhs, g.min, t) /\ LeftFits(nodes, consumed, g.lhs, look.type, Len(consumed) + 1)
    BY <1>1, <2>2, <2>4 DEF RightFits, LeftFits, HasOperator, Binds
  <2>6. ExprRuns(g, t, nodes', consumed', look')
    BY <1>1, <2>3, <2>5 DEF ExprRuns
  <2> QED BY <1>1, <1>4, <2>3, <2>6 DEF Running
<1> QED BY <1>1, <1>3, <1>4, OthersRun

\* The operator is made of the token between its operands.
LEMMA AddRuns ==
    ASSUME NestInv, NEW g, NEW node, Adds(g, node), BinopsKept(nodes, nodes', Ids),
           nodes'[node_count] = node, node_count \in DOMAIN nodes', Children(nodes', node_count) = <<>>
    PROVE  RunsOn(g)
<1>1. /\ Goes(g) /\ status = "running" /\ g.fn = Top.fn /\ g.min = Top.min
      /\ g.pc \in Successors(Instr, Top.pc) /\ Instr.op = "add"
      /\ consumed' = consumed /\ look' = look /\ g.tok = Top.tok
      /\ node.type = Instr.type
      /\ Instr.at = "tok" /\ Instr.type = "BINOP" => node.value = Top.tok.type /\ node.span = Top.tok.at
  BY DEF Adds, Goes, Keeps, KeepTokens
<1>2. TypeInv /\ TextGrows(consumed, consumed')
  BY <1>1, TextStays DEF NestInv, ShapeInv, OwnerInv, Reading
<1>3. Top.fn # "primary" /\ Top.fn # "primary_paren"
  BY <1>1, <1>2, TopReads DEF PrimarySays, ParenSays
<1>4. CASE Top.fn = "expr"
  <2> SUFFICES ASSUME NEW t, Running(Top, t, nodes, consumed, look)
               PROVE  Running(g, t, nodes', consumed', look')
    BY DEF RunsOn
  <2>1. ExprRuns(Top, t, nodes, consumed, look) /\ ExprSays(Top.pc, Instr)
    BY <1>1, <1>2, <1>4, TopReads DEF Running
  <2>2. Top.pc = 5 /\ g.lhs = Top.lhs /\ g.ret = Top.ret /\ g.node = node_count
    <3>1. Top.pc = 5 /\ Instr.into = "node"
      BY <1>1, <2>1 DEF ExprSays
    <3> QED BY <3>1 DEF Adds, LocalSet, Registers
  <2>3. g.pc = 6 /\ Instr.at = "tok" /\ Instr.type = "BINOP"
    BY <1>1, <2>1, <2>2 DEF Successors, ExprSays
  <2>4. /\ HasOperator(Top, consumed) /\ Below(look.type, NextMin(Top.tok.type))
        /\ LeftFits(nodes, consumed, Top.lhs, Top.tok.type, Top.tok.at)
        /\ RightFits(nodes, consumed, Top.ret, NextMin(Top.tok.type), Top.tok.at + 1)
    BY <2>1, <2>2 DEF ExprRuns
  <2>5. /\ LeftFits(nodes', consumed', g.lhs, g.tok.type, g.tok.at)
        /\ RightFits(nodes', consumed', g.ret, NextMin(g.tok.type), g.tok.at + 1)
    BY <1>1, <1>2, <2>2, <2>4, LocalsFit
  <2>6. BinopAt(nodes', g.node) /\ nodes'[g.node].value = g.tok.type /\ nodes'[g.node].span = g.tok.at
    BY <1>1, <2>2, <2>3 DEF BinopAt
  <2>7. HasOperator(g, consumed') /\ Below(look'.type, NextMin(g.tok.type))
    BY <1>1, <2>4 DEF HasOperator
  <2>8. Children(nodes', g.node) = <<>>
    BY <2>2
  <2>9. ExprRuns(g, t, nodes', consumed', look')
    BY <2>3, <2>5, <2>6, <2>7, <2>8 DEF ExprRuns
  <2> QED BY <1>1, <1>4, <2>3, <2>9 DEF Running
<1> QED BY <1>1, <1>3, <1>4, OthersRun

\* It is given its operands, the left one first.
LEMMA AppendRuns ==
    ASSUME NestInv, NEW g, Appends(g), BinopsKept(nodes, nodes', Ids),
           HasAppended(nodes, nodes', Top[Instr.parent], Top[Instr.child])
    PROVE  RunsOn(g)
<1>1. /\ Goes(g) /\ status = "running" /\ g.fn = Top.fn /\ g.min = Top.min
      /\ g.pc \in Successors(Instr, Top.pc) /\ Instr.op = "append"
      /\ consumed' = consumed /\ look' = look /\ g.tok = Top.tok
      /\ g.lhs = Top.lhs /\ g.ret = Top.ret /\ g.node = Top.node
  BY DEF Appends, Goes, Keeps, KeepTokens, LocalsKept, Registers
<1>2. TypeInv /\ TextGrows(consumed, consumed')
  BY <1>1, TextStays DEF NestInv, ShapeInv, OwnerInv, Reading
<1>3. Top.fn # "primary" /\ Top.fn # "primary_paren"
  BY <1>1, <1>2, TopReads DEF PrimarySays, ParenSays
<1>4. CASE Top.fn = "expr"
  <2> SUFFICES ASSUME NEW t, Running(Top, t, nodes, consumed, look)
               PROVE  Running(g, t, nodes', consumed', look')
    BY DEF RunsOn
  <2>1. ExprRuns(Top, t, nodes, consumed, look) /\ ExprSays(Top.pc, Instr)
    BY <1>1, <1>2, <1>4, TopReads DEF Running
  <2>2. /\ Top.pc \in {6, 7} /\ Instr.parent = "node"
        /\ Top.pc = 6 => Instr.child = "lhs"
    BY <1>1, <2>1 DEF ExprSays
  <2>3. /\ HasOperator(Top, consumed) /\ Below(look.type, NextMin(Top.tok.type))
        /\ LeftFits(nodes, consumed, Top.lhs, Top.tok.type, Top.tok.at)
        /\ RightFits(nodes, consumed, Top.ret, NextMin(Top.tok.type), Top.tok.at + 1)
        /\ BinopAt(nodes, Top.node)
        /\ nodes[Top.node].value = Top.tok.type /\ nodes[Top.node].span = Top.tok.at
        /\ Top.pc = 6 => Children(nodes, Top.node) = <<>>
    BY <2>1, <2>2 DEF ExprRuns
  <2>4. /\ LeftFits(nodes', consumed', g.lhs, g.tok.type, g.tok.at)
        /\ RightFits(nodes', consumed', g.ret, NextMin(g.tok.type), g.tok.at + 1)
    BY <1>1, <1>2, <2>3, LocalsFit
  <2>5. BinopAt(nodes', g.node) /\ nodes'[g.node].value = g.tok.type /\ nodes'[g.node].span = g.tok.at
    <3>1. Top.node \in Ids
      BY <2>3 DEF BinopAt, Ids
    <3>2. BinopAt(nodes', Top.node)
      BY <2>3, <3>1 DEF BinopsKept
    <3> QED BY <1>1, <2>3, <3>1, <3>2 DEF BinopsKept
  <2>6. HasOperator(g, consumed') /\ Below(look'.type, NextMin(g.tok.type))
    BY <1>1, <2>3 DEF HasOperator
  <2>7. CASE Top.pc = 6
    <3>1. g.pc = 7
      BY <1>1, <2>7 DEF Successors
    <3>2. Children(nodes', Top.node) = Append(<<>>, Top.lhs)
      BY <2>2, <2>3, <2>7 DEF HasAppended
    <3>3. Append(<<>>, Top.lhs) = <<Top.lhs>>
      OBVIOUS
    <3>4. Children(nodes', g.node) = <<g.lhs>>
      BY <1>1, <3>2, <3>3
    <3>5. ExprRuns(g, t, nodes', consumed', look')
      BY <2>4, <2>5, <2>6, <3>1, <3>4 DEF ExprRuns
    <3> QED BY <1>1, <1>4, <3>1, <3>5 DEF Running
  <2>8. CASE Top.pc = 7
    <3>1. g.pc = 8
      BY <1>1, <2>8 DEF Successors
    <3>2. ExprRuns(g, t, nodes', consumed', look')
      BY <2>5, <2>6, <3>1 DEF ExprRuns
    <3> QED BY <1>1, <1>4, <3>1, <3>2 DEF Running
  <2> QED BY <2>2, <2>7, <2>8
<1> QED BY <1>1, <1>3, <1>4, OthersRun
\* A member chain is none of the functions of an operator.
LEMMA MemberRuns ==
    ASSUME NestInv, NEW g, Goes(g), Instr.op = "member"
    PROVE  RunsOn(g)
<1>1. TypeInv /\ status = "running"
  BY DEF NestInv, ShapeInv, OwnerInv, Goes
<1>2. Top.fn \notin {"expr", "primary", "primary_paren"}
  BY <1>1, TopReads DEF ExprSays, PrimarySays, ParenSays
<1> QED BY <1>2, OthersRun

\* A token is looked at: nothing was said of it before.
LEMMA LookRuns ==
    ASSUME NestInv, Lex
    PROVE  RunsOn(Top)
<1>1. /\ status = "running" /\ look = NoToken /\ consumed' = consumed /\ nodes' = nodes
      /\ Instr.op \in {"expect", "expect_unchecked", "consume", "switch", "test"}
  BY DEF Lex, ReadsToken, KeepTree
<1>2. TypeInv /\ look.type = "none"
  BY <1>1 DEF NestInv, ShapeInv, OwnerInv, NoToken
<1>3. "none" \notin Binops
  BY DEF Binops, Comparisons
<1> SUFFICES ASSUME NEW t, Running(Top, t, nodes, consumed, look)
             PROVE  Running(Top, t, nodes', consumed', look')
  BY DEF RunsOn
<1>4. CASE Top.fn = "expr"
  <2>1. ExprRuns(Top, t, nodes, consumed, look) /\ ExprSays(Top.pc, Instr)
    BY <1>1, <1>2, <1>4, TopReads DEF Running
  <2>2. Top.pc \in {2, 3}
    BY <1>1, <2>1 DEF ExprSays
  <2>3. Top.pc = 2
    BY <1>2, <1>3, <2>1, <2>2 DEF ExprRuns, Binds
  <2>4. RightFits(nodes, consumed, Top.lhs, Top.min, t)
    BY <2>1, <2>3 DEF ExprRuns
  <2>5. LeftFits(nodes, consumed, Top.lhs, look'.type, Len(consumed) + 1)
    <3>1. LeftFits(nodes, consumed, Top.lhs, look.type, Len(consumed) + 1)
      BY <2>1, <2>3 DEF ExprRuns
    <3> QED BY <1>2, <3>1 DEF LeftFits, Below
  <2>6. ExprRuns(Top, t, nodes', consumed', look')
    BY <1>1, <2>3, <2>4, <2>5 DEF ExprRuns
  <2> QED BY <1>4, <2>3, <2>6 DEF Running
<1>5. CASE Top.fn = "primary"
  BY <1>1, <1>5 DEF Running, PrimaryRuns
<1>6. CASE Top.fn = "primary_paren"
  BY <1>1, <1>2, <1>6 DEF Running, ParenRuns
<1>7. CASE Top.fn \notin {"expr", "primary", "primary_paren"}
  BY <1>7 DEF Running
<1> QED BY <1>4, <1>5, <1>6, <1>7

LEMMA WaitNests ==
    ASSUME NestInv, Ready, Waits, TextGrows(consumed, consumed')
    PROVE  Nests'
<1>1. stack' = stack /\ nodes' = nodes /\ ShapeInv /\ TypeInv /\ Nested(nodes, consumed)
  BY DEF Waits, NestInv, ShapeInv, OwnerInv, Nests
<1>2. Nested(nodes', consumed')
  <2>1. TreeKept({}) /\ DOMAIN nodes' = DOMAIN nodes
    BY <1>1, UnchangedRetained, RetainedTree DEF TypeInv
  <2> QED BY <1>1, <2>1, NestedOn
<1>3. ASSUME status' = "running" PROVE \E s : CallsNest(stack', s, nodes', consumed', look')
  <2>1. Lex
    BY <1>3 DEF Waits
  <2>2. status = "running" /\ consumed' = consumed
    BY <2>1 DEF Lex, ReadsToken
  <2>3. PICK s : CallsNest(stack, s, nodes, consumed, look)
    BY <2>2 DEF NestInv, Nests
  <2>4. Len(stack) > 0 => Running(Top, s[1], nodes', consumed', look')
    BY <2>1, <2>3, LookRuns DEF RunsOn, CallsNest, Top
  <2>5. CallsNest(stack', s, nodes', consumed', look')
    BY <1>1, <2>2, <2>3, <2>4 DEF CallsNest, Top
  <2> QED BY <2>5
<1> QED BY <1>2, <1>3 DEF Nests

\* Only nulang__parse_primary goes into a parenthesis, at its first token.
LEMMA ParenIsOpen ==
    ASSUME TypeInv, NEW g, NEW arg, NEW into, NEW min, Enters(g, "primary_paren", arg, into, min)
    PROVE  look.type = "lparen"
<1>1. /\ status = "running"
      /\ \/ Instr.op = "call" /\ "primary_paren" = Instr.fn
         \/ /\ Instr.op = "switch"
            /\ "primary_paren" = IF look.type \in DOMAIN Instr.targets THEN Instr.targets[look.type]
                                 ELSE Instr.default
  BY DEF Enters
<1>2. Top.fn \in DOMAIN Program /\ Top.pc \in DOMAIN Program[Top.fn]
  BY <1>1, TopTyped DEF FrameOK
<1>3. CASE Top.fn = "expr"
  BY <1>1, <1>3, TopReads DEF ExprSays
<1>4. CASE Top.fn = "primary"
  BY <1>1, <1>4, TopReads DEF PrimarySays
<1>5. CASE Top.fn \notin {"expr", "primary"}
  BY <1>1, <1>2, <1>5, ProgramsNestRight DEF Instr
<1> QED BY <1>3, <1>4, <1>5

LEMMA CalledRuns ==
    ASSUME NestInv, NEW g, NEW callee, NEW arg, NEW into, NEW min,
           Enters(g, callee, arg, into, min), NEW t, Running(Top, t, nodes, consumed, look)
    PROVE  LET f == Frame(callee, Unset, Top[arg], min, into)
               at == Len(consumed) + 1
           IN /\ f.fn = callee /\ f.into = into /\ f.min = min
              /\ Running(f, at, nodes, consumed, look)
              /\ Waiting(g, t, callee, into, min, at, nodes, consumed)
<1> DEFINE f == Frame(callee, Unset, Top[arg], min, into)
           at == Len(consumed) + 1
<1>1. f.fn = callee /\ f.into = into /\ f.min = min /\ f.pc = 1
  BY DEF Frame
<1>2. /\ status = "running" /\ Instr.op \in {"call", "switch"}
      /\ g.fn = Top.fn /\ g.pc = Top.pc + 1 /\ g.min = Top.min /\ g.tok = Top.tok /\ g.lhs = Top.lhs
      /\ Instr.op = "call" =>
            /\ callee = Instr.fn /\ into = Instr.into
            /\ min = IF Instr.min = RightOperand THEN NextMin(Top.tok.type) ELSE Instr.min
      /\ Instr.op = "switch" =>
            /\ into = "ret"
            /\ callee = IF look.type \in DOMAIN Instr.targets THEN Instr.targets[look.type]
                        ELSE Instr.default
  BY DEF Enters, Keeps, LocalsKept, Registers
<1>3. TypeInv
  BY DEF NestInv, ShapeInv, OwnerInv
<1>4. Running(f, at, nodes, consumed, look)
  <2>1. callee = "primary_paren" => look.type = "lparen"
    BY <1>3, ParenIsOpen
  <2> HIDE DEF f
  <2>2. ExprRuns(f, at, nodes, consumed, look)
    BY <1>1 DEF ExprRuns
  <2>3. callee = "primary_paren" => ParenRuns(f, at, consumed, look)
    BY <1>1, <2>1 DEF ParenRuns
  <2>4. PrimaryRuns(f, at, nodes, consumed)
    BY <1>1 DEF PrimaryRuns
  <2> QED BY <1>1, <2>2, <2>3, <2>4 DEF Running
<1>5. Waiting(g, t, callee, into, min, at, nodes, consumed)
  <2>1. CASE Top.fn = "expr"
    <3>1. ExprRuns(Top, t, nodes, consumed, look) /\ ExprSays(Top.pc, Instr)
      BY <1>2, <1>3, <2>1, TopReads DEF Running
    <3>2. Top.pc \in {1, 4} /\ Instr.op = "call"
      BY <1>2, <3>1 DEF ExprSays
    <3>3. CASE Top.pc = 1
      <4>1. callee = "primary" /\ into = "lhs" /\ g.pc = 2
        BY <1>2, <3>1, <3>2, <3>3 DEF ExprSays
      <4>2. t = at
        BY <2>1, <3>3 DEF Running
      <4> QED BY <1>2, <2>1, <4>1, <4>2 DEF Waiting
    <3>4. CASE Top.pc = 4
      <4>1. callee = "expr" /\ into = "ret" /\ Instr.min = RightOperand /\ g.pc = 5
        BY <1>2, <3>1, <3>2, <3>4 DEF ExprSays
      <4>2. min = NextMin(g.tok.type)
        BY <1>2, <3>2, <4>1
      <4>3. /\ HasOperator(Top, consumed) /\ Top.tok.at = Len(consumed)
            /\ LeftFits(nodes, consumed, Top.lhs, Top.tok.type, Top.tok.at)
        BY <3>1, <3>4 DEF ExprRuns
      <4>4. Operates(g, callee, into, min, at, nodes, consumed)
        BY <1>2, <4>1, <4>2, <4>3 DEF Operates, HasOperator
      <4> QED BY <1>2, <2>1, <4>4 DEF Waiting
    <3> QED BY <3>2, <3>3, <3>4
  <2>2. CASE Top.fn = "primary"
    <3>1. PrimarySays(Top.pc, Instr)
      BY <1>2, <1>3, <2>2, TopReads
    <3>2. Top.pc = 1
      BY <1>2, <3>1 DEF PrimarySays
    <3>3. /\ Instr.op = "switch" /\ g.pc = 2
          /\ callee \in {"primary_paren", "primary_unop", "unexpected_binop", "atom"}
      BY <1>2, <3>1, <3>2 DEF PrimarySays
    <3>4. t = at
      BY <2>2, <3>2 DEF Running
    <3> QED BY <1>2, <2>2, <3>3, <3>4 DEF Waiting
  <2>3. CASE Top.fn = "primary_paren"
    <3>1. ParenRuns(Top, t, consumed, look) /\ ParenSays(Top.pc, Instr)
      BY <1>2, <1>3, <2>3, TopReads DEF Running
    <3>2. Top.pc = 2
      BY <1>2, <3>1 DEF ParenSays
    <3>3. callee = "expr" /\ into = "ret" /\ g.pc = 3 /\ Says(consumed, t, "lparen")
      BY <1>2, <3>1, <3>2 DEF ParenSays, ParenRuns
    <3> QED BY <1>2, <2>3, <3>3 DEF Waiting
  <2>4. CASE Top.fn \notin {"expr", "primary", "primary_paren"}
    BY <1>2, <2>4 DEF Waiting
  <2> QED BY <2>1, <2>2, <2>3, <2>4
<1> HIDE DEF f, at
<1> QED BY <1>1, <1>4, <1>5 DEF f, at

LEMMA CallNests ==
    ASSUME NestInv, NEW g, NEW callee, NEW arg, NEW into, NEW min,
           Enters(g, callee, arg, into, min)
    PROVE  \E s : CallsNest(stack', s, nodes', consumed', look')
<1> DEFINE f == Frame(callee, Unset, Top[arg], min, into)
           at == Len(consumed) + 1
<1>1. /\ status = "running" /\ Pushes(stack, stack', f, g) /\ UNCHANGED <<nodes, consumed, look>>
      /\ g.fn = Top.fn /\ g.into = Top.into /\ g.min = Top.min
  BY DEF Enters, Keeps, KeepTokens
<1>2. \A t : Running(Top, t, nodes, consumed, look) =>
               /\ Running(f, at, nodes, consumed, look)
               /\ Waiting(g, t, f.fn, f.into, f.min, at, nodes, consumed)
  BY CalledRuns
<1> HIDE DEF f
<1> QED BY <1>1, <1>2, EnterNests

\* What a parenthesis, an operand and an expression return.
LEMMA ReturnedRuns ==
    ASSUME NestInv, AreFamilies(nodes), NEW g, ReturnsNode(g) \/ ReturnsVartype(g), NEW t, NEW u,
           Running(Top, t, nodes, consumed, look),
           Waiting(stack[2], u, Top.fn, Top.into, Top.min, t, nodes, consumed)
    PROVE  Running(g, u, nodes, consumed, look)
<1> DEFINE caller == stack[2]
<1>1. /\ Returns(g) /\ status = "running" /\ OwnerInv /\ TypeInv
      /\ \A r \in Registers : r # Top.into => g[r] = caller[r]
      /\ Top.fn \in Makers =>
            Instr.op = "return" /\ OwnedBy(Top) = {Instr.reg} /\ g[Top.into] = Top[Instr.reg]
  BY ReturnMeets DEF NestInv, ShapeInv, OwnerInv, Returns
<1>2. g.fn = caller.fn /\ g.pc = caller.pc /\ g.min = caller.min /\ g.tok = caller.tok
  BY <1>1 DEF Returns
<1>3. /\ "expr" \in Makers /\ "primary" \in Makers /\ "primary_paren" \in Makers
      /\ "primary_unop" \in Makers /\ "unexpected_binop" \in Makers /\ "atom" \in Makers
  BY DEF Makers, Bodies, Program
<1>4. CASE caller.fn = "expr" /\ caller.pc = 2
  <2>1. Top.fn = "primary" /\ Top.into = "lhs" /\ t = u
    BY <1>4 DEF Waiting, Operates
  <2>2. Top.pc = 2 /\ Instr.reg = "ret"
    BY <1>1, <1>3, <2>1, TopReads DEF PrimarySays
  <2>3. BinopAt(nodes, Top.ret) => Says(consumed, u, "lparen") /\ Says(consumed, Len(consumed), "rparen")
    BY <2>1, <2>2 DEF Running, PrimaryRuns
  <2>4. g.lhs = Top.ret
    BY <1>1, <1>3, <2>1, <2>2
  <2>5. (Len(consumed) + 1) - 1 = Len(consumed)
    <3>1. Len(consumed) \in Nat
      BY DEF NestInv, Reading, IsStack
    <3> QED BY <3>1
  <2>6. RightFits(nodes, consumed, g.lhs, g.min, u) /\ LeftFits(nodes, consumed, g.lhs, look.type, Len(consumed) + 1)
    BY <2>3, <2>4, <2>5 DEF RightFits, LeftFits
  <2>7. g.fn = "expr" /\ g.pc = 2
    BY <1>2, <1>4
  <2> HIDE DEF caller
  <2>8. ExprRuns(g, u, nodes, consumed, look)
    BY <2>6, <2>7 DEF ExprRuns
  <2> QED BY <2>7, <2>8 DEF Running
<1>5. CASE caller.fn = "expr" /\ caller.pc # 2
  <2>1. Operates(caller, Top.fn, Top.into, Top.min, t, nodes, consumed)
    BY <1>5 DEF Waiting
  <2>2. Top.fn = "expr" /\ Top.into = "ret" /\ Top.min = NextMin(caller.tok.type) /\ t = caller.tok.at + 1
        /\ caller.pc = 5
    BY <2>1 DEF Operates
  <2>3. ExprRuns(Top, t, nodes, consumed, look) /\ ExprSays(Top.pc, Instr)
    BY <1>1, <2>2, TopReads DEF Running
  <2>4. Top.pc = 10 /\ Instr.reg = "lhs"
    BY <1>1, <1>3, <2>2, <2>3 DEF ExprSays
  <2>5. RightFits(nodes, consumed, Top.lhs, Top.min, t) /\ Below(look.type, Top.min)
    BY <2>3, <2>4 DEF ExprRuns
  <2>6. g.ret = Top.lhs /\ g.lhs = caller.lhs
    BY <1>1, <1>3, <2>2, <2>4 DEF Registers
  <2>7. HasOperator(caller, consumed) /\ LeftFits(nodes, consumed, caller.lhs, caller.tok.type, caller.tok.at)
    BY <2>1 DEF Operates
  <2>8. g.fn = "expr" /\ g.pc = 5
    BY <1>2, <1>5, <2>2
  <2> HIDE DEF caller
  <2>9. /\ RightFits(nodes, consumed, g.ret, NextMin(g.tok.type), g.tok.at + 1)
        /\ Below(look.type, NextMin(g.tok.type)) /\ HasOperator(g, consumed)
        /\ LeftFits(nodes, consumed, g.lhs, g.tok.type, g.tok.at)
    BY <1>2, <2>2, <2>5, <2>6, <2>7 DEF HasOperator
  <2>10. ExprRuns(g, u, nodes, consumed, look)
    BY <2>8, <2>9 DEF ExprRuns
  <2> QED BY <2>8, <2>10 DEF Running
<1>6. CASE caller.fn = "primary"
  <2>1. /\ caller.pc = 2 /\ Top.into = "ret" /\ t = u
        /\ Top.fn \in {"primary_paren", "primary_unop", "unexpected_binop", "atom"}
    BY <1>6 DEF Waiting
  <2>2. Top.fn \in Makers
    BY <1>3, <2>1
  <2>3. g.ret = Top[Instr.reg]
    BY <1>1, <2>1, <2>2
  <2>4. CASE Top.fn = "primary_paren"
    <3>1. ParenRuns(Top, t, consumed, look) /\ ParenSays(Top.pc, Instr)
      BY <1>1, <2>4, TopReads DEF Running
    <3>2. Top.pc = 4
      BY <1>1, <2>2, <3>1 DEF ParenSays
    <3>3. Says(consumed, u, "lparen") /\ Says(consumed, Len(consumed), "rparen")
      BY <2>1, <3>1, <3>2 DEF ParenRuns
    <3> QED BY <1>2, <1>6, <2>1, <3>3 DEF Running, PrimaryRuns
  <2>5. CASE Top.fn # "primary_paren"
    <3>1. PICK w : CallsShape(stack, nodes, w)
      BY DEF NestInv, ShapeInv
    <3>2. /\ IsOneOf(nodes, Top[Instr.reg], Now(w)[Instr.reg])
          /\ AreWhole(Now(w)[Instr.reg])
          /\ TypesOf(Now(w)[Instr.reg]) \subseteq Returned(Top.fn, w[1])
      <4>1. Instr.op = "return" /\ Instr.reg \in OwnedBy(Top)
        BY <1>1, <2>2
      <4>2. /\ ShapesRight(Top.fn, w[1], Top.pc)
            /\ \A r \in OwnedBy(Top) : IsOneOf(nodes, Top[r], Now(w)[r])
        BY <1>1, <3>1, TopShows
      <4> QED BY <2>2, <4>1, <4>2 DEF ShapesRight, Now, Instr
    <3>3. "BINOP" \notin Returned(Top.fn, w[1])
      BY <2>1, <2>5 DEF Returned
    <3>4. ~BinopAt(nodes, g.ret)
      <4>1. PICK kind \in Now(w)[Instr.reg] : Is(nodes, g.ret, kind)
        BY <2>3, <3>2 DEF IsOneOf
      <4>2. nodes[g.ret].type = kind.type /\ kind.type \in Returned(Top.fn, w[1])
        BY <3>2, <4>1 DEF Is, TypesOf
      <4> QED BY <3>3, <4>2 DEF BinopAt
    <3> QED BY <1>2, <1>6, <2>1, <3>4 DEF Running, PrimaryRuns
  <2> QED BY <2>4, <2>5
<1>7. CASE caller.fn = "primary_paren"
  <2>1. caller.pc = 3 /\ Says(consumed, u, "lparen")
    BY <1>7 DEF Waiting
  <2> QED BY <1>2, <1>7, <2>1 DEF Running, ParenRuns
<1>8. CASE caller.fn \notin {"expr", "primary", "primary_paren"}
  BY <1>2, <1>8 DEF Running
<1> QED BY <1>4, <1>5, <1>6, <1>7, <1>8

LEMMA ReturnsNest ==
    ASSUME NestInv, Ready, NEW g, ReturnsNode(g) \/ ReturnsVartype(g)
    PROVE  /\ UNCHANGED nodes
           /\ \E s : CallsNest(stack', s, nodes', consumed', look')
<1>1. Returns(g) /\ UNCHANGED nodes
  BY ReturnMeets DEF NestInv, ShapeInv
<1>2. /\ status = "running" /\ Len(stack) > 1 /\ Pops(stack, stack', g)
      /\ UNCHANGED <<consumed, look>>
      /\ g.fn = stack[2].fn /\ g.into = stack[2].into /\ g.min = stack[2].min
  BY <1>1 DEF Returns, KeepTokens
<1>3. \A t, u : /\ Running(Top, t, nodes, consumed, look)
                /\ Waiting(stack[2], u, Top.fn, Top.into, Top.min, t, nodes, consumed)
                => Running(g, u, nodes, consumed, look)
  BY ReturnedRuns DEF Ready
<1> QED BY <1>1, <1>2, <1>3, ReturnNests

LEMMA SaidNests ==
    ASSUME NestInv, Ready, TextGrows(consumed, consumed'), Retained
    PROVE  BinopsKept(nodes, nodes', Ids) /\ Nested(nodes', consumed')
<1>1. ShapeInv /\ Nested(nodes, consumed)
  BY DEF NestInv, Nests
<1>2. TreeKept({}) /\ DOMAIN nodes' = DOMAIN nodes
  BY <1>1, RetainedTree
<1> QED BY <1>1, <1>2, NestedOn DEF TreeKept

\* Each step keeps the operators nested.
LEMMA StepsNest ==
    ASSUME NestInv, Ready, Does, TextGrows(consumed, consumed')
    PROVE  Nests'
<1>1. AreNodes(nodes) /\ (UNCHANGED nodes => Retained)
  BY UnchangedRetained DEF NestInv, ShapeInv, OwnerInv, TypeInv
<1> DEFINE Called == \E s : CallsNest(stack', s, nodes', consumed', look')
           Stays == BinopsKept(nodes, nodes', Ids) /\ Nested(nodes', consumed')
<1>2. ASSUME NEW g, Goes(g), Stays, RunsOn(g) PROVE Nests'
  <2>1. Called
    BY <1>2, GoNests DEF RunsOn
  <2> QED BY <1>2, <2>1 DEF Nests
<1>3. ASSUME NEW g, Advances(g) PROVE Nests'
  <2>1. Stays /\ Goes(g)
    BY <1>3, SaidNests DEF Advances
  <2> QED BY <1>2, <1>3, <2>1, AdvanceRuns
<1>4. ASSUME NEW g, Moves(g) PROVE Nests'
  <2>1. Stays /\ Goes(g)
    BY <1>1, <1>4, SaidNests DEF Moves
  <2> QED BY <1>2, <1>4, <2>1, MoveRuns
<1>5. ASSUME NEW g, NamesMember(g) PROVE Nests'
  <2>1. Stays /\ Goes(g) /\ Instr.op = "member"
    BY <1>5, SaidNests DEF NamesMember
  <2> QED BY <1>2, <2>1, MemberRuns
<1>6. ASSUME NEW g, Appends(g) PROVE Nests'
  <2>1. Stays /\ HasAppended(nodes, nodes', Top[Instr.parent], Top[Instr.child])
    BY <1>6, AppendedTree
  <2>2. Goes(g)
    BY <1>6 DEF Appends
  <2> QED BY <1>2, <1>6, <2>1, <2>2, AppendRuns
<1>7. ASSUME NEW g, NEW node, Adds(g, node) PROVE Nests'
  <2>1. /\ TreeKept({}) /\ Nested(nodes', consumed')
        /\ node_count \in DOMAIN nodes' /\ nodes'[node_count] = node
        /\ Children(nodes', node_count) = <<>>
    BY <1>7, AddedTree
  <2>2. Stays /\ Goes(g)
    BY <1>7, <2>1 DEF Adds, TreeKept
  <2> QED BY <1>2, <1>7, <2>1, <2>2, AddRuns
<1>8. ASSUME NEW g, NEW node, AddsMember(g, node) PROVE Nests'
  <2>1. Stays
    BY <1>8, MemberTree
  <2>2. Goes(g) /\ Instr.op = "member"
    BY <1>8 DEF AddsMember
  <2> QED BY <1>2, <2>1, <2>2, MemberRuns
<1>9. ASSUME NEW g, NEW callee, NEW arg, NEW into, NEW min, Enters(g, callee, arg, into, min)
      PROVE  Nests'
  <2>1. Called
    BY <1>9, CallNests
  <2>2. Nested(nodes', consumed')
    BY <1>1, <1>9, SaidNests DEF Enters
  <2> QED BY <2>1, <2>2 DEF Nests
<1>10. ASSUME NEW g, ReturnsNode(g) \/ ReturnsVartype(g) PROVE Nests'
  <2>1. UNCHANGED nodes /\ Called
    BY <1>10, ReturnsNest
  <2>2. Nested(nodes', consumed')
    BY <1>1, <2>1, SaidNests
  <2> QED BY <2>1, <2>2 DEF Nests
<1>11. CASE Ends
  <2>1. UNCHANGED nodes /\ status' # "running"
    BY <1>11 DEF Ends
  <2>2. Nested(nodes', consumed')
    BY <1>1, <2>1, SaidNests
  <2> QED BY <2>1, <2>2 DEF Nests
<1> QED BY <1>3, <1>4, <1>5, <1>6, <1>7, <1>8, <1>9, <1>10, <1>11, WaitNests DEF Does

LEMMA NestStep ==
    ASSUME StatementsAreFinished, NestInv, ParserStep
    PROVE  NestInv'
<1>1. ShapeInv /\ Ready /\ Does
  BY StepIsReady DEF NestInv, ShapeInv
<1>2. Reading' /\ TextGrows(consumed, consumed')
  BY <1>1, StepsRead DEF NestInv
<1>3. Nests'
  BY <1>1, <1>2, StepsNest
<1>4. ShapeInv'
  BY <1>1, ShapeStep
<1> QED BY <1>2, <1>3, <1>4 DEF NestInv

LEMMA NestStart ==
    ASSUME StatementsAreFinished, StartParse
    PROVE  NestInv
<1> DEFINE f == Frame("parse", Root, Unset, 0, "node")
           s == [i \in {1} |-> 1]
<1>1. ShapeInv /\ stack = <<f>> /\ nodes = ClearedNodes /\ consumed = <<>> /\ look = NoToken
  BY ShapeStart DEF StartParse
<1>2. f.fn = "parse"
  BY DEF Frame
<1>3. Len(stack) = 1 /\ stack[1] = f
  <2> HIDE DEF f
  <2> QED BY <1>1, StackOf
<1> HIDE DEF f, s
<1>4. Reading
  <2>1. Len(consumed) = 0 /\ consumed \in Seq(Elements(consumed))
    BY <1>1
  <2> QED BY <1>1, <2>1 DEF Reading, IsStack
<1>5. Nested(nodes, consumed)
  <2>1. DOMAIN nodes = {Root} /\ nodes[Root].type = "MODULE"
    <3>1. DOMAIN ClearedNodes = {Root} /\ ClearedNodes[Root] = NewNode("MODULE", "", "", 0)
      BY DEF ClearedNodes
    <3>2. NewNode("MODULE", "", "", 0).type = "MODULE"
      BY DEF NewNode
    <3> QED BY <1>1, <3>1, <3>2
  <2> QED BY <2>1 DEF Nested
<1>6. CallsNest(stack, s, nodes, consumed, look)
  <2>1. Running(f, s[1], nodes, consumed, look)
    BY <1>2 DEF Running
  <2>2. \A i \in 1..1 - 1 : FALSE
    OBVIOUS
  <2> QED BY <1>3, <2>1, <2>2 DEF CallsNest
<1> QED BY <1>1, <1>4, <1>5, <1>6 DEF NestInv, Nests

LEMMA NestStutters ==
    ASSUME NestInv, UNCHANGED parserVars
    PROVE  NestInv'
<1>1. UNCHANGED <<stack, nodes, consumed, look, status>> /\ ShapeInv'
  BY ShapeStutters DEF parserVars, NestInv
<1> QED BY <1>1 DEF NestInv, Reading, Nests

\* Operators of one minimal precedence group as their precedences say.
LEMMA PrecedencesAre ==
    ASSUME NEW op \in Binops
    PROVE  /\ Precedence(op) \in 1..3
           /\ NextMin(op) = IF op \in LeftAssociative THEN Precedence(op) + 1 ELSE Precedence(op)
           /\ op \in LeftAssociative <=> Precedence(op) # 3
BY DEF Binops, Comparisons, Precedence, LeftAssociative, NextMin

LEMMA OperandsNest ==
    ASSUME NEW op \in Binops, NEW k \in Binops
    PROVE  /\ ~Below(op, NextMin(k)) <=>
                  \/ Precedence(k) < Precedence(op)
                  \/ Precedence(k) = Precedence(op) /\ op \notin LeftAssociative
           /\ ~(Precedence(k) >= NextMin(op)) <=>
                  \/ Precedence(k) < Precedence(op)
                  \/ Precedence(k) = Precedence(op) /\ op \in LeftAssociative
<1>1. "none" \notin Binops
  BY DEF Binops, Comparisons
<1>2. Below(op, NextMin(k)) <=> ~(Precedence(op) >= NextMin(k))
  BY <1>1 DEF Below, Binds
<1>3. /\ Precedence(op) \in 1..3 /\ Precedence(k) \in 1..3
      /\ NextMin(op) = IF op \in LeftAssociative THEN Precedence(op) + 1 ELSE Precedence(op)
      /\ NextMin(k) = IF k \in LeftAssociative THEN Precedence(k) + 1 ELSE Precedence(k)
      /\ op \in LeftAssociative <=> Precedence(op) # 3
      /\ k \in LeftAssociative <=> Precedence(k) # 3
  BY PrecedencesAre
<1>4. op \in LeftAssociative \/ op \notin LeftAssociative
  OBVIOUS
<1> QED BY <1>2, <1>3, <1>4

LEMMA NestedIsRight ==
    ASSUME NestInv
    PROVE  OperatorsNest
<1>1. Nested(nodes, consumed) /\ AreFamilies(nodes)
  BY FamiliesMet DEF NestInv, Nests, ShapeInv
<1>2. \A at, type : Says(consumed, at, type) => at \in DOMAIN consumed /\ consumed[at].type = type
  <2>1. DOMAIN consumed = 1..Len(consumed)
    BY DEF NestInv, Reading, IsStack
  <2> QED BY <2>1 DEF Says
<1> SUFFICES ASSUME NEW n \in DOMAIN nodes, nodes[n].type = "BINOP", Len(Children(nodes, n)) = 2
             PROVE  LET kids == Children(nodes, n)
                        Op(k) == nodes[k].value
                        Closed(at) == at \in DOMAIN consumed /\ consumed[at].type \in {"lparen", "rparen"}
                        Looser(k) == Precedence(Op(k)) < Precedence(Op(n))
                        Equal(k) == Precedence(Op(k)) = Precedence(Op(n))
                        IsBinop(i) == nodes[kids[i]].type = "BINOP"
                    IN /\ IsBinop(1) /\ (Looser(kids[1]) \/ (Equal(kids[1]) /\ Op(n) \notin LeftAssociative))
                              => Closed(nodes[n].span - 1)
                       /\ IsBinop(2) /\ (Looser(kids[2]) \/ (Equal(kids[2]) /\ Op(n) \in LeftAssociative))
                              => Closed(nodes[n].span + 1)
  BY DEF OperatorsNest
<1> DEFINE kids == Children(nodes, n)
           op == nodes[n].value
           at == nodes[n].span
           first == kids[1]
           second == kids[2]
<1>3. /\ op \in Binops
      /\ LeftFits(nodes, consumed, first, op, at)
      /\ RightFits(nodes, consumed, second, NextMin(op), at + 1)
  BY <1>1 DEF Nested, OperatorFits
<1>4. first \in DOMAIN nodes /\ second \in DOMAIN nodes
  <2>1. 1 \in 1..Len(kids) /\ 2 \in 1..Len(kids)
    BY DEF kids
  <2>2. \A i \in 1..Len(kids) : kids[i] \in DOMAIN nodes
    BY <1>1 DEF AreFamilies
  <2> QED BY <2>1, <2>2
<1>5. \A k \in DOMAIN nodes : nodes[k].type = "BINOP" => BinopAt(nodes, k) /\ nodes[k].value \in Binops
  BY <1>1 DEF Nested, OperatorFits, BinopAt
<1> HIDE DEF kids, op, at, first, second
<1>6. ASSUME nodes[first].type = "BINOP",
             \/ Precedence(nodes[first].value) < Precedence(op)
             \/ Precedence(nodes[first].value) = Precedence(op) /\ op \notin LeftAssociative
      PROVE  Says(consumed, at - 1, "rparen")
  BY <1>3, <1>4, <1>5, <1>6, OperandsNest DEF LeftFits
<1>7. ASSUME nodes[second].type = "BINOP",
             \/ Precedence(nodes[second].value) < Precedence(op)
             \/ Precedence(nodes[second].value) = Precedence(op) /\ op \in LeftAssociative
      PROVE  Says(consumed, at + 1, "lparen")
  BY <1>3, <1>4, <1>5, <1>7, OperandsNest DEF RightFits
<1> QED BY <1>2, <1>6, <1>7 DEF kids, op, at, first, second

\* An operand that binds less tightly than its operator was written in parentheses,
\* and operators of the same precedence group to the left or to the right as their
\* associativity says, in every tree on the way to the result, whatever the expression
\* and however deep: what nulang__parse_expr does with the minimal precedence it hands
\* to the call that parses a right operand (parser.h:464-523).
THEOREM OperatorsNestRight ==
    ASSUME StatementsAreFinished
    PROVE  Spec => []OperatorsNest
<1>1. StartParse => NestInv
  BY NestStart
<1>2. NestInv /\ [ParserStep]_parserVars => NestInv'
  BY NestStep, NestStutters
<1>3. NestInv => OperatorsNest
  BY NestedIsRight
<1> QED BY <1>1, <1>2, <1>3, PTL DEF Spec
================================================================================
