--------------------------------- MODULE Parser --------------------------------
(***************************************************************************)
(* The recursive-descent parser of the nulang compiler                     *)
(* (nucleus/lang/parser.h). Each parsing function of the source is a       *)
(* program, a sequence of the few instructions such functions are made of; *)
(* the call stack of the process is a sequence of frames that hold the     *)
(* locals of a call. The tokens come from nulang__lexer_peek, one of       *)
(* lookahead: any token may come next, so every source text of the         *)
(* vocabularies is parsed. The tokens of a text are [type, name] records.  *)
(*                                                                         *)
(* A token of type "illegal" stands for source text on which the lexer     *)
(* returns an error.                                                       *)
(***************************************************************************)
EXTENDS Ast

CONSTANTS
    Vocabularies,       \* bound: a source has at most "length" tokens of the set "tokens"
                        \* of one of these [tokens, length] records
    NodeCapacity,       \* nodes of the arena
    BuiltinFunctions    \* names nulang__find_builtin_function knows

ASSUME CapacityAssumption == NodeCapacity \in Nat \ {0}
ASSUME VocabulariesAssumption ==
    \A v \in Vocabularies :
        v.length \in Nat /\ \A t \in v.tokens : t.type \notin {"none", "eof"}

-------------------------------------------------------------------------------
(* Operators *)

Comparisons == {"equal", "nequal", "lequal", "gequal", "less", "greater"}
LeftAssociative == {"add", "sub", "mul", "div"}
Binops == {"add", "mul", "div", "and", "or"} \cup Comparisons  \* nulang__is_binop: not "sub"
Unops == {"sub", "not"}
Precedence(op) == CASE op \in {"add", "sub"} -> 1
                    [] op \in {"mul", "div"} -> 2
                    [] op \in {"and", "or"} \cup Comparisons -> 3

NextMinNotAssociative(op) == Precedence(op)
\* minimal precedence of the operators of a right operand
NextMin(op) == IF op \in LeftAssociative THEN Precedence(op) + 1 ELSE Precedence(op)

-------------------------------------------------------------------------------
(* Instructions. Registers name the locals of a call: "node" is the node it *)
(* builds, "arg" the node it was given, "lhs", "ret" and "vartype" locals.  *)

Expect(type) == [op |-> "expect", type |-> type]
\* nulang__parser_expect whose error is dropped
ExpectUnchecked(type) == [op |-> "expect_unchecked", type |-> type]
Consume == [op |-> "consume"]
SaveIdent == [op |-> "save_ident"]
SetVartype(from) == [op |-> "set_vartype", from |-> from]
ReturnVartype == [op |-> "return_vartype"]
StoreReturnType == [op |-> "store_return_type"]
Member == [op |-> "member"]
\* nulang__add_node and the caller's assignments; "at" is the token the value and the
\* span come from, "parent" copies the span of "arg", "none" assigns neither
AddInto(reg, type, at) == [op |-> "add", into |-> reg, type |-> type, at |-> at]
Add(type, at) == AddInto("node", type, at)
AppendTo(parent, child) == [op |-> "append", parent |-> parent, child |-> child]
Adopt(child) == AppendTo("node", child)
Move(from, to) == [op |-> "move", from |-> from, to |-> to]
Call(fn, arg, into) == [op |-> "call", fn |-> fn, arg |-> arg, into |-> into, min |-> 0]
ParseExpr(min, into) == [op |-> "call", fn |-> "expr", arg |-> "node", into |-> into, min |-> min]
RightOperand == -1
Fail(error) == [op |-> "fail", error |-> error]
Return(reg) == [op |-> "return", reg |-> reg]
\* switch on the type of the next token: each case, and "default", is a program of its own
Switch(targets, default) == [op |-> "switch", targets |-> targets, default |-> default]
Skip(n) == [op |-> "skip", by |-> n]
Test(kind, types, n) == [op |-> "test", kind |-> kind, types |-> types, by |-> n]

If(types, body) == <<Test("in", types, Len(body))>> \o body
Unless(types, body) == <<Test("notin", types, Len(body))>> \o body
Loop(test, body) == <<[test EXCEPT !.by = Len(body) + 1]>> \o body \o <<Skip(-(Len(body) + 2))>>
While(types, body) == Loop(Test("in", types, 0), body)
Until(types, body) == Loop(Test("notin", types, 0), body)
WhileBinop(body) == Loop(Test("binop", {}, 0), body)

-------------------------------------------------------------------------------
(* Expressions *)

ParseSymbol == <<Expect("identifier"), Add("SYMREF", "tok"), Return("node")>>

\* nulang__try_parse_member_chain and nulang__parse_member_chain, which calls itself
\* last
TryParseMemberChain ==
    While({"dot"}, <<Expect("dot"), Expect("identifier"), Member, Move("node", "arg")>>)
    \o <<Return("arg")>>

ParseCallPeeksComma ==
    <<Add("CALL", "none"), Adopt("arg"), Expect("lparen")>>
    \o Unless({"rparen"}, <<ParseExpr(0, "ret"), Adopt("ret")>>)
    \o While({"comma"}, <<>>)
    \o <<Expect("rparen"), Return("node")>>

ParseCall ==
    <<Add("CALL", "none"), Adopt("arg"), Expect("lparen")>>
    \o Unless({"rparen"}, <<ParseExpr(0, "ret"), Adopt("ret")>>)
    \o While({"comma"}, <<Consume, ParseExpr(0, "ret"), Adopt("ret")>>)
    \o <<Expect("rparen"), Return("node")>>

TryParseCall == If({"lparen"}, <<Call("call", "arg", "ret"), Return("ret")>>) \o <<Return("arg")>>

ParseInsertOrSingleton(type) ==
    <<Consume, Expect("lparen"), Expect("identifier"), Add(type, "tok"),
      ExpectUnchecked("rparen"), Return("node")>>

\* the cases of nulang__parse_atom
AtomIdentifier == <<Call("symbol", "node", "node"), Call("member_chain", "node", "node"),
                    Call("try_call", "node", "node"), Return("node")>>
AtomPrimitive == <<Expect("primitive"), Add("BUILTIN", "tok"), Call("member_chain", "node", "node"),
                   Call("try_call", "node", "node"), Return("node")>>
AtomLiteral == <<Consume, Add("LITERAL", "tok"), Return("node")>>

ParseAtom ==
    <<Switch([identifier |-> "atom_identifier", insert |-> "insert", singleton |-> "singleton",
              primitive |-> "atom_primitive", literal |-> "atom_literal"], "invalid_atom"),
      Return("ret")>>

\* the branches of nulang__parse_primary
PrimaryParen == <<Consume, ParseExpr(1, "ret"), Expect("rparen"), Return("ret")>>
PrimaryUnop == <<Consume, Call("primary", "node", "ret"), Add("UNOP", "tok"), Adopt("ret"),
                 Return("node")>>

ParsePrimary ==
    <<Switch([t \in {"lparen"} \cup Unops \cup Binops |->
                 CASE t = "lparen" -> "primary_paren"
                   [] t \in Unops -> "primary_unop"
                   [] OTHER -> "unexpected_binop"], "atom"),
      Return("ret")>>

ParseExprSwapsOperands ==
    <<Call("primary", "node", "lhs")>>
    \o WhileBinop(<<Consume, ParseExpr(RightOperand, "ret"), Add("BINOP", "tok"),
                    Adopt("ret"), Adopt("lhs"), Move("node", "lhs")>>)
    \o <<Return("lhs")>>

ParseExprKeepsLhs ==
    <<Call("primary", "node", "lhs")>>
    \o WhileBinop(<<Consume, ParseExpr(RightOperand, "ret"), Add("BINOP", "tok"),
                    Adopt("lhs"), Adopt("ret")>>)
    \o <<Return("lhs")>>

ParseExprBody ==
    <<Call("primary", "node", "lhs")>>
    \o WhileBinop(<<Consume, ParseExpr(RightOperand, "ret"), Add("BINOP", "tok"),
                    Adopt("lhs"), Adopt("ret"), Move("node", "lhs")>>)
    \o <<Return("lhs")>>

-------------------------------------------------------------------------------
(* Statements *)

\* nulang__parse_vartype: the type is a primitive or the name of an archetype
ParseVartype ==
    <<Expect("colon")>>
    \o If({"primitive"}, <<Consume, SetVartype("primitive"), ReturnVartype>>)
    \o If({"identifier"}, <<Consume, SetVartype("archetype"), ReturnVartype>>)
    \o <<Consume, Fail("INVALID_VARTYPE")>>

TryParseVartype == If({"colon"}, <<Call("vartype", "node", "ret")>>)

ParseVardecl ==
    <<Expect("let"), Expect("identifier"), SaveIdent>>
    \o TryParseVartype
    \o <<Expect("assign"), ParseExpr(0, "ret"), Add("VARDECL", "ident"), Adopt("ret"),
         Return("node")>>

\* statements up to a token that ends the block, appended to the compound
Block(ends) == Until(ends, <<Call("stmt", "node", "ret"), Adopt("ret")>>)

\* nulang__add_compound(parent), then the statements of the block
Compound(ends) == <<Add("COMPOUND", "parent"), AppendTo("arg", "node")>> \o Block(ends) \o <<Return("node")>>

IfBody == Call("if_body", "node", "ret")

ParseIfStmt ==
    <<Expect("if"), Add("IF", "tok"), ParseExpr(0, "ret"), Adopt("ret"), Expect("then"), IfBody>>
    \o While({"elif"}, <<Consume, ParseExpr(0, "ret"), Adopt("ret"), Expect("then"), IfBody>>)
    \o If({"else"}, <<Consume, IfBody>>)
    \o <<Expect("end"), Return("node")>>

ParseAssignStmt ==
    <<Expect("assign"), ParseExpr(0, "ret"), Add("ASSIGN", "tok"), Adopt("arg"), Adopt("ret"),
      Return("node")>>

ParseWhileStmt ==
    <<Expect("while"), ParseExpr(0, "ret"), Add("WHILE", "tok"), Adopt("ret"), Expect("do"),
      Call("body", "node", "ret"), Expect("end"), Return("node")>>

ParseArgument ==
    <<Expect("identifier"), Call("vartype", "node", "ret"), AddInto("ret", "ARGDECL", "tok"),
      Adopt("ret")>>

ParseFundecl ==
    <<Expect("function"), Expect("identifier"), Add("FUNDECL", "tok"), Expect("lparen")>>
    \o Unless({"rparen"}, ParseArgument \o While({"comma"}, <<Consume>> \o ParseArgument))
    \o <<Expect("rparen")>>
    \o If({"colon"}, <<Call("vartype", "node", "ret"), StoreReturnType>>)
    \o <<Call("body", "node", "ret"), Expect("end"), Return("node")>>

ParseReturnStmt ==
    <<Expect("return"), ParseExpr(0, "ret"), Add("RETURN", "tok"), Adopt("ret"), Return("node")>>

StmtIdentifier ==
    <<Call("symbol", "node", "lhs"), Call("member_chain", "lhs", "lhs"), Move("lhs", "arg"),
      Switch([assign |-> "assign", lparen |-> "call"], "identifier_as_stmt"), Return("ret")>>

\* The switch of nulang__parse_stmt. "export", "for", "break" and "continue" break out
\* of it at once: the function returns success and has not set its node.
ParseStmt ==
    <<Switch([let |-> "vardecl", function |-> "fundecl", return |-> "return", if |-> "if",
              while |-> "while", identifier |-> "stmt_identifier", export |-> "nothing",
              for |-> "nothing", break |-> "nothing", continue |-> "nothing"],
             "non_stmt"),
      Return("ret")>>

\* nulang__parse: the loop over imports, which consumes nothing, then the statements
\* of the module
Parse ==
    While({"import", "from"}, <<>>) \o Block({"eof"}) \o <<Expect("eof"), Return("node")>>

Program == [
    parse |-> Parse, stmt |-> ParseStmt, nothing |-> <<Return("node")>>,
    vardecl |-> ParseVardecl, fundecl |-> ParseFundecl, return |-> ParseReturnStmt,
    if |-> ParseIfStmt, while |-> ParseWhileStmt, stmt_identifier |-> StmtIdentifier,
    assign |-> ParseAssignStmt, body |-> Compound({"end"}),
    if_body |-> Compound({"end", "else", "elif"}), vartype |-> ParseVartype,
    expr |-> ParseExprBody, primary |-> ParsePrimary, atom |-> ParseAtom,
    atom_identifier |-> AtomIdentifier, atom_primitive |-> AtomPrimitive,
    atom_literal |-> AtomLiteral, insert |-> ParseInsertOrSingleton("INSERT"),
    singleton |-> ParseInsertOrSingleton("SINGLETON"), symbol |-> ParseSymbol,
    member_chain |-> TryParseMemberChain, try_call |-> TryParseCall, call |-> ParseCall,
    primary_paren |-> PrimaryParen, primary_unop |-> PrimaryUnop,
    unexpected_binop |-> <<Fail("UNEXPECTED_BINOP")>>,
    invalid_atom |-> <<Fail("INVALID_ATOM_EXPRESSION")>>,
    identifier_as_stmt |-> <<Fail("IDENTIFIER_AS_STATEMENT")>>,
    non_stmt |-> <<Fail("NON_STATEMENT_TOKEN")>>]

-------------------------------------------------------------------------------
(* The machine *)

VARIABLES
    vocabulary, \* what this source is made of
    stack,      \* frames of the calls in progress, the innermost first
    look,       \* token peeked and not consumed, or NoToken
    consumed,   \* tokens consumed so far: the text before the position of the lexer
    nodes,      \* the arena: ids 0 .. node_count - 1
    node_count,
    status,     \* "running", "done", "failed": an error is returned; "aborted": an
                \* assertion fails; "wild": an unassigned id is used as an index
    error       \* the error returned, "" for NULANG_ERROR_NONE

parserVars == <<vocabulary, stack, look, consumed, nodes, node_count, status, error>>

NoToken == [type |-> "none", name |-> "", at |-> 0]
Eof == [type |-> "eof", name |-> ""]
NoSpan == -1    \* whatever the arena holds

Frame(fn, node, arg, min, into) ==
    [fn |-> fn, pc |-> 1, node |-> node, arg |-> arg, lhs |-> Unset, ret |-> Unset,
     vartype |-> "", tok |-> NoToken, ident |-> NoToken, min |-> min, into |-> into]

StartParse ==
    /\ vocabulary \in Vocabularies
    /\ stack = <<Frame("parse", Root, Unset, 0, "node")>>
    /\ look = NoToken
    /\ consumed = <<>>
    /\ nodes = ClearedNodes
    /\ node_count = 1
    /\ status = "running"
    /\ error = ""

Top == stack[1]
Instr == Program[Top.fn][Top.pc]
At(op) == status = "running" /\ Instr.op = op

Go(frame, by) == stack' = [stack EXCEPT ![1] = [frame EXCEPT !.pc = @ + by]]
Continue(frame) == Go(frame, 1)

Error(e) == status' = "failed" /\ error' = e /\ UNCHANGED stack
KeepTree == UNCHANGED <<nodes, node_count>>
KeepTokens == UNCHANGED <<vocabulary, look, consumed>>
KeepStatus == UNCHANGED <<status, error>>

ReadsToken == status = "running" /\ Instr.op \in {"expect", "expect_unchecked", "consume", "switch", "test"}

\* past the end of the source nulang__lexer_parse_token returns TOKEN_EOF for ever
NextTokens ==
    IF Len(consumed) >= vocabulary.length \/ (consumed # <<>> /\ consumed[Len(consumed)].type = "eof")
    THEN {Eof}
    ELSE vocabulary.tokens \cup {Eof}

\* nulang__lexer_peek
Lex ==
    /\ ReadsToken
    /\ look = NoToken
    /\ \E t \in NextTokens : look' = [type |-> t.type, name |-> t.name, at |-> Len(consumed) + 1]
    /\ UNCHANGED <<vocabulary, stack, consumed>>
    /\ KeepTree /\ KeepStatus

LexerError ==
    /\ ReadsToken
    /\ look.type = "illegal"
    /\ Instr.op # "expect_unchecked"
    /\ Error("LEXER")
    /\ KeepTree /\ KeepTokens

Peeked == look.type \notin {"none", "illegal"}

\* nulang__lexer_next
Consumes == look' = NoToken /\ consumed' = Append(consumed, look) /\ UNCHANGED vocabulary

TakeToken ==
    /\ Consumes
    /\ Continue([Top EXCEPT !.tok = look])
    /\ KeepTree /\ KeepStatus

ExpectToken == At("expect") /\ look.type = Instr.type /\ TakeToken

UnexpectedToken ==
    /\ At("expect")
    /\ Peeked /\ look.type # Instr.type
    /\ Error("UNEXPECTED_TOKEN")
    /\ Consumes
    /\ KeepTree

ConsumeToken == At("consume") /\ Peeked /\ TakeToken

\* whatever the token, also one the lexer refuses
ExpectUncheckedToken == At("expect_unchecked") /\ look # NoToken /\ TakeToken

TestHolds ==
    CASE Instr.kind = "in" -> look.type \in Instr.types
      [] Instr.kind = "notin" -> look.type \notin Instr.types
      [] Instr.kind = "binop" -> look.type \in Binops /\ Precedence(look.type) >= Top.min

TestToken ==
    /\ At("test")
    /\ Peeked
    /\ Go(Top, IF TestHolds THEN 1 ELSE 1 + Instr.by)
    /\ KeepTree /\ KeepTokens /\ KeepStatus

SkipBack == At("skip") /\ Go(Top, 1 + Instr.by) /\ KeepTree /\ KeepTokens /\ KeepStatus

SetLocal ==
    /\ status = "running"
    /\ \/ Instr.op = "save_ident" /\ Continue([Top EXCEPT !.ident = Top.tok])
       \/ Instr.op = "move" /\ Continue([Top EXCEPT ![Instr.to] = Top[Instr.from]])
       \/ /\ Instr.op = "set_vartype"
          /\ Continue([Top EXCEPT !.vartype = IF Instr.from = "archetype" THEN Top.tok.name
                                              ELSE Instr.from])
    /\ KeepTree /\ KeepTokens /\ KeepStatus

\* the callee starts with its own locals
Enter(fn, arg, min, into) ==
    stack' = <<Frame(fn, Unset, arg, min, into)>> \o
             [stack EXCEPT ![1] = [Top EXCEPT !.pc = @ + 1]]

CallFunction ==
    /\ At("call")
    /\ Enter(Instr.fn, Top[Instr.arg],
             IF Instr.min = RightOperand THEN NextMin(Top.tok.type) ELSE Instr.min, Instr.into)
    /\ KeepTree /\ KeepTokens /\ KeepStatus

SwitchToken ==
    /\ At("switch")
    /\ Peeked
    /\ Enter(IF look.type \in DOMAIN Instr.targets THEN Instr.targets[look.type]
             ELSE Instr.default, Top.arg, 0, "ret")
    /\ KeepTree /\ KeepTokens /\ KeepStatus

FailParse == At("fail") /\ Error(Instr.error) /\ KeepTree /\ KeepTokens

ReturnFromExprDropsResult ==
    /\ At("return")
    /\ Len(stack) > 1
    /\ stack' = [Tail(stack) EXCEPT ![1] =
                     IF Top.fn = "expr" THEN stack[2] ELSE [stack[2] EXCEPT ![Top.into] = Top[Instr.reg]]]
    /\ KeepTree /\ KeepTokens /\ KeepStatus

\* A function that has not set its result leaves the caller's local as it was, or,
\* when the local is declared in the loop, with any value.
ReturnToCaller ==
    /\ At("return")
    /\ Len(stack) > 1
    /\ LET caller == stack[2]
           result == Top[Instr.reg]
       IN \E v \in IF result # Unset THEN {result} ELSE {caller[Top.into], Unset} :
              stack' = [Tail(stack) EXCEPT ![1] = [caller EXCEPT ![Top.into] = v]]
    /\ KeepTree /\ KeepTokens /\ KeepStatus

ReturnVartypeToCaller ==
    /\ At("return_vartype")
    /\ stack' = [Tail(stack) EXCEPT ![1].vartype = Top.vartype]
    /\ KeepTree /\ KeepTokens /\ KeepStatus

ReturnFromParse ==
    /\ At("return")
    /\ Len(stack) = 1
    /\ status' = "done"
    /\ stack' = <<>>
    /\ UNCHANGED error
    /\ KeepTree /\ KeepTokens

HasRoomOffByOne == node_count <= NodeCapacity
\* nulang__add_node
HasRoom == node_count < NodeCapacity

OutOfNode ==
    /\ status = "running"
    /\ Instr.op = "add" \/ (Instr.op = "member" /\ nodes[Top.arg].type # "BUILTIN")
    /\ ~HasRoom
    /\ Error("OUT_OF_NODE")
    /\ KeepTree /\ KeepTokens

ValueOf(type, tok) ==
    CASE type \in {"BINOP", "UNOP"} -> tok.type
      [] type = "BUILTIN" -> "constructor"
      [] OTHER -> tok.name

AddNode_ ==
    /\ At("add")
    /\ HasRoom
    /\ LET tok == IF Instr.at = "ident" THEN Top.ident ELSE Top.tok
           node == CASE Instr.at = "none" -> NewNode(Instr.type, "", Top.vartype, NoSpan)
                     [] Instr.at = "parent" -> NewNode(Instr.type, "", Top.vartype, nodes[Top.arg].span)
                     [] OTHER -> NewNode(Instr.type, ValueOf(Instr.type, tok), Top.vartype, tok.at)
       IN nodes' = AddNode(nodes, node_count, node)
    /\ node_count' = node_count + 1
    /\ Continue([Top EXCEPT ![Instr.into] = node_count])
    /\ KeepTokens /\ KeepStatus

\* a name after a dot: a member of the node before it, or a function of a primitive
MemberNode ==
    /\ At("member")
    /\ nodes[Top.arg].type # "BUILTIN"
    /\ HasRoom
    /\ nodes' = AppendChild(AddNode(nodes, node_count, NewNode("MEMBER", Top.tok.name, "", Top.tok.at)),
                            node_count, Top.arg)
    /\ node_count' = node_count + 1
    /\ Continue([Top EXCEPT !.node = node_count])
    /\ KeepTokens /\ KeepStatus

MemberOfPrimitive ==
    /\ At("member")
    /\ nodes[Top.arg].type = "BUILTIN"
    /\ nodes[Top.arg].value = "constructor"
    /\ Top.tok.name \in BuiltinFunctions
    /\ nodes' = [nodes EXCEPT ![Top.arg].value = Top.tok.name]
    /\ Continue([Top EXCEPT !.node = Top.arg])
    /\ UNCHANGED node_count
    /\ KeepTokens /\ KeepStatus

UnknownMember ==
    /\ At("member")
    /\ nodes[Top.arg].type = "BUILTIN"
    /\ nodes[Top.arg].value = "constructor" => Top.tok.name \notin BuiltinFunctions
    /\ Error("UNKNOWN_SYMBOL_TYPE")
    /\ KeepTree /\ KeepTokens

AppendNode ==
    /\ At("append")
    /\ LET parent == Top[Instr.parent]
           child == Top[Instr.child]
       IN /\ Unset \notin {parent, child}
          /\ AppendAllowed(nodes, parent, child)
          /\ nodes' = AppendChild(nodes, parent, child)
    /\ Continue(Top)
    /\ UNCHANGED node_count
    /\ KeepTokens /\ KeepStatus

AppendFails ==
    /\ At("append")
    /\ LET parent == Top[Instr.parent]
           child == Top[Instr.child]
       IN \/ Unset \in {parent, child} /\ status' = "wild"
          \/ /\ Unset \notin {parent, child}
             /\ ~AppendAllowed(nodes, parent, child)
             /\ status' = "aborted"
    /\ UNCHANGED <<stack, error>>
    /\ KeepTree /\ KeepTokens

StoreType ==
    /\ At("store_return_type")
    /\ nodes' = [nodes EXCEPT ![Top.node].vartype = Top.vartype]
    /\ Continue(Top)
    /\ UNCHANGED node_count
    /\ KeepTokens /\ KeepStatus

Tokenise == Lex \/ LexerError \/ ExpectToken \/ UnexpectedToken \/ ConsumeToken \/ ExpectUncheckedToken
Control == TestToken \/ SkipBack \/ SetLocal \/ CallFunction \/ SwitchToken
           \/ FailParse \/ ReturnToCaller \/ ReturnVartypeToCaller \/ ReturnFromParse
Build == OutOfNode \/ AddNode_ \/ MemberNode \/ MemberOfPrimitive \/ UnknownMember
         \/ AppendNode \/ AppendFails \/ StoreType

ParserStep == Tokenise \/ Control \/ Build

Spec == StartParse /\ [][ParserStep]_parserVars

\* The compiler runs alone in its thread: it goes on as long as it can.
FairSpec == Spec /\ WF_parserVars(ParserStep)
-------------------------------------------------------------------------------
(* Properties *)

Ids == DOMAIN nodes \cup {Unset}

\* The arena never holds more nodes than it has room for, its ids are handed out in
\* order, and every local id of every call in progress is a node of the arena or not
\* assigned (ast.h:214-228).
TypeOK ==
    /\ node_count \in 1..NodeCapacity
    /\ DOMAIN nodes = 0..(node_count - 1)
    /\ \A n \in DOMAIN nodes : nodes[n].type \in NodeTypes
    /\ \A i \in DOMAIN stack :
          /\ stack[i].fn \in DOMAIN Program
          /\ stack[i].pc \in DOMAIN Program[stack[i].fn]
          /\ {stack[i].node, stack[i].arg, stack[i].lhs, stack[i].ret} \subseteq Ids
    /\ status \in {"running", "done", "failed", "aborted", "wild"}
    /\ (status = "failed") = (error # "")

\* At every instant, also between the two appends of an operator and after an error,
\* the arena is a forest: child, sibling, last-child and parent links tell the same
\* story (ast.h:231-253).
TreeWellFormed == IsForest(nodes)

\* What a successful parse leaves has no node outside the tree of the module, and each
\* node has the children the analyzer and the printer expect of its type.
TreeComplete ==
    status = "done" => /\ Subtree(nodes, Root) = DOMAIN nodes
                       /\ \A n \in DOMAIN nodes : HasShape(nodes, n)

\* No assertion of nulang__append_child or nulang__binop_precedence fails and no id is
\* used before it is assigned, whatever the source text (ast.h:236-241).
NoFailedAssertion == status \notin {"aborted", "wild"}

\* A node that has a parent keeps it: no statement or operand is stolen by a second
\* parent, and a node once created keeps its type.
NeverReparented ==
    [][\A n \in DOMAIN nodes :
          /\ nodes'[n].type = nodes[n].type
          /\ nodes[n].parent # NodeNull => nodes'[n].parent = nodes[n].parent]_parserVars

Punctuation == {"lparen", "rparen", "comma", "colon", "eof"}
Word(tok) == IF tok.name = "" THEN tok.type ELSE tok.name
Words(tokens) ==
    LET kept == SelectSeq(tokens, LAMBDA tok : tok.type \notin Punctuation)
    IN [i \in DOMAIN kept |-> Word(kept[i])]

Keyword(type) == IF type = "INSERT" THEN "insert" ELSE "singleton"

\* The words of the source a tree stands for. After the name in "insert" and
\* "singleton" comes whatever token the code took for the closing parenthesis.
WordsOf(tree) ==
    LET words[n \in DOMAIN tree] ==
            LET kids == Children(tree, n)
                value == tree[n].value
                vartype == IF tree[n].vartype = "" THEN <<>> ELSE <<tree[n].vartype>>
                K(i) == words[kids[i]]
                from[i \in 1..Len(kids) + 1] ==
                    IF i > Len(kids) THEN <<>> ELSE K(i) \o from[i + 1]
                \* elif and else before the conditions and the bodies that follow the first
                branches[i \in 3..Len(kids) + 2] ==
                    CASE i > Len(kids) -> <<>>
                      [] i = Len(kids) -> <<"else">> \o K(i)
                      [] OTHER -> <<"elif">> \o K(i) \o <<"then">> \o K(i + 1) \o branches[i + 2]
            IN CASE tree[n].type \in {"MODULE", "COMPOUND", "CALL"} -> from[1]
                 [] tree[n].type \in {"LITERAL", "SYMREF"} -> <<value>>
                 [] tree[n].type = "BUILTIN" ->
                        IF value = "constructor" THEN <<"primitive">> ELSE <<"primitive", "dot", value>>
                 [] tree[n].type = "MEMBER" -> K(1) \o <<"dot", value>>
                 [] tree[n].type \in {"INSERT", "SINGLETON"} -> <<Keyword(tree[n].type), value>> \o Words(<<consumed[tree[n].span + 1]>>)
                 [] tree[n].type = "UNOP" -> <<value>> \o K(1)
                 [] tree[n].type = "BINOP" -> K(1) \o <<value>> \o K(2)
                 [] tree[n].type = "ARGDECL" -> <<value>> \o vartype
                 [] tree[n].type = "VARDECL" -> <<"let", value>> \o vartype \o <<"assign">> \o K(1)
                 [] tree[n].type = "ASSIGN" -> K(1) \o <<"assign">> \o K(2)
                 [] tree[n].type = "RETURN" -> <<"return">> \o K(1)
                 [] tree[n].type = "WHILE" -> <<"while">> \o K(1) \o <<"do">> \o K(2) \o <<"end">>
                 [] tree[n].type = "IF" ->
                        <<"if">> \o K(1) \o <<"then">> \o K(2) \o branches[3] \o <<"end">>
                 [] tree[n].type = "FUNDECL" ->
                        <<"function", value>> \o SubSeq(from[1], 1, Len(from[1]) - Len(K(Len(kids))))
                        \o vartype \o K(Len(kids)) \o <<"end">>
    IN words[Root]

\* The tree of an accepted source says what the source says, in its order: nothing is
\* dropped, doubled, exchanged or hung under another construct.
TreeSpellsSource == status = "done" => WordsOf(nodes) = Words(consumed)

\* An operand that binds less tightly than its operator was written in parentheses;
\* equal precedence groups to the left for the left-associative operators and to the
\* right for the others.
OperatorsNest ==
    \A n \in DOMAIN nodes :
        LET kids == Children(nodes, n)
            Op(k) == nodes[k].value
            Closed(at) == at \in DOMAIN consumed /\ consumed[at].type \in {"lparen", "rparen"}
            Looser(k) == Precedence(Op(k)) < Precedence(Op(n))
            Equal(k) == Precedence(Op(k)) = Precedence(Op(n))
            IsBinop(i) == nodes[kids[i]].type = "BINOP"
        IN nodes[n].type = "BINOP" /\ Len(kids) = 2 =>
             /\ IsBinop(1) /\ (Looser(kids[1]) \/ (Equal(kids[1]) /\ Op(n) \notin LeftAssociative))
                    => Closed(nodes[n].span - 1)
             /\ IsBinop(2) /\ (Looser(kids[2]) \/ (Equal(kids[2]) /\ Op(n) \in LeftAssociative))
                    => Closed(nodes[n].span + 1)

\* Every source text is parsed to an end.
Terminates == <>(status # "running")
===============================================================================
