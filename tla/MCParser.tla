-------------------------------- MODULE MCParser -------------------------------
(***************************************************************************)
(* Vocabularies for the model checking of the parser: every sequence of at *)
(* most "length" of their tokens is a source text.                         *)
(***************************************************************************)
EXTENDS Parser

Keywords(types) == {[type |-> t, name |-> ""] : t \in types}
Identifiers(names) == {[type |-> "identifier", name |-> x] : x \in names}
Literal == {[type |-> "literal", name |-> "1"]}

\* nested blocks and their ends
Blocks == [length |-> 9,
    tokens |-> Literal \cup
               Keywords({"if", "then", "elif", "else", "while", "do", "end", "return"})]

\* functions with up to two arguments
FunctionDeclarations == [length |-> 12,
    tokens |-> Identifiers({"x"}) \cup
               Keywords({"function", "lparen", "rparen", "colon", "comma", "end"})]

\* variables and their types
VariableDeclarations == [length |-> 9,
    tokens |-> Identifiers({"x"}) \cup Literal \cup
               Keywords({"let", "colon", "primitive", "assign"})]

\* operators of the three precedences and of both associativities, and parentheses
Operators == [length |-> 8,
    tokens |-> Literal \cup
               Keywords({"return", "add", "mul", "equal", "sub", "lparen", "rparen"})]

\* calls, members, the function "norm" of a primitive, archetypes, text the lexer
\* refuses, and a statement the parser does not build
Calls == [length |-> 8,
    tokens |-> Identifiers({"norm"}) \cup
               Keywords({"lparen", "rparen", "comma", "dot", "primitive", "insert", "illegal",
                         "break"})]

\* statements of a loop, and an export
Loops == [length |-> 5,
    tokens |-> Literal \cup Keywords({"while", "do", "end", "break", "continue", "for", "export"})]

\* imports
Imports == [length |-> 3, tokens |-> Identifiers({"x"}) \cup Keywords({"import", "from"})]

LoopVocabularies == {Loops}
ImportVocabularies == {Imports}
StatementVocabularies == {Blocks, FunctionDeclarations, VariableDeclarations}
ExpressionVocabularies == {Operators, Calls}
VectorFunctions == {"norm"}
===============================================================================
