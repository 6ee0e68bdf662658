------------------------------ MODULE MCOwnership ------------------------------
(***************************************************************************)
(* Vocabularies without unfinished statements, for modules Ownership and   *)
(* Shapes: those of the statements, and shorter texts of operators, calls  *)
(* and assignments.                                                        *)
(***************************************************************************)
EXTENDS MCParser, Shapes

FewOperators == [length |-> 6, tokens |-> Operators.tokens]
FinishedCalls == [length |-> 6, tokens |-> Calls.tokens \ Keywords({"break"})]
Assignments == [length |-> 7,
    tokens |-> Identifiers({"x"}) \cup Keywords({"assign", "dot", "lparen", "rparen", "not"})]

FinishedVocabularies == StatementVocabularies \cup {FewOperators, FinishedCalls, Assignments}
===============================================================================
