------------------------------ MODULE MCLexer -------------------------------
(***************************************************************************)
(* Texts for the lexer: every short one over a mixed alphabet, and longer  *)
(* ones over alphabets that meet in one part of the lexer each.            *)
(***************************************************************************)
EXTENDS Lexer

UpTo(chars, n) == UNION { [1..m -> chars] : m \in 0..n }

Mixed    == {" ", "\n", "#", "-", "=", "!", "'", "1", ".", "a", "n"}
Words    == {"a", "n", "d", "i", " "}
Numbers  == {"0", "9", ".", "a", " "}
Layout   == {"-", "\n", " ", "a", "'"}
Operators == {"=", "<", "!", "-", "\n"}

(* Words that need more letters than that, one after the other.            *)
Sentences == {
  <<"i", "n", "t", " ", "i", "n", "s", "e", "r", "t">>,
  <<"s", "t", "r", ":", "v", "e", "c", "3">>,
  <<"n", "i", "l", "\n", "t", "r", "u", "e", "_">>}

(* Numerals at the ends of their words.                                    *)
Numerals_ == {
  <<"2", "1", "4", "7", "4", "8", "3", "6", "4", "7">>,
  <<"2", "1", "4", "7", "4", "8", "3", "6", "4", "8">>,
  <<"2", "1", "4", "7", "4", "8", "3", "6", "5", "0">>,
  <<"4", "2", "9", "4", "9", "6", "7", "2", "9", "6", "0">>,
  <<"6", "5", "5", "3", "5", ".", "9", "9", "9", "9", "9", "9">>,
  <<"6", "5", "5", "3", "6", ".", "0", "0", "0", "0", "1", "5">>,
  <<"0", ".", "0", "0", "0", "0", "1", "6">>,
  <<"0", ".", "5">>, <<"2", ".", "6", "2", "5">>, <<"7", ".", "5", "0", "0", "0", "1", "6">>,
  <<"1", ".", "0", "0", "0", "0", "0", "0", "1">>}

MCTexts == UpTo(Mixed, 3) \cup UpTo(Words, 5) \cup UpTo(Numbers, 5)
  \cup UpTo(Layout, 5) \cup UpTo(Operators, 4) \cup Sentences \cup Numerals_
MCLookaheads == {0, 1, 3}
=============================================================================
