------------------------------- MODULE Tokens -------------------------------
(***************************************************************************)
(* The alphabet and the words of the language: the character classes of    *)
(* nucleus/lang/token.h and the words nucleus/lang/lexer.h knows.          *)
(***************************************************************************)
EXTENDS Numerals, FiniteSets

IdentifierChars == Digits \cup {"_"} \cup
  {"a", "b", "c", "d", "e", "f", "g", "h", "i", "j", "k", "l", "m",
   "n", "o", "p", "q", "r", "s", "t", "u", "v", "w", "x", "y", "z"}

(* The characters that are a token alone, and those an "=" may follow.     *)
Signs   == {"+", "*", "/", "(", ")", "[", "]", ",", ".", ":"}
Doubled == {"=", "<", ">", "!"}

(* "and" is not among them: see MatchesAnd in Lexer.                       *)
Keywords == {"import", "from", "export", "or", "not", "let", "if", "then",
  "else", "elif", "end", "do", "for", "in", "while", "function", "break",
  "continue", "return", "insert", "delete", "singleton", "iter", "next"}
Constants  == {"true", "false", "nil"}
Primitives == {"int", "fix", "str", "vec2", "vec3", "vec4",
               "ivec2", "ivec3", "ivec4"}

Spelling(chars) == FoldLeft(LAMBDA word, c : word \o c, "", chars)
=============================================================================
