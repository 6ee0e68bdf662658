---------------------------- MODULE TokenStream -----------------------------
(***************************************************************************)
(* What the lexer promises its client: the lexemes of a source text, each  *)
(* delivered once and in order.  A lexeme is defined by the text alone:    *)
(* where the blanks and comments in front of it end, and how far the       *)
(* longest sequence of characters of its class reaches.  There are no      *)
(* streams of characters, no character and no token held back here.        *)
(***************************************************************************)
EXTENDS Tokens

CONSTANTS
  Texts,       \* the source texts, sequences of characters
  Lookahead    \* how many tokens past the next one a client may look at

VARIABLES
  source,      \* the text that is read
  position,    \* how much of it has been delivered
  lexeme,      \* the last lexeme delivered: its type and its extent
  outcome      \* "reading", "ended" or "failed"

vars == <<source, position, lexeme, outcome>>

Size == Len(source)
At(i) == source[i + 1]
Word(from, to) == Spelling(SubSeq(source, from + 1, to))

(* The first place from i on where P no longer holds of the character.     *)
RunEnd(i, P(_)) ==
  CHOOSE j \in i..Size : /\ \A k \in i..(j - 1) : P(At(k))
                         /\ j = Size \/ ~P(At(j))

(* A comment is "--" with the rest of its line, the newline included.      *)
CommentAt(i) == i + 1 < Size /\ At(i) = "-" /\ At(i + 1) = "-"
CommentEnd(i) ==
  LET line == RunEnd(i + 2, LAMBDA c : c # "\n")
  IN  IF line = Size THEN Size ELSE line + 1

StartsLexeme(c) == c \in IdentifierChars \cup Signs \cup {"-"} \cup Doubled \cup {"'"}

(* Where the next lexeme starts: past blanks, comments and characters that *)
(* belong to no lexeme.                                                    *)
LexemeStart[i \in Nat] ==
  CASE i >= Size             -> Size
    [] CommentAt(i)          -> LexemeStart[CommentEnd(i)]
    [] i < Size /\ ~StartsLexeme(At(i)) -> LexemeStart[i + 1]
    [] OTHER                 -> i

NumeralEnd(i) == RunEnd(i, LAMBDA c : c \in Digits \cup {"."})
WordEnd(i)    == RunEnd(i, LAMBDA c : c \in IdentifierChars)
QuoteEnd(i)   == RunEnd(i + 1, LAMBDA c : c # "'")
IsDouble(i)   == At(i) \in Doubled /\ i + 1 < Size /\ At(i + 1) = "="

LexemeEnd(i) ==
  CASE At(i) \in Digits -> NumeralEnd(i)
    [] At(i) \in IdentifierChars \ Digits -> WordEnd(i)
    [] At(i) = "'"      -> QuoteEnd(i) + 1
    [] OTHER            -> IF IsDouble(i) THEN i + 2 ELSE i + 1

(* The points of a numeral and the digits behind the first of them.        *)
Points(i)   == { k \in i..(NumeralEnd(i) - 1) : At(k) = "." }
Decimals(i) == { k \in i..(NumeralEnd(i) - 1) : \E p \in Points(i) : p < k }

Illegal(i) ==
  CASE At(i) \in Digits ->
         LET end == NumeralEnd(i)
         IN  \/ \E p, q \in Points(i) : p # q
             \/ end < Size /\ At(end) \in IdentifierChars
             \/ Cardinality(Decimals(i)) > MaxDecimals
    [] At(i) = "'" -> QuoteEnd(i) = Size
    [] OTHER       -> At(i) = "!" /\ ~IsDouble(i)

(***************************************************************************)
(* The type of a word.  "and" is a keyword only as the last characters of  *)
(* the text, and there its beginnings "a" and "an" are keywords as well:   *)
(* the arguments of that one comparison are exchanged in the lexer.        *)
(***************************************************************************)
WordType(from, to) ==
  LET word == Word(from, to)
  IN  CASE to = Size /\ word \in {"a", "an", "and"} -> "and"
        [] word \in Keywords -> word
        [] word \in Constants  -> "LITERAL"
        [] word \in Primitives     -> "PRIMITIVE"
        [] OTHER                  -> "IDENTIFIER"

LexemeAt(i) ==
  LET end == LexemeEnd(i)
  IN  [from |-> i, to |-> end,
       type |-> CASE At(i) \in Digits \cup {"'"} -> "LITERAL"
                  [] At(i) \in IdentifierChars \ Digits -> WordType(i, end)
                  [] OTHER -> IF IsDouble(i) THEN At(i) \o "=" ELSE At(i)]

EndLexeme == [type |-> "EOF", from |-> 0, to |-> 0]
NoLexeme  == [type |-> "none", from |-> 0, to |-> 0]

(* Whether one of the n + 1 lexemes from i on is illegal.                  *)
IllegalWithin[i \in Nat, n \in Nat] ==
  LET start == LexemeStart[i]
  IN  /\ start < Size
      /\ Illegal(start) \/ (n > 0 /\ IllegalWithin[LexemeEnd(start), n - 1])

-----------------------------------------------------------------------------

Init ==
  /\ source \in Texts
  /\ position = 0
  /\ lexeme = NoLexeme
  /\ outcome = "reading"

Deliver ==
  LET start == LexemeStart[position]
  IN  /\ outcome = "reading"
      /\ start < Size
      /\ ~Illegal(start)
      /\ lexeme' = LexemeAt(start)
      /\ position' = LexemeEnd(start)
      /\ UNCHANGED <<source, outcome>>

End ==
  /\ outcome = "reading"
  /\ LexemeStart[position] = Size
  /\ lexeme' = EndLexeme
  /\ position' = Size
  /\ outcome' = "ended"
  /\ UNCHANGED source

(* A failure is reported when the lexeme is looked at, which may be before *)
(* the ones in front of it have been delivered.                            *)
Fail ==
  /\ outcome = "reading"
  /\ IllegalWithin[position, Lookahead]
  /\ outcome' = "failed"
  /\ UNCHANGED <<source, position, lexeme>>

Next == Deliver \/ End \/ Fail

Spec == Init /\ [][Next]_vars
=============================================================================
