------------------------------- MODULE Lexer --------------------------------
(***************************************************************************)
(* nucleus/lang/lexer.h: the tokens of a source text, read from a stream   *)
(* of characters that holds back at most one character, and handed to a    *)
(* client that may look at tokens before it takes them.  One action is one *)
(* call of nulang__lexer_next or nulang__lexer_peek.                       *)
(*                                                                         *)
(* A text is a sequence of characters, each a string of length one.        *)
(* Character i of the C string is text[i + 1].  A token that is a single   *)
(* character, a pair or a keyword has its spelling as its type.            *)
(***************************************************************************)
EXTENDS Tokens, FiniteSetsExt

CONSTANTS
  Texts,         \* the source texts
  Lookaheads,    \* the lookaheads the client asks for
  LocationBits   \* the width of a line and of a column: 16 in the code

ASSUME LexerAssumption ==
  /\ LocationBits \in Nat \ {0}
  /\ Lookaheads \subseteq 0..4         \* NULANG_LEXER_MAX_PEEKS is 5

VARIABLES
  text,      \* what the source pointer points to
  stream,    \* the position in it and the character held back
  peeks,     \* the tokens parsed and not taken yet
  last,      \* the token last taken by the client
  error,     \* the error the last call returned, with the span it set
  status     \* "lexing", "ended" or "failed"

vars == <<text, stream, peeks, last, error, status>>

-----------------------------------------------------------------------------
(* The stream of characters.                                               *)

Location(line, column, index) == [line |-> line, column |-> column, index |-> index]
Start == Location(1, 1, 0)
Wrap(n) == n % 2 ^ LocationBits

StreamInit == [next |-> Start, ended |-> FALSE, has_peek |-> FALSE, peek_loc |-> Start]

FollowingKeepsColumn(loc) ==
  IF text[loc.index + 1] = "\n"
  THEN Location(Wrap(loc.line + 1), Wrap(loc.column + 1), loc.index + 1)
  ELSE Location(loc.line, Wrap(loc.column + 1), loc.index + 1)

Following(loc) ==
  IF text[loc.index + 1] = "\n"
  THEN Location(Wrap(loc.line + 1), 1, loc.index + 1)
  ELSE Location(loc.line, Wrap(loc.column + 1), loc.index + 1)

(* nulang__source_stream_next, into the character held back.               *)
SourceStreamNext(s) ==
  CASE s.ended -> [s EXCEPT !.has_peek = FALSE]
    [] ~s.ended /\ s.next.index = Len(text) ->
         [s EXCEPT !.has_peek = FALSE, !.ended = TRUE, !.peek_loc = s.next,
                   !.next.index = @ + 1]
    [] OTHER ->
         [s EXCEPT !.has_peek = TRUE, !.peek_loc = s.next, !.next = Following(@)]

PeekChar(s) == IF s.has_peek THEN s ELSE SourceStreamNext(s)

(* Every character is looked at before it is consumed.                     *)
ConsumeChar(s) == [s EXCEPT !.has_peek = FALSE]

(* The character held back: the stream turns a newline into a space.       *)
PeekedChar(s) ==
  LET c == text[s.peek_loc.index + 1] IN IF c = "\n" THEN " " ELSE c

(* Where the character held back is in memory: the "small hack" ptr - 1.   *)
PeekedAt(s) == s.next.index - 1

-----------------------------------------------------------------------------
(* The loops that consume characters.  A scan is the stream, the number of *)
(* characters consumed and the location of the last of them.               *)

Scan(s) == [s |-> s, n |-> 0, stop |-> s.peek_loc]
Take(scan, t) == [s |-> ConsumeChar(t), n |-> scan.n + 1, stop |-> t.peek_loc]

RECURSIVE ScanWhile(_, _)
ScanWhile(scan, chars) ==
  LET t == PeekChar(scan.s)
  IN  IF t.has_peek /\ PeekedChar(t) \in chars
      THEN ScanWhile(Take(scan, t), chars)
      ELSE [scan EXCEPT !.s = t]

ConsumeSpaces(s) == ScanWhile(Scan(s), {" "}).s

RECURSIVE ConsumeLine(_, _)
ConsumeLine(s, line) ==
  LET t == PeekChar(s)
  IN  IF t.has_peek /\ t.peek_loc.line = line
      THEN ConsumeLine(ConsumeChar(t), line)
      ELSE t

ConsumeCommentFromNextLine(s) ==
  LET t == PeekChar(ConsumeChar(PeekChar(s))) IN ConsumeLine(t, t.peek_loc.line)

ConsumeComment(s) ==
  LET t == PeekChar(s) IN ConsumeLine(t, t.peek_loc.line)

-----------------------------------------------------------------------------
(* Tokens, and what parsing one of them results in.                        *)

NoValue   == [kind |-> "none"]
Literal(kind, value) == [kind |-> kind, value |-> value]
Slice(kind, p, n)    == [kind |-> kind, p |-> p, n |-> n]
Token(type, start, stop, value) ==
  [type |-> type, start |-> start, stop |-> stop, value |-> value]

NoToken  == Token("none", Start, Start, NoValue)
TokenEOF == Token("EOF", Location(0, 0, 0), Location(0, 0, 0), NoValue)
TokenSingle(type, loc) == Token(type, loc, loc, NoValue)
TokenDoubleUnwrapped(type, loc) ==
  Token(type, loc, Location(loc.line, loc.column + 1, 0), NoValue)
TokenDouble(type, loc) ==
  Token(type, loc, Location(loc.line, Wrap(loc.column + 1), 0), NoValue)

(* An error is reported with a span, except where the code sets none.      *)
NoError == [code |-> "NONE", located |-> FALSE, start |-> Start, stop |-> Start]
LocatedError(code, start, stop) ==
  [code |-> code, located |-> TRUE, start |-> start, stop |-> stop]
UnlocatedError(code) == [NoError EXCEPT !.code = code]

Parsed(s, token) == [s |-> s, token |-> token, error |-> NoError]
Failed(s, err) == [s |-> s, token |-> NoToken, error |-> err]

-----------------------------------------------------------------------------
(* Strings, numbers and words.                                             *)

ConsumeString(s) ==
  LET open == s.peek_loc
      from == ConsumeChar(s)
      scan == ScanWhile(Scan(from), (ToSet(text) \cup {" "}) \ {"'"})
  IN  IF scan.s.has_peek
      THEN Parsed(ConsumeChar(scan.s),
                  Token("LITERAL", open, scan.s.peek_loc,
                        Slice("STRING", from.next.index, scan.n)))
      ELSE Failed(scan.s, LocatedError("UNTERMINATED_STRING", open, open))

(* The loop of nulang__consume_number, which stops at a second point.      *)
RECURSIVE ScanNumber(_, _)
ScanNumber(scan, has_dot) ==
  LET t == PeekChar(scan.s)
      c == PeekedChar(t)
  IN  CASE ~t.has_peek -> [scan |-> [scan EXCEPT !.s = t], dot |-> has_dot, bad |-> FALSE]
        [] t.has_peek /\ c \in Digits -> ScanNumber(Take(scan, t), has_dot)
        [] t.has_peek /\ c = "." /\ ~has_dot -> ScanNumber(Take(scan, t), TRUE)
        [] t.has_peek /\ c = "." /\ has_dot ->
             [scan |-> [scan EXCEPT !.s = t, !.stop = t.peek_loc], dot |-> TRUE, bad |-> TRUE]
        [] OTHER -> [scan |-> [scan EXCEPT !.s = t], dot |-> has_dot,
                     bad |-> c \in IdentifierChars]

ConsumeNumber(s) ==
  LET from == PeekedAt(s)
      start == s.peek_loc
      read == ScanNumber(Scan(s), FALSE)
      stop == read.scan.stop
      numeral == SubSeq(text, from + 1, from + read.scan.n)
      fix == ParseFix(numeral)
  IN  CASE read.bad ->
             Failed(read.scan.s, LocatedError("ILLEGAL_CHARACTER", start, stop))
        [] ~read.bad /\ ~read.dot ->
             Parsed(read.scan.s, Token("LITERAL", start, stop,
                                       Literal("INT", ParseInt(numeral))))
        [] ~read.bad /\ read.dot /\ fix.error ->
             Failed(read.scan.s, LocatedError("PARSE_FIXED_POINT", start, stop))
        [] OTHER ->
             Parsed(read.scan.s, Token("LITERAL", start, stop,
                                  Literal("FIX", [high |-> fix.high, low |-> fix.low])))

(* NULANG_MATCH_TOKEN with its arguments exchanged: the length is compared *)
(* with what is left of the text, and the first n characters with "and".   *)
MatchesAnd(from, n) ==
  /\ n = Len(text) - from
  /\ SubSeq(text, from + 1, Len(text)) \in {<<"a">>, <<"a", "n">>, <<"a", "n", "d">>}

WordToken(from, n, start, stop) ==
  LET word == Spelling(SubSeq(text, from + 1, from + n))
  IN  CASE word \in Keywords -> Token(word, start, stop, NoValue)
        [] word \notin Keywords /\ MatchesAnd(from, n) -> Token("and", start, stop, NoValue)
        [] word \in Constants -> Token("LITERAL", start, stop, Literal("WORD", word))
        [] word \in Primitives ->
             Token("PRIMITIVE", start, stop,
                   Literal("PRIMITIVE", IF word = "str" THEN "int" ELSE word))
        [] OTHER -> Token("IDENTIFIER", start, stop, Slice("IDENTIFIER", from, n))

ConsumeIdentifier(s) ==
  LET scan == ScanWhile(Scan(s), IdentifierChars)
  IN  Parsed(scan.s, WordToken(PeekedAt(s), scan.n, s.peek_loc, scan.stop))

-----------------------------------------------------------------------------
(* nulang__lexer_parse_token.                                              *)

(* The character behind the one looked at.                                 *)
Behind(t) == PeekChar(ConsumeChar(t))
Shows(s, c) == s.has_peek /\ PeekedChar(s) = c

ParseSign(t, c) == Parsed(ConsumeChar(t), TokenSingle(c, t.peek_loc))

ParseDoubled(t, c) ==
  LET after == Behind(t)
  IN  CASE Shows(after, "=") ->
             Parsed(ConsumeChar(after), TokenDouble(c \o "=", t.peek_loc))
        [] ~Shows(after, "=") /\ c # "!" -> Parsed(after, TokenSingle(c, t.peek_loc))
        [] OTHER -> Failed(after, UnlocatedError("ILLEGAL_CHARACTER"))

RECURSIVE ParseToken(_)
ParseToken(s) ==
  LET t == PeekChar(s)
      c == PeekedChar(t)
  IN  IF ~t.has_peek THEN Parsed(t, TokenEOF)
      ELSE CASE c = "-" ->
                  IF Shows(Behind(t), "-")
                  THEN ParseToken(ConsumeComment(ConsumeChar(Behind(t))))
                  ELSE Parsed(Behind(t), TokenSingle("-", t.peek_loc))
             [] c \in Signs   -> ParseSign(t, c)
             [] c \in Doubled -> ParseDoubled(t, c)
             [] c = " "       -> ParseToken(ConsumeSpaces(t))
             [] c = "'"       -> ConsumeString(t)
             [] c \in Digits  -> ConsumeNumber(t)
             [] c \in IdentifierChars \ Digits -> ConsumeIdentifier(t)
             [] OTHER         -> ParseToken(ConsumeChar(t))

-----------------------------------------------------------------------------
(* The calls of the client, which stops at the first error and at the end. *)

Init ==
  /\ text \in Texts
  /\ stream = StreamInit
  /\ peeks = <<>>
  /\ last = NoToken
  /\ error = NoError
  /\ status = "lexing"

TakeToken(token) ==
  /\ last' = token
  /\ status' = IF token.type = "EOF" THEN "ended" ELSE status

Fail(err) ==
  /\ error' = err
  /\ status' = "failed"

NextPeekedRotates ==
  /\ status = "lexing"
  /\ peeks # <<>>
  /\ TakeToken(Head(peeks))
  /\ peeks' = Append(Tail(peeks), Head(peeks))
  /\ UNCHANGED <<text, stream, error>>

(* nulang__lexer_next with a token looked at before.                       *)
NextPeeked ==
  /\ status = "lexing"
  /\ peeks # <<>>
  /\ TakeToken(Head(peeks))
  /\ peeks' = Tail(peeks)
  /\ UNCHANGED <<text, stream, error>>

(* nulang__lexer_next with nothing looked at.                              *)
NextParsed ==
  /\ status = "lexing"
  /\ peeks = <<>>
  /\ LET parsed == ParseToken(stream)
     IN  /\ stream' = parsed.s
         /\ \/ /\ parsed.error = NoError
               /\ TakeToken(parsed.token)
               /\ UNCHANGED error
            \/ /\ parsed.error # NoError
               /\ Fail(parsed.error)
               /\ UNCHANGED last
  /\ UNCHANGED <<text, peeks>>

RECURSIVE FillPeeks(_, _, _)
FillPeeks(s, tokens, lookahead) ==
  LET parsed == ParseToken(s)
  IN  CASE Len(tokens) > lookahead -> [s |-> s, tokens |-> tokens, error |-> NoError]
        [] Len(tokens) <= lookahead /\ parsed.error # NoError ->
             [s |-> parsed.s, tokens |-> tokens, error |-> parsed.error]
        [] OTHER -> FillPeeks(parsed.s, Append(tokens, parsed.token), lookahead)

(* nulang__lexer_peek: the tokens parsed before an error stay in peeks.    *)
LexerPeek(lookahead) ==
  /\ status = "lexing"
  /\ LET filled == FillPeeks(stream, peeks, lookahead)
     IN  /\ stream' = filled.s
         /\ peeks' = filled.tokens
         /\ \/ /\ filled.error = NoError
               /\ UNCHANGED <<error, status>>
            \/ /\ filled.error # NoError
               /\ Fail(filled.error)
  /\ UNCHANGED <<text, last>>

LexerNext == NextPeeked \/ NextParsed

Next == LexerNext \/ \E lookahead \in Lookaheads : LexerPeek(lookahead)

Spec == Init /\ [][Next]_vars

(* The loops of the parser and of nulang__lexer_print_tokens take tokens   *)
(* until they get the end or an error.  This is WF_vars(LexerNext), whose  *)
(* action is enabled exactly while the status is "lexing": TLC would parse *)
(* a token once for every use of it to find that out.                      *)
ClientKeepsReading ==
  []<>(status # "lexing") \/ []<><<LexerNext>>_vars

FairSpec == Spec /\ ClientKeepsReading

-----------------------------------------------------------------------------
(* What nulang_print_status prints of the text: the characters from        *)
(* ReportStart to before ReportStop, and a caret under that of the error.  *)

RECURSIVE ReportStart(_)
ReportStartAtNewline(i) ==
  CASE i = 0 -> 0
    [] i > 0 /\ text[i + 1] = "\n" -> i
    [] OTHER -> ReportStart(i - 1)

ReportStart(i) ==
  CASE i = 0 -> 0
    [] i > 0 /\ text[i + 1] = "\n" -> i + 1
    [] OTHER -> ReportStart(i - 1)

RECURSIVE ReportStop(_)
ReportStop(i) ==
  IF i < Len(text) /\ text[i + 1] # "\n" THEN ReportStop(i + 1) ELSE i

-----------------------------------------------------------------------------
(* Properties.                                                             *)

Produced == ToSet(peeks) \cup {last}
Newlines(i) == { k \in 1..i : text[k] = "\n" }

Locations == [line: 0..(2 ^ LocationBits - 1), column: 0..(2 ^ LocationBits - 1),
              index: 0..(Len(text) + 1)]

(* The stream is where its last character says, no more tokens are looked  *)
(* at than the array of lexer.h:24 has room for, and spans fit their words.*)
TypeOK ==
  /\ stream \in [next: Locations, ended: BOOLEAN, has_peek: BOOLEAN, peek_loc: Locations]
  /\ stream.has_peek => stream.next = Following(stream.peek_loc)
  /\ stream.ended <=> stream.next.index = Len(text) + 1
  /\ Len(peeks) <= 5
  /\ \A token \in Produced : {token.start, token.stop} \subseteq Locations
  /\ status \in {"lexing", "ended", "failed"}
  /\ (status = "failed") = (error # NoError)

(* Lines and columns are those of the characters the span's indices name,  *)
(* counted from 1 and cut to their width: a newline ends the line it is on *)
(* (lexer.h:52-80), also inside of a string.                               *)
IsLocated(loc) ==
  LET breaks == Newlines(loc.index)
  IN  /\ loc.line = Wrap(1 + Cardinality(breaks))
      /\ loc.column = Wrap(1 + loc.index - Max(breaks \cup {0}))

DoubleTypes == {"==", "<=", ">=", "!="}

SpansAreExact ==
  \A token \in Produced \ {TokenEOF} :
    /\ IsLocated(token.start)
    /\ IF token.type \in DoubleTypes
       THEN IsLocated([token.stop EXCEPT !.index = token.start.index + 1])
       ELSE IsLocated(token.stop)

(* The value of a numeral is the number it denotes, a fixed-point one cut  *)
(* to 16 bits before the point and rounded down to 16 bits behind it.      *)
(* Numerals of more than nine digits before the point are left out: their  *)
(* number need not fit the word.                                           *)
Number(from, to) ==
  MapThenSumSet(LAMBDA k : DigitValue[text[k + 1]] * 10 ^ (to - k), from..to)

PointIn(from, to) == CHOOSE k \in from..to : text[k + 1] = "."

DenotesInt(word, from, to) ==
  to - from < 9 => word = [known |-> TRUE, value |-> Number(from, to)]

(* The 16 bits behind the point as two digits of base 256.                 *)
DenotesFix(word, from, to) ==
  LET point == PointIn(from, to)
      base  == 10 ^ (to - point)
      high  == Number(point + 1, to) * 256
  IN  /\ point - from < 10 => word.high = Number(from, point - 1) % 65536
      /\ word.low = (high \div base) * 256 + ((high % base) * 256) \div base

LiteralsDenoteNumbers ==
  \A token \in Produced :
    /\ token.value.kind = "INT" =>
         DenotesInt(token.value.value, token.start.index, token.stop.index)
    /\ token.value.kind = "FIX" =>
         DenotesFix(token.value.value, token.start.index, token.stop.index)

(* A failure points at the start of the numeral or the string it is about, *)
(* and what nulang_print_status prints of the text is the line of it.  Two *)
(* things are as the code has them: a lone "!" sets no span                *)
(* (lexer.h:586-601), and a newline that is the first character of the     *)
(* text is printed with the second line, since the loop of print.h:227-235 *)
(* does not look at character 0.                                           *)
LoneBang == \E k \in DOMAIN text : text[k] = "!" /\ (k = Len(text) \/ text[k + 1] # "=")

PrintsTheLineOf(i) ==
  /\ ReportStart(i) \in 0..i
  /\ ReportStart(i) > 0 => text[ReportStart(i)] = "\n"
  /\ ReportStop(i) < Len(text) => text[ReportStop(i) + 1] = "\n"
  /\ \A k \in ReportStart(i)..(ReportStop(i) - 1) : k > 0 => text[k + 1] # "\n"

ReportShowsTheLexeme ==
  status = "failed" =>
    \/ ~error.located /\ LoneBang
    \/ LET i == error.start.index
       IN  /\ error.located
           /\ IsLocated(error.start)
           /\ text[i + 1] \in Digits \cup {"'"}
           /\ PrintsTheLineOf(i)

(* Every text comes to its end or to an error after finitely many calls.   *)
EveryTextIsRead == <>(status # "lexing")

(* The client is delivered the lexemes of the text, in order, each once,   *)
(* whatever it looked at before: no lexeme is skipped, split, joined or    *)
(* shown twice, and a text is refused for an illegal lexeme only.          *)
Extent(token) ==
  CASE token.type \in {"none", "EOF"} -> [type |-> token.type, from |-> 0, to |-> 0]
    [] token.value.kind = "IDENTIFIER" ->
         [type |-> token.type, from |-> token.value.p,
          to |-> token.value.p + token.value.n]
    [] token.value.kind = "STRING" ->
         [type |-> token.type, from |-> token.value.p - 1,
          to |-> token.value.p + token.value.n + 1]
    [] token.type \in DoubleTypes ->
         [type |-> token.type, from |-> token.start.index, to |-> token.start.index + 2]
    [] OTHER ->
         [type |-> token.type, from |-> token.start.index, to |-> token.stop.index + 1]

Promise == INSTANCE TokenStream
  WITH source <- text,
       lexeme <- Extent(last),
       position <- IF last.type = "EOF" THEN Len(text) ELSE Extent(last).to,
       outcome <- IF status = "lexing" THEN "reading" ELSE status,
       Lookahead <- Max(Lookaheads)

ImplementsTokenStream == Promise!Spec
=============================================================================
