------------------------------ MODULE Numerals ------------------------------
(***************************************************************************)
(* The conversions of numerals to words of nucleus/vm/math.h, nu_iparse    *)
(* and nu_fparse, as the lexer calls them: on a sequence of digits, with   *)
(* one point in it for a fixed-point numeral.  The lexer never passes a    *)
(* sign ("-" is a token of its own), so the signed branches are left out.  *)
(*                                                                         *)
(* The words keep the width they have in C without leaving the integers    *)
(* TLC can hold: a fixed-point word is the pair of its 16-bit halves.      *)
(***************************************************************************)
EXTENDS Integers, Sequences, SequencesExt

Digits == {"0", "1", "2", "3", "4", "5", "6", "7", "8", "9"}

DigitValue ==
  [d \in Digits |-> (CHOOSE i \in 1..10 :
     <<"0", "1", "2", "3", "4", "5", "6", "7", "8", "9">>[i] = d) - 1]

MaxDecimals == 6

(***************************************************************************)
(* One step of nu_iparse: value * 10 + digit, where value is a signed      *)
(* 32-bit word and the digit unsigned.  The product overflows when value   *)
(* leaves -214748364 .. 214748364: that is undefined behaviour, and the    *)
(* word is any word from there on.  The sum is unsigned and wraps.         *)
(***************************************************************************)
AnyWord == [known |-> FALSE, value |-> 0]

PushDigit(word, d) ==
  IF ~word.known \/ word.value > 214748364 \/ word.value < -214748364
  THEN AnyWord
  ELSE IF word.value = 214748364 /\ DigitValue[d] >= 8
  THEN [known |-> TRUE, value |-> (DigitValue[d] - 8) - 2147483647 - 1]
  ELSE [known |-> TRUE, value |-> word.value * 10 + DigitValue[d]]

(* nu_iparse on a sequence of digits.                                      *)
ParseInt(numeral) ==
  FoldLeft(PushDigit, [known |-> TRUE, value |-> 0], numeral)

(***************************************************************************)
(* The loop of nu_fparse over the characters: the integral part, of which  *)
(* only the low half survives the later shift by 16, the decimals as one   *)
(* number and how many they are, and whether there are too many of them.   *)
(***************************************************************************)
ReadCharacter(acc, c) ==
  CASE c = "."                                -> [acc EXCEPT !.point = TRUE]
    [] c # "." /\ ~acc.point                  ->
         [acc EXCEPT !.inte = (@ * 10 + DigitValue[c]) % 65536]
    [] c # "." /\ acc.point /\ acc.dp < MaxDecimals ->
         [acc EXCEPT !.frac = @ * 10 + DigitValue[c], !.dp = @ + 1]
    [] OTHER                                  -> [acc EXCEPT !.error = TRUE]

ReadFix(numeral) ==
  FoldLeft(ReadCharacter,
           [inte |-> 0, frac |-> 0, dp |-> 0, point |-> FALSE, error |-> FALSE],
           numeral)

(* The binary fraction of frac / base: one doubling for each of its bits.  *)
DoubleOnceStrict(acc, base) ==
  IF 2 * acc.frac > base
  THEN [frac |-> 2 * acc.frac - base, low |-> 2 * acc.low + 1]
  ELSE [frac |-> 2 * acc.frac, low |-> 2 * acc.low]

DoubleOnce(acc, base) ==
  IF 2 * acc.frac >= base
  THEN [frac |-> 2 * acc.frac - base, low |-> 2 * acc.low + 1]
  ELSE [frac |-> 2 * acc.frac, low |-> 2 * acc.low]

BinaryFraction(frac, base) ==
  FoldLeft(LAMBDA acc, i : DoubleOnce(acc, base),
           [frac |-> frac, low |-> 0], [i \in 1..16 |-> i]).low

(* nu_fparse on digits with a point among them.                            *)
ParseFix(numeral) ==
  LET read == ReadFix(numeral)
  IN  [error |-> read.error,
       high  |-> read.inte,
       low   |-> BinaryFraction(read.frac, 10 ^ read.dp)]
=============================================================================
