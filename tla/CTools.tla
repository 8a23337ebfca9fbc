------------------------------ MODULE CTools --------------------------------
(***************************************************************************)
(* The tools of toolsdir/ctools.c that the rolodex of hw2 reads its user   *)
(* and its entries with.  A string is a sequence of characters.            *)
(***************************************************************************)
EXTENDS Integers, Sequences, SequencesExt

CONSTANT MAXINTSTR  \* the digits of the greatest int, 2147483647

Letters ==
  {<<"a","A">>, <<"b","B">>, <<"c","C">>, <<"d","D">>, <<"e","E">>, <<"f","F">>,
   <<"g","G">>, <<"h","H">>, <<"i","I">>, <<"j","J">>, <<"k","K">>, <<"l","L">>,
   <<"m","M">>, <<"n","N">>, <<"o","O">>, <<"p","P">>, <<"q","Q">>, <<"r","R">>,
   <<"s","S">>, <<"t","T">>, <<"u","U">>, <<"v","V">>, <<"w","W">>, <<"x","X">>,
   <<"y","Y">>, <<"z","Z">>}
Lower == {l[1] : l \in Letters}
UpperOf == [c \in Lower |-> (CHOOSE l \in Letters : l[1] = c)[2]]
ToUpperIfLower(c) == IF c \in Lower THEN UpperOf[c] ELSE c

Digits == <<"0", "1", "2", "3", "4", "5", "6", "7", "8", "9">>
DigitOf == [d \in ToSet(Digits) |-> (CHOOSE n \in DOMAIN Digits : Digits[n] = d) - 1]
NumberOf(s) == FoldLeft(LAMBDA n, d : 10 * n + DigitOf[d], 0, s)

ASSUME CToolsAssumption == MAXINTSTR \in Seq(ToSet(Digits)) \ {<<>>}

MAXINT == NumberOf(MAXINTSTR)

-----------------------------------------------------------------------------
(* Comparing and searching.                                                *)

\* nocase_compare is 0
NocaseEqual(s, t) ==
  Len(s) = Len(t) /\ \A i \in DOMAIN s : ToUpperIfLower(s[i]) = ToUpperIfLower(t[i])

StrNCSearch_Short(s, t) ==
  \E p \in 1..Len(s) - Len(t) : NocaseEqual(SubSeq(s, p, p + Len(t) - 1), t)

\* the pointer it returns is only compared with 0
StrNCSearch(s, t) ==
  \E p \in 1..Len(s) - Len(t) + 1 : NocaseEqual(SubSeq(s, p, p + Len(t) - 1), t)

-----------------------------------------------------------------------------
(* Testing and converting.                                                 *)

AllWhitespace(s) == \A i \in DOMAIN s : s[i] \in {" ", "\t"}

AllDigits(s) == \A i \in DOMAIN s : s[i] \in ToSet(Digits)

\* one of several blanks stays, none at either end
RemoveExcessBlanks(s) ==
  LET stays(i) == s[i] # " " \/ /\ i > 1 /\ s[i - 1] # " "
                                /\ \E j \in i + 1..Len(s) : s[j] # " "
      kept == SelectSeq([i \in DOMAIN s |-> i], stays)
  IN [i \in DOMAIN kept |-> s[kept[i]]]

\* an int holds the rest of a number that is too great for it
AsInt(n) ==
  LET rest == n % (2 * (MAXINT + 1)) IN
  IF rest > MAXINT THEN rest - 2 * (MAXINT + 1) ELSE rest

\* the first difference, as strcmp returns it or as a sign
StrcmpMayBeOne(s, t) ==
  LET differs == {i \in DOMAIN s : s[i] # t[i]} IN
  differs # {} /\ LET i == CHOOSE i \in differs : \A j \in differs : i <= j
                  IN DigitOf[s[i]] > DigitOf[t[i]]
StrcmpMustBeOne(s, t) ==
  StrcmpMayBeOne(s, t) /\ \A i \in DOMAIN s :
    (\A j \in 1..i - 1 : s[j] = t[j]) /\ s[i] # t[i] => DigitOf[s[i]] = DigitOf[t[i]] + 1

\* the numbers it may return; -1 is no number, -2 out of range
StrToPosInt(s, low, high) ==
  LET value == AsInt(NumberOf(s))
      scanned == IF value < low \/ value > high THEN -2 ELSE value
  IN IF ~AllDigits(s) THEN {-1}
     ELSE IF Len(s) > Len(MAXINTSTR) THEN {-2}
     ELSE IF Len(s) < Len(MAXINTSTR) THEN {scanned}
     ELSE (IF StrcmpMayBeOne(s, MAXINTSTR) THEN {-2} ELSE {})
            \cup (IF StrcmpMustBeOne(s, MAXINTSTR) THEN {} ELSE {scanned})

-----------------------------------------------------------------------------
(* Reading.                                                                *)

\* what is read before the first newline of a text, or before its end
LineLength(text) ==
  CHOOSE n \in 0..Len(text) :
    (n = Len(text) \/ text[n + 1] = "\n") /\ \A i \in 1..n : text[i] # "\n"

\* status is "eof", "too many" or "line"; what of a line does not fit is left
GetLine(text, buflen) ==
  LET n == LineLength(text) IN
  IF text = <<>> THEN [status |-> "eof", line |-> <<>>, rest |-> <<>>]
  ELSE IF n >= buflen
    THEN [status |-> "too many", line |-> SubSeq(text, 1, buflen - 1),
          rest |-> SubSeq(text, buflen, Len(text))]
  ELSE [status |-> "line", line |-> SubSeq(text, 1, n),
        rest |-> SubSeq(text, n + 2, Len(text))]

\* what fgets(3) leaves: it reads up to the end of a line, with the newline, if that fits
AfterFgets(text, size) ==
  LET n == LineLength(text) IN
  SubSeq(text, IF n < size - 1 THEN n + 2 ELSE size, Len(text))

=============================================================================
