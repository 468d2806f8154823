----------------------------- MODULE SmtStrings -----------------------------
(***************************************************************************)
(* Strings as the solver sees them: a string is the sequence of its code     *)
(* points, and the operators are those of SMT-LIB's theory of strings that   *)
(* the expressions of core/str/ are built from.                              *)
(***************************************************************************)
EXTENDS Integers, Sequences, SequencesExt

-----------------------------------------------------------------------------
(* Code points *)

Newline == 10
Space == 32
Minus == 45
Digit == 48..57
UpperLetter == 65..90
LowerLetter == 97..122
Letter == UpperLetter \cup LowerLetter
All(s, class) == s # <<>> /\ ToSet(s) \subseteq class

-----------------------------------------------------------------------------
(* SMT-LIB's theory of strings; positions begin at 0. *)

Least(a, b) == IF a < b THEN a ELSE b

Substr(s, i, n) ==
    IF i < 0 \/ i >= Len(s) \/ n <= 0 THEN <<>> ELSE SubSeq(s, i + 1, Least(i + n, Len(s)))

OccursAt(s, t, i) == i + Len(t) <= Len(s) /\ SubSeq(s, i + 1, i + Len(t)) = t

Occurrences(s, t, i) == {j \in i..Len(s) : OccursAt(s, t, j)}

IndexOf(s, t, i) ==
    IF i < 0 \/ Occurrences(s, t, i) = {} THEN -1 ELSE Min(Occurrences(s, t, i))

Has(s, t) == Occurrences(s, t, 0) # {}
StartsWith(s, t) == OccursAt(s, t, 0)
EndsWith(s, t) == Len(t) <= Len(s) /\ OccursAt(s, t, Len(s) - Len(t))

\* Matches are taken from left to right and do not overlap.
ReplaceEach(s, t, u) ==
    LET from[i \in 0..Len(s)] ==
            IF i = Len(s) THEN <<>>
            ELSE IF OccursAt(s, t, i) THEN u \o from[i + Len(t)]
            ELSE <<s[i + 1]>> \o from[i + 1]
    IN  IF t = <<>> THEN s ELSE from[0]

Precedes(s, t) ==
    \/ Len(s) < Len(t) /\ StartsWith(t, s)
    \/ \E i \in 1..Least(Len(s), Len(t)) :
         s[i] < t[i] /\ SubSeq(s, 1, i - 1) = SubSeq(t, 1, i - 1)

Number(s) ==
    LET upTo[n \in 0..Len(s)] == IF n = 0 THEN 0 ELSE 10 * upTo[n - 1] + (s[n] - 48)
    IN  upTo[Len(s)]
StrToInt(s) == IF All(s, Digit) THEN Number(s) ELSE -1

\* The chains of 26 str.replace_all that CaseConverter emits.
Lower(s) == [i \in 1..Len(s) |-> IF s[i] \in UpperLetter THEN s[i] + 32 ELSE s[i]]
Upper(s) == [i \in 1..Len(s) |-> IF s[i] \in LowerLetter THEN s[i] - 32 ELSE s[i]]

=============================================================================
