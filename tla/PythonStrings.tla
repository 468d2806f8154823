--------------------------- MODULE PythonStrings ---------------------------
(***************************************************************************)
(* What Python's str does with the strings of SmtStrings.  Python knows the *)
(* letters, digits and blanks of every script, SMT-LIB's expressions those   *)
(* of ASCII: what lies beyond is described by one constant.                 *)
(***************************************************************************)
EXTENDS SmtStrings

CONSTANT Unicode   \* the characters beyond ASCII, as str knows them

Classes == {"alpha", "decimal", "digit", "numeric", "blank", "lower", "upper"}

Character == [classes : SUBSET Classes, numeral : 0..9, lower : Seq(Nat), upper : Seq(Nat)]

ASSUME UnicodeAssumption ==
    /\ DOMAIN Unicode \subseteq Nat \ 0..127
    /\ \A c \in DOMAIN Unicode : Unicode[c] \in Character

-----------------------------------------------------------------------------
(* Classes of characters *)

Beyond(class) == {c \in DOMAIN Unicode : class \in Unicode[c].classes}

PyLetter == Letter \cup Beyond("alpha")
PyDecimal == Digit \cup Beyond("decimal")
PyDigit == Digit \cup Beyond("digit")
PyNumeric == Digit \cup Beyond("numeric")
PyAlphanumeric == PyLetter \cup PyDecimal \cup PyDigit \cup PyNumeric
PyLowerLetter == LowerLetter \cup Beyond("lower")
PyUpperLetter == UpperLetter \cup Beyond("upper")
Blank == 9..13 \cup 28..32 \cup Beyond("blank")

Lacks(s, chars) == ToSet(s) \cap chars = {}
Ascii(s) == Lacks(s, DOMAIN Unicode)

\* str.islower: a letter of the case, and none of the other.
IsCase(s, own) ==
    LET cased == ToSet(s) \cap (PyLowerLetter \cup PyUpperLetter)
    IN  cased # {} /\ cased \subseteq own

\* A letter may become several: the upper case of a German sharp s is SS.
PyLower(s) ==
    IF Ascii(s) THEN Lower(s)
    ELSE FlattenSeq([i \in 1..Len(s) |->
             IF s[i] \in DOMAIN Unicode THEN Unicode[s[i]].lower ELSE Lower(<<s[i]>>)])
PyUpper(s) ==
    IF Ascii(s) THEN Upper(s)
    ELSE FlattenSeq([i \in 1..Len(s) |->
             IF s[i] \in DOMAIN Unicode THEN Unicode[s[i]].upper ELSE Upper(<<s[i]>>)])

-----------------------------------------------------------------------------
(* Parts of a string *)

Clamp(i, n) == IF i < 0 THEN (IF i + n < 0 THEN 0 ELSE i + n) ELSE i

Slice(s, a, b) ==
    LET from == Clamp(a, Len(s))
        to   == Least(Clamp(b, Len(s)), Len(s))
    IN  Substr(s, from, to - from)

\* Matches of t in s[a:b]; an empty t does not match beyond the end.
Found(s, t, a, b) ==
    LET from == Clamp(a, Len(s))
        to   == Least(Clamp(b, Len(s)), Len(s))
    IN  {j \in from..(to - Len(t)) : OccursAt(s, t, j)}

CountOf(s, t, a, b) ==
    IF t = <<>>
    THEN LET n == Least(Clamp(b, Len(s)), Len(s)) - Clamp(a, Len(s)) + 1
         IN  IF n < 0 THEN 0 ELSE n
    ELSE (Len(Slice(s, a, b)) - Len(ReplaceEach(Slice(s, a, b), t, <<>>))) \div Len(t)

WithBetween(s, u) ==
    LET upTo[n \in 0..Len(s)] == IF n = 0 THEN u ELSE upTo[n - 1] \o <<s[n]>> \o u
    IN  upTo[Len(s)]

PyReplace(s, t, u) == IF t = <<>> THEN WithBetween(s, u) ELSE ReplaceEach(s, t, u)

\* from[i][k]: the rest of s from position i on, with k replacements left.
ReplaceFirst(s, t, u, n) ==
    LET from[i \in 0..Len(s)] ==
            [k \in 0..n |->
               LET hit  == k > 0 /\ OccursAt(s, t, i)
                   next == IF hit /\ t # <<>> THEN i + Len(t) ELSE i + 1
               IN  (IF hit THEN u ELSE <<>>)
                   \o (IF hit /\ t # <<>> THEN <<>> ELSE Substr(s, i, 1))
                   \o (IF next > Len(s) THEN <<>> ELSE from[next][IF hit THEN k - 1 ELSE k])]
    IN  from[0][n]

StripLeft(s, chars) ==
    LET kept == {i \in DOMAIN s : s[i] \notin chars}
    IN  IF kept = {} THEN <<>> ELSE SubSeq(s, Min(kept), Len(s))
StripRight(s, chars) == Reverse(StripLeft(Reverse(s), chars))

-----------------------------------------------------------------------------
(* int(text) *)

PlusSign == 43
Underscore == 95

Unsigned(s) == IF StartsWith(s, <<Minus>>) THEN Tail(s) ELSE s
Sign(s) == IF StartsWith(s, <<Minus>>) THEN -1 ELSE 1

\* Digits and blanks of other scripts are read as ASCII's.
InAscii(s) ==
    [i \in 1..Len(s) |-> CASE s[i] \in Beyond("decimal") -> 48 + Unicode[s[i]].numeral
                           [] s[i] \in Beyond("blank")   -> Space
                           [] OTHER                     -> s[i]]

\* Fewer blanks surround a number than strip removes.
IntBlank == 9..13 \cup {Space}
Trimmed(s) == StripLeft(StripRight(InAscii(s), IntBlank), IntBlank)

Numerals(s) ==
    IF StartsWith(Trimmed(s), <<PlusSign>>) THEN Tail(Trimmed(s)) ELSE Unsigned(Trimmed(s))

\* Single underscores may separate the digits.
IsLiteral(s) ==
    /\ All(Numerals(s), Digit \cup {Underscore})
    /\ {Head(Numerals(s)), Last(Numerals(s))} \subseteq Digit
    /\ ~Has(Numerals(s), <<Underscore, Underscore>>)

IntOf(s) == Sign(Trimmed(s)) * Number(ReplaceEach(Numerals(s), <<Underscore>>, <<>>))

=============================================================================
