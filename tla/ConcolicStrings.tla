-------------------------- MODULE ConcolicStrings --------------------------
(***************************************************************************)
(* Concolic strings (core/str/) beside the numbers of ConcolicNumbers.      *)
(*                                                                          *)
(* A string is the sequence of its code points.  Indices are ints and are   *)
(* therefore in halves, like every number of the model; At0 turns them back *)
(* into positions.  As for numbers, `den' is the string the SMT expression  *)
(* denotes under the inputs of the execution.                               *)
(***************************************************************************)
EXTENDS ConcolicNumbers, PythonStrings

CONSTANTS Texts,      \* values of the symbolic string input
          Pieces,     \* string constants of the target
          MaxLength   \* longest string kept

ASSUME StringsAssumption ==
    /\ Texts \subseteq Seq(Nat)
    /\ Pieces \subseteq Seq(Nat)
    /\ MaxLength \in Nat

-----------------------------------------------------------------------------
Numeral(n) == <<48 + n>>

-----------------------------------------------------------------------------
(* Values *)

Str(v, d, e) == [type |-> "str", val |-> v, den |-> d, exact |-> e, plain |-> FALSE]
PlainStr(v) == [Str(v, v, TRUE) EXCEPT !.plain = TRUE]
Untracked(v) == Str(v, v, TRUE)
Flag(p, q, e) == Concolic("bool", Truth(p), Truth(q), e)
Count(n, m, e) == Concolic("int", 2 * n, 2 * m, e)
At0(h) == h \div 2

Condition(p, q, e) == Registered(Flag(p, q, e))

Size(s) == Count(Len(s.val), Len(s.den), s.exact)

Concat(s, t) == Str(s.val \o t.val, s.den \o t.den, s.exact /\ t.exact)

\* _normalize_index: a negative index is counted from the end, below it is 0.
FromStart(i, s) ==
    IF i.val >= 0 THEN i
    ELSE IF i.val + 2 * Len(s.val) < 0 THEN Count(0, 0, TRUE)
    ELSE Concolic("int", i.val + 2 * Len(s.val), i.den + 2 * Len(s.den), i.exact /\ s.exact)

WholeLength(s) == Count(Len(s.val), Len(s.val), TRUE)
Zero == Count(0, 0, TRUE)

\* SubstringHelper.substr
Sub(s, start, end) ==
    LET a == FromStart(start, s)
        b == FromStart(end, s)
    IN  IF a.val = 0 /\ At0(b.val) = Len(s.val) THEN s
        ELSE Str(Slice(s.val, At0(start.val), At0(end.val)),
                 Substr(s.den, At0(a.den), At0(b.den) - At0(a.den)),
                 s.exact /\ start.exact /\ end.exact)

\* StringQueries.find: a position relative to the region, plus the start.
FindIn(s, t, start, end) ==
    LET region == Sub(s, start, end)
        found  == Found(s.val, t.val, At0(start.val), At0(end.val))
        index  == IF found = {} THEN -1 ELSE Min(found)
    IN  [value  |-> Count(index, At0(start.den) + IndexOf(region.den, t.den, 0),
                          region.exact /\ t.exact
                          /\ (start.val = 0 \/ (start.val > 0 /\ found # {}))),
         branch |-> Condition(Has(region.val, t.val), Has(region.den, t.den),
                              region.exact /\ t.exact)]

Find(s, t) == FindIn(s, t, Zero, WholeLength(s))

Plus(i, j) == Concolic("int", i.val + j.val, i.den + j.den, i.exact /\ j.exact)

After__OneTooFar(s, t, i) == Sub(s, Plus(Plus(i, t), Count(1, 1, TRUE)), WholeLength(s))

\* The rest of s after an occurrence of t at position i.
After(s, t, i) == Sub(s, Plus(i, t), WholeLength(s))

\* _bounded_replace: once nothing is found, the turns that are left change nothing.
BoundedReplace(s, old, new, count) ==
    LET turn[k \in 0..count] ==
            IF k = 0 THEN [done |-> Untracked(<<>>), current |-> s, branches |-> {}]
            ELSE LET r    == turn[k - 1]
                     at   == Find(r.current, old)
                     seen == r.branches \cup {at.branch}
                 IN  IF at.value.val = -2 THEN [r EXCEPT !.branches = seen]
                     ELSE [done     |-> Concat(Concat(r.done, Sub(r.current, Zero, at.value)), new),
                           current  |-> After(r.current, Size(old), at.value),
                           branches |-> seen]
    IN  [value    |-> Concat(turn[count].done, turn[count].current),
         branches |-> turn[count].branches]

\* split: a turn cuts the rest at its first separator, until none is left or as many
\* cuts were made as asked for; the length of the separator enters the expression as
\* a constant.
Split(s, sep, max) ==
    LET turn[k \in 0..(Len(s.val) + 1)] ==
            IF k = 0 THEN [before |-> <<>>, rest |-> s, branches |-> {}]
            ELSE LET r    == turn[k - 1]
                     at   == Find(r.rest, sep)
                     seen == r.branches \cup {at.branch}
                 IN  IF Len(r.before) = max \/ at.value.val = -2 THEN [r EXCEPT !.branches = seen]
                     ELSE [before   |-> Append(r.before, Sub(r.rest, Zero, at.value)),
                           rest     |-> After(r.rest, WholeLength(sep), at.value),
                           branches |-> seen]
        last == turn[Len(s.val) + 1]
    IN  [parts |-> Append(last.before, last.rest), branches |-> last.branches]

\* _build_strip_expression: as many conditional cuts as the concrete string needs.
CutLeft(d, chars, n) ==
    LET cut[k \in 0..n] ==
            IF k = 0 THEN d
            ELSE IF cut[k - 1] # <<>> /\ cut[k - 1][1] \in chars THEN Tail(cut[k - 1]) ELSE cut[k - 1]
    IN  cut[n]
CutRight(d, chars, n) == Reverse(CutLeft(Reverse(d), chars, n))

\* chars = {} stands for the default: Python strips blanks, the expression spaces.
Concretely(chars) == IF chars = {} THEN Blank ELSE chars
Symbolically(chars) == IF chars = {} THEN {Space} ELSE chars

LStrip(s, chars) ==
    LET v    == StripLeft(s.val, Concretely(chars))
        cuts == Len(s.val) - Len(StripLeft(s.val, Symbolically(chars)))
    IN  Str(v, CutLeft(s.den, Symbolically(chars), cuts),
            s.exact /\ cuts = Len(s.val) - Len(v))

RStrip(s, chars) ==
    LET v    == StripRight(s.val, Concretely(chars))
        cuts == Len(s.val) - Len(StripRight(s.val, Symbolically(chars)))
    IN  Str(v, CutRight(s.den, Symbolically(chars), cuts),
            s.exact /\ cuts = Len(s.val) - Len(v))

Verified(s, concrete) == IF s.val = concrete THEN s ELSE Untracked(concrete)

IntegerTest__NoSign(s) ==
    Condition(All(Unsigned(s.val), Digit), All(s.den, Digit), s.exact)

\* is_integer_string: the $ of the regular expression forgives a final newline, and
\* its \d takes the digits of every script.
IntegerTest(s) ==
    LET body == IF EndsWith(s.val, <<Newline>>) THEN Front(s.val) ELSE s.val
    IN  Condition(All(Unsigned(body), PyDecimal), All(Unsigned(s.den), Digit),
                  s.exact /\ body = s.val /\ Lacks(s.val, PyDecimal \ Digit))

\* What str.to_int reads as int(text) does; "+1", "1_0" and " 1" it does not.
StrictLiteral(s) == All(Unsigned(s), Digit)

StrToIntValue(s) ==
    Count(IntOf(s.val), Sign(s.den) * StrToInt(Unsigned(s.den)),
          s.exact /\ StrictLiteral(s.val))

-----------------------------------------------------------------------------
StrInit ==
    /\ \/ \E t \in {"int", "float"}, v \in Inputs : acc = Concolic(t, v, v, TRUE)
       \/ \E v \in Texts : acc = Str(v, v, TRUE)
    /\ acc.type = "int" => Whole(acc.val)
    /\ branches = {}
    /\ error = "none"
    /\ loop = NoLoop
    /\ steps = 0

StrOperands == {PlainStr(v) : v \in Pieces} \cup {Str(v, v, TRUE) : v \in Pieces}

Indices == {i \in Operands : i.type = "int"}

OnString == Running /\ acc.type = "str"

Yields(c) ==
    /\ c.type = "str" => Len(c.val) <= MaxLength
    /\ c.type # "str" => -Bound <= c.val /\ c.val <= Bound
    /\ acc' = c
    /\ steps' = steps + 1
    /\ UNCHANGED <<error, loop>>

Joining ==
    /\ OnString
    /\ \/ \E t \in StrOperands : Yields(Concat(acc, t)) \/ Yields(Concat(t, acc))
       \/ \E n \in {-1, 0, 1, 2} :
            Yields(Str(FlattenSeq([i \in 1..n |-> acc.val]),
                       FlattenSeq([i \in 1..n |-> acc.den]), acc.exact))
    /\ UNCHANGED branches

\* Order is tracked between alphanumeric strings only.
Ordering(s, t) ==
    IF All(s.val, PyAlphanumeric) /\ All(t.val, PyAlphanumeric)
    THEN Flag(Precedes(s.val, t.val), Precedes(s.den, t.den), s.exact /\ t.exact)
    ELSE WithoutExpression("bool", Truth(Precedes(s.val, t.val)))

Comparing ==
    /\ OnString
    /\ \E t \in StrOperands :
         LET e == acc.exact /\ t.exact
         IN  \/ Yields(Flag(Has(acc.val, t.val), Has(acc.den, t.den), e))
             \/ Yields(Flag(acc.val = t.val, acc.den = t.den, e))
             \/ Yields(Flag(acc.val # t.val, acc.den # t.den, e))
             \/ Yields(Ordering(acc, t))
             \/ Yields(Ordering(t, acc))
    /\ UNCHANGED branches

Measuring ==
    /\ OnString
    /\ \/ Yields(Size(acc))
       \/ Yields(Flag(acc.val # <<>>, acc.den # <<>>, acc.exact))
    /\ UNCHANGED branches

\* s[i] asks first whether len(s) > i.
Indexing(i) ==
    /\ OnString
    /\ branches' = branches \cup
           {Condition(Len(acc.val) > At0(i.val), Len(acc.den) > At0(i.den), acc.exact /\ i.exact)}
    /\ IF At0(i.val) \in -Len(acc.val)..(Len(acc.val) - 1)
       THEN LET k == FromStart(i, acc)
            IN  Yields(Str(Substr(acc.val, At0(k.val), 1), Substr(acc.den, At0(k.den), 1),
                           acc.exact /\ i.exact))
       ELSE Raises("IndexError")

Slicing ==
    /\ OnString
    /\ \/ \E a, b \in Indices :
            \/ Yields(Sub(acc, a, b))
            \/ Yields(Sub(acc, a, WholeLength(acc)))
            \/ Yields(Sub(acc, Zero, b))
       \/ Yields(Untracked(Reverse(acc.val)))
    /\ UNCHANGED branches

Finding ==
    /\ OnString
    /\ \E t \in StrOperands, a, b \in Indices :
         \E at \in {FindIn(acc, t, a, b), FindIn(acc, t, a, WholeLength(acc)), Find(acc, t)} :
           branches' = branches \cup {at.branch} /\ Yields(at.value)

\* index returns the position in the region and forgets the start.
IndexingOf(t, a) ==
    /\ OnString
    /\ UNCHANGED branches
    /\ LET end    == WholeLength(acc)
           region == Sub(acc, a, end)
           found  == Found(acc.val, t.val, At0(a.val), At0(end.val))
       IN  IF found = {} THEN Raises("ValueError")
           ELSE Yields(Count(Min(found), IndexOf(region.den, t.den, 0),
                             region.exact /\ t.exact /\ a.val = 0))

\* An empty string is not found in an inverted region, SMT-LIB says it is.
Inverted(s, t, a) == t.val = <<>> /\ Clamp(At0(a.val), Len(s.val)) > Len(s.val)

Counting(t, a) ==
    /\ OnString
    /\ LET end    == WholeLength(acc)
           region == Sub(acc, a, end)
           e      == region.exact /\ t.exact /\ ~Inverted(acc, t, a)
       IN  /\ branches' = branches \cup
                {Condition(Has(region.val, t.val), Has(region.den, t.den), region.exact /\ t.exact)}
           /\ Yields(Count(CountOf(acc.val, t.val, At0(a.val), At0(end.val)),
                           IF Len(t.den) <= 0 THEN 1 + Len(region.den)
                           ELSE EuclidDiv(Len(region.den)
                                          - Len(ReplaceEach(region.den, t.den, <<>>)), Len(t.den)),
                           e))

Affixes(t, a) ==
    /\ OnString
    /\ UNCHANGED branches
    /\ LET region == Sub(acc, a, WholeLength(acc))
           e      == region.exact /\ t.exact /\ ~Inverted(acc, t, a)
       IN  \/ Yields(Flag(StartsWith(region.val, t.val) /\ ~Inverted(acc, t, a),
                          StartsWith(region.den, t.den), e))
           \/ Yields(Flag(EndsWith(region.val, t.val) /\ ~Inverted(acc, t, a),
                          EndsWith(region.den, t.den), e))

\* The expression of an unbounded replace leaves s alone when old is empty.
ReplacingAll(old, new) ==
    /\ OnString
    /\ Yields(Str(PyReplace(acc.val, old.val, new.val), ReplaceEach(acc.den, old.den, new.den),
                  acc.exact /\ old.exact /\ new.exact
                  /\ (old.val = <<>> => new.val = <<>>)))
    /\ UNCHANGED branches

ReplacingSome(old, new, count) ==
    /\ OnString
    /\ LET loopEnd == BoundedReplace(acc, old, new, count)
       IN  /\ branches' = branches \cup loopEnd.branches
           /\ Yields(Verified(loopEnd.value,
                              ReplaceFirst(acc.val, old.val, new.val, count)))

Stripping ==
    /\ OnString
    /\ \E chars \in {{}, {Minus}, {Space, Minus}} :
         \/ Yields(LStrip(acc, chars))
         \/ Yields(RStrip(acc, chars))
         \/ Yields(Verified(LStrip(RStrip(acc, chars), chars),
                            StripLeft(StripRight(acc.val, Concretely(chars)), Concretely(chars))))
    /\ UNCHANGED branches

\* The expression replaces the letters of ASCII, Python those of every script.
Recasing ==
    /\ OnString
    /\ \/ Yields(Str(PyLower(acc.val), Lower(acc.den), acc.exact /\ Ascii(acc.val)))
       \/ Yields(Str(PyUpper(acc.val), Upper(acc.den), acc.exact /\ Ascii(acc.val)))
       \/ Yields(Untracked(PyLower(acc.val)))
    /\ UNCHANGED branches

\* A class of Python's characters, of which the expression knows ASCII's.
InClass(s, python, smt) ==
    Flag(All(s.val, python), All(s.den, smt), s.exact /\ Lacks(s.val, python \ smt))

\* islower and isupper: the expression wants nothing but letters of the case.
Cased(s, python, smt) ==
    Flag(IsCase(s.val, python), All(s.den, smt),
         s.exact /\ IsCase(s.val, python) = All(s.val, smt))

Classifying ==
    /\ OnString
    /\ \/ Yields(InClass(acc, PyLetter, Letter))
       \/ Yields(InClass(acc, PyAlphanumeric, Letter \cup Digit))
       \/ \E digits \in {PyDigit, PyNumeric} : Yields(InClass(acc, digits, Digit))
       \/ Yields(Cased(acc, PyLowerLetter, LowerLetter))
       \/ Yields(Cased(acc, PyUpperLetter, UpperLetter))
    /\ UNCHANGED branches

ReadingInt ==
    /\ OnString
    /\ branches' = branches \cup {IntegerTest(acc)}
    /\ IF IsLiteral(acc.val) THEN Yields(StrToIntValue(acc)) ELSE Raises("ValueError")

WritingInt ==
    /\ Running /\ acc.type = "int" /\ ~acc.plain
    /\ \A n \in {acc.val, acc.den} : -18 <= n /\ n <= 18
    /\ LET Text(h) == IF h < 0 THEN <<Minus>> \o Numeral(-At0(h)) ELSE Numeral(At0(h))
       IN  Yields(Str(Text(acc.val), Text(acc.den), acc.exact))
    /\ UNCHANGED branches

\* A concolic int compared with a concolic string reads the string as a number.
IntMeetsString(t) ==
    /\ Running /\ acc.type = "int" /\ ~acc.plain /\ ~t.plain
    /\ branches' = branches \cup {IntegerTest(t)}
    /\ IF IsLiteral(t.val) THEN Yields(Plain("bool", 0)) ELSE Raises("ValueError")

StrDecide ==
    /\ OnString
    /\ branches' = branches \cup {Condition(acc.val # <<>>, acc.den # <<>>, acc.exact)}
    /\ steps' = steps + 1
    /\ UNCHANGED <<acc, error, loop>>

-----------------------------------------------------------------------------
(* The operations that give several values *)

IntoPieces(sep, max) ==
    /\ OnString
    /\ LET r == Split(acc, sep, max)
       IN  IF sep.val = <<>>
           THEN Raises("ValueError") /\ UNCHANGED branches
           ELSE /\ branches' = branches \cup r.branches
                /\ loop' = [state |-> "pieces", of |-> acc.val, sep |-> sep.val, max |-> max,
                            parts |-> r.parts]
                /\ \E i \in 1..Len(r.parts) : acc' = r.parts[i]
                /\ steps' = steps + 1
                /\ UNCHANGED error

\* for c in s: every turn asks whether the index is below the length, and s[i]
\* asks it again.
OpenCharacters ==
    /\ OnString
    /\ loop' = [state |-> "reading", of |-> acc, index |-> Zero, yielded |-> <<>>]
    /\ steps' = steps + 1
    /\ UNCHANGED <<acc, branches, error>>

NextCharacter__ForgetsLast ==
    /\ loop.state = "reading"
    /\ LET s == loop.of
           i == loop.index
       IN  loop' = IF i.val + 2 < 2 * Len(s.val)
                   THEN [loop EXCEPT !.yielded = Append(@, Str(Substr(s.val, At0(i.val), 1),
                                                                Substr(s.den, At0(i.den), 1),
                                                                s.exact)),
                                     !.index = Plus(@, Count(1, 1, TRUE))]
                   ELSE [loop EXCEPT !.state = "read"]
    /\ UNCHANGED <<acc, branches, error, steps>>

NextCharacter ==
    /\ loop.state = "reading"
    /\ LET s    == loop.of
           i    == loop.index
           more == Condition(i.val < 2 * Len(s.val), i.den < 2 * Len(s.den), s.exact)
       IN  /\ branches' = branches \cup {more}
           /\ loop' = IF more.taken # 0
                      THEN [loop EXCEPT !.yielded = Append(@, Str(Substr(s.val, At0(i.val), 1),
                                                                   Substr(s.den, At0(i.den), 1),
                                                                   s.exact)),
                                        !.index = Plus(@, Count(1, 1, TRUE))]
                      ELSE [loop EXCEPT !.state = "read"]
    /\ UNCHANGED <<acc, error, steps>>

StrNext ==
    \/ NumberNext
    \/ NextCharacter
    \/ \E t \in StrOperands :
         \/ IntMeetsString(t)
         \/ \E a \in Indices : IndexingOf(t, a) \/ Counting(t, a) \/ Affixes(t, a)
         \/ \E u \in StrOperands :
              \/ ReplacingAll(t, u)
              \/ \E n \in 0..2 : ReplacingSome(t, u, n)
         \/ \E max \in {-1, 0, 1} : IntoPieces(t, max)
    \/ \E i \in Indices : Indexing(i)
    \/ Joining \/ Comparing \/ Measuring \/ Slicing \/ Finding
    \/ Stripping \/ Recasing \/ Classifying \/ ReadingInt \/ WritingInt
    \/ StrDecide \/ OpenCharacters

StrSpec == StrInit /\ [][StrNext]_vars

-----------------------------------------------------------------------------
(* Properties *)

\* The pieces of a split are Python's: joined by the separator they are the
\* string, no piece but the last may hold a separator, and no more cuts were made
\* than asked for; each piece is still what its expression denotes (split).
SplitFaithful ==
    loop.state = "pieces" =>
        LET n == Len(loop.parts)
        IN  /\ FlattenSeq([i \in 1..n |-> (IF i = 1 THEN <<>> ELSE loop.sep) \o loop.parts[i].val])
                 = loop.of
            /\ \A i \in 1..(n - 1) : ~Has(loop.parts[i].val, loop.sep)
            /\ loop.max >= 0 => n <= loop.max + 1
            /\ n - 1 # loop.max => ~Has(loop.parts[n].val, loop.sep)
            /\ \A i \in 1..n : loop.parts[i].exact => loop.parts[i].den = loop.parts[i].val

\* Iterating over a concolic string yields its characters, in order (__iter__).
CharactersFaithful ==
    loop.state = "read" => [i \in 1..Len(loop.yielded) |-> loop.yielded[i].val[1]] = loop.of.val

=============================================================================
