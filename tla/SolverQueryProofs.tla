------------------------- MODULE SolverQueryProofs -------------------------
(***************************************************************************)
(* Theorems about SolverQuery: what the rewriting, printing and parsing of  *)
(* conditions keep, and that an answer of the solver means what it says.    *)
(***************************************************************************)
EXTENDS SolverQuery, ProofFacts

-----------------------------------------------------------------------------
(* Strings put together from pieces. *)

-----------------------------------------------------------------------------
(* Quotes doubled and undone. *)

NoBackslash(s) == \A i \in 1 .. Len(s) : s[i] # Backslash

DoubledPiece(c) == IF c = Quote THEN <<Quote, Quote>> ELSE <<c>>

Doubled(s) == FlattenSeq([i \in 1 .. Len(s) |-> DoubledPiece(s[i])])

Places(off, s, t) ==
    /\ off \in [0 .. Len(s) -> Nat]
    /\ off[0] = 0
    /\ off[Len(s)] = Len(t)
    /\ \A k \in 1 .. Len(s) :
         /\ off[k] = off[k - 1] + (IF s[k] = Quote THEN 2 ELSE 1)
         /\ off[k] <= Len(t)
         /\ t[off[k - 1] + 1] = s[k]
         /\ s[k] = Quote => t[off[k - 1] + 2] = Quote

LEMMA QuoteFacts ==
  /\ <<Quote, Quote>> \in Text /\ Len(<<Quote, Quote>>) = 2
  /\ <<Quote, Quote>>[1] = Quote /\ <<Quote, Quote>>[2] = Quote
  /\ <<Quote, Quote>> # <<>> /\ <<Quote>> \in Text /\ Quote \in Int /\ Quote # Backslash
BY DEF Text, Quote, Backslash

LEMMA DoubledProperties ==
  ASSUME NEW s \in Text, NoBackslash(s)
  PROVE  /\ Doubled(s) \in Text /\ NoBackslash(Doubled(s))
         /\ \E off : Places(off, s, Doubled(s))
<1> DEFINE L == Len(s)
           S == Int \ {Backslash}
           pieces == [i \in 1 .. L |-> DoubledPiece(s[i])]
           t == FlattenSeq(pieces)
<1>1. L \in Nat /\ \A i \in 1 .. L : s[i] \in S
  BY TextFacts DEF NoBackslash
<1>2. Doubled(s) = t
  BY DEF Doubled
<1> HIDE DEF L
<1>3. ASSUME NEW c \in S
      PROVE  /\ DoubledPiece(c) \in Seq(S)
             /\ Len(DoubledPiece(c)) = IF c = Quote THEN 2 ELSE 1
             /\ DoubledPiece(c)[1] = c
             /\ c = Quote => DoubledPiece(c)[2] = Quote
  <2>1. <<c>> \in Seq(S) /\ Len(<<c>>) = 1 /\ <<c>>[1] = c
    OBVIOUS
  <2>2. CASE c = Quote
    <3>1. DoubledPiece(c) = <<c, c>>
      BY <2>2 DEF DoubledPiece
    <3>2. <<c, c>> \in Seq(S) /\ Len(<<c, c>>) = 2 /\ <<c, c>>[1] = c /\ <<c, c>>[2] = c
      OBVIOUS
    <3> QED BY <2>2, <3>1, <3>2
  <2>3. CASE c # Quote
    <3>1. DoubledPiece(c) = <<c>>
      BY <2>3 DEF DoubledPiece
    <3> QED BY <2>1, <2>3, <3>1
  <2> QED BY <2>2, <2>3
<1> HIDE DEF S
<1>4. pieces \in Seq(Seq(S)) /\ \A i \in 1 .. L : pieces[i] = DoubledPiece(s[i])
  <2>1. \A i \in 1 .. L : DoubledPiece(s[i]) \in Seq(S)
    BY <1>1, <1>3
  <2> QED BY <1>1, <2>1, IsASeq
<1>5. DOMAIN pieces = 1 .. L
  OBVIOUS
<1>6. Len(pieces) = L
  <2>1. Len(pieces) \in Nat /\ DOMAIN pieces = 1 .. Len(pieces)
    BY <1>4, LenProperties
  <2> DEFINE M == Len(pieces)
  <2>2. M \in Nat /\ 1 .. M = 1 .. L
    BY <1>5, <2>1
  <2> HIDE DEF M
  <2>3. M = L
    BY <1>1, <2>2
  <2> QED BY <2>3 DEF M
<1> HIDE DEF pieces
<1>7. t \in Seq(S)
  BY <1>4, Flattened
<1>8. \E off \in [0 .. L -> Nat] :
         /\ off[0] = 0
         /\ off[L] = Len(t)
         /\ \A k \in 1 .. L :
              /\ off[k] = off[k - 1] + Len(pieces[k])
              /\ off[k] <= Len(t)
              /\ \A m \in 1 .. Len(pieces[k]) : t[off[k - 1] + m] = pieces[k][m]
  <2>1. \E off \in [0 .. Len(pieces) -> Nat] :
         /\ off[0] = 0
         /\ off[Len(pieces)] = Len(t)
         /\ \A k \in 1 .. Len(pieces) :
              /\ off[k] = off[k - 1] + Len(pieces[k])
              /\ off[k] <= Len(t)
              /\ \A m \in 1 .. Len(pieces[k]) : t[off[k - 1] + m] = pieces[k][m]
    BY <1>4, Flattened, Zenon
  <2> QED BY ONLY <1>6, <2>1, Zenon
<1> HIDE DEF t
<1>8a. PICK off \in [0 .. L -> Nat] :
         /\ off[0] = 0
         /\ off[L] = Len(t)
         /\ \A k \in 1 .. L :
              /\ off[k] = off[k - 1] + Len(pieces[k])
              /\ off[k] <= Len(t)
              /\ \A m \in 1 .. Len(pieces[k]) : t[off[k - 1] + m] = pieces[k][m]
  BY <1>8, Zenon
<1>9. t \in Text /\ NoBackslash(t)
  <2>1. \A i \in 1 .. Len(t) : t[i] \in S
    BY <1>7, ElementOfSeq
  <2>2. Len(t) \in Nat /\ DOMAIN t = 1 .. Len(t) /\ t \in [1 .. Len(t) -> S]
    BY <1>7, LenProperties
  <2>3. \A i \in 1 .. Len(t) : t[i] \in Int
    BY <2>1 DEF S
  <2>4. t = [i \in 1 .. Len(t) |-> t[i]]
    BY <2>2
  <2>5. t \in Text
    BY <2>2, <2>3, <2>4, IsASeq DEF Text
  <2> QED BY <2>1, <2>5 DEF S, NoBackslash
<1>10. ASSUME NEW k \in 1 .. L
       PROVE  /\ off[k] = off[k - 1] + (IF s[k] = Quote THEN 2 ELSE 1)
              /\ off[k] <= Len(t)
              /\ t[off[k - 1] + 1] = s[k]
              /\ s[k] = Quote => t[off[k - 1] + 2] = Quote
  <2> DEFINE p == pieces[k]
             M == Len(p)
  <2>1. /\ M = IF s[k] = Quote THEN 2 ELSE 1
        /\ p[1] = s[k] /\ (s[k] = Quote => p[2] = Quote)
    <3>1. s[k] \in S /\ p = DoubledPiece(s[k])
      BY <1>1, <1>4
    <3> HIDE DEF p
    <3> QED BY <1>3, <3>1
  <2>2. off[k] = off[k - 1] + M /\ off[k] <= Len(t) /\ \A m \in 1 .. M : t[off[k - 1] + m] = p[m]
    BY <1>8a
  <2> HIDE DEF p, M
  <2>3. 1 \in 1 .. M /\ (s[k] = Quote => 2 \in 1 .. M)
    BY <2>1
  <2> QED BY <2>1, <2>2, <2>3
<1>11. Places(off, s, t)
  BY <1>8a, <1>10 DEF Places, L
<1> QED
  BY <1>2, <1>9, <1>11

(* A text of doubled quotes gives the string again. *)
LEMMA Undoubled ==
  ASSUME NEW s \in Text, NoBackslash(s), NEW from,
         from[Len(Doubled(s))] = <<>>,
         \A i \in 0 .. Len(Doubled(s)) : i # Len(Doubled(s)) =>
           from[i] = IF OccursAt(Doubled(s), <<Quote, Quote>>, i) THEN <<Quote>> \o from[i + 2]
                     ELSE <<Doubled(s)[i + 1]>> \o from[i + 1]
  PROVE  from[0] = s
<1> DEFINE t == Doubled(s)
           T == Len(t)
           L == Len(s)
<1>1. t \in Text /\ \E off : Places(off, s, t)
  BY DoubledProperties
<1>2. PICK off : Places(off, s, t)
  BY <1>1
<1>3. T \in Nat /\ L \in Nat
  BY <1>1, TextFacts
<1>4. \A i \in 0 .. T : OccursAt(t, <<Quote, Quote>>, i) <=>
                          i + 2 <= T /\ t[i + 1] = Quote /\ t[i + 2] = Quote
  <2> SUFFICES ASSUME NEW i \in 0 .. T
               PROVE  OccursAt(t, <<Quote, Quote>>, i) <=>
                          i + 2 <= T /\ t[i + 1] = Quote /\ t[i + 2] = Quote
    OBVIOUS
  <2>1. i \in Nat
    BY <1>3
  <2>2. OccursAt(t, <<Quote, Quote>>, i) <=>
           i + Len(<<Quote, Quote>>) <= T
             /\ \A k \in 1 .. Len(<<Quote, Quote>>) : t[i + k] = <<Quote, Quote>>[k]
    BY <1>1, <2>1, QuoteFacts, OccursProperties
  <2>3. \A k \in 1 .. 2 : k = 1 \/ k = 2
    OBVIOUS
  <2>4. 1 \in 1 .. 2 /\ 2 \in 1 .. 2
    OBVIOUS
  <2> QED BY <2>2, <2>3, <2>4, QuoteFacts
<1>5. from[T] = <<>> /\ \A i \in 0 .. T : i # T =>
        from[i] = IF OccursAt(t, <<Quote, Quote>>, i) THEN <<Quote>> \o from[i + 2]
                  ELSE <<t[i + 1]>> \o from[i + 1]
  OBVIOUS
<1>6. /\ off \in [0 .. L -> Nat] /\ off[0] = 0 /\ off[L] = T
      /\ \A k \in 1 .. L :
           /\ off[k] = off[k - 1] + (IF s[k] = Quote THEN 2 ELSE 1)
           /\ off[k] <= T
           /\ t[off[k - 1] + 1] = s[k]
           /\ s[k] = Quote => t[off[k - 1] + 2] = Quote
  BY <1>2 DEF Places
<1> DEFINE g == [k \in 0 .. L |-> from[off[k]]]
<1> HIDE DEF T, L, t
<1>7. ASSUME NEW k \in 1 .. L PROVE from[off[k - 1]] = <<s[k]>> \o from[off[k]]
  <2> DEFINE i == off[k - 1]
  <2>1. i \in Nat /\ i < T /\ i \in 0 .. T /\ i # T
    <3>1. i \in Nat
      BY <1>3, <1>6
    <3>2. off[k] = i + (IF s[k] = Quote THEN 2 ELSE 1) /\ off[k] <= T
      BY <1>6
    <3> HIDE DEF i
    <3> QED BY <1>3, <3>1, <3>2
  <2>2. CASE s[k] = Quote
    <3>1. off[k] = i + 2 /\ i + 2 <= T /\ t[i + 1] = Quote /\ t[i + 2] = Quote
      BY <1>6, <2>2
    <3>2. OccursAt(t, <<Quote, Quote>>, i)
      BY <1>4, <2>1, <3>1
    <3> HIDE DEF i
    <3>3. from[i] = <<Quote>> \o from[i + 2]
      BY <1>5, <2>1, <3>2
    <3> QED BY <2>2, <3>1, <3>3 DEF i
  <2>3. CASE s[k] # Quote
    <3>1. off[k] = i + 1 /\ t[i + 1] = s[k]
      BY <1>6, <2>3
    <3>2. ~OccursAt(t, <<Quote, Quote>>, i)
      BY <1>4, <2>1, <2>3, <3>1
    <3> HIDE DEF i
    <3>3. from[i] = <<t[i + 1]>> \o from[i + 1]
      BY <1>5, <2>1, <3>2
    <3> QED BY <3>1, <3>3 DEF i
  <2> QED BY <2>2, <2>3
<1>8. g[L] = <<>> /\ g[0] = from[0]
  BY <1>3, <1>5, <1>6
<1>9. \A k \in 1 .. L : g[k - 1] = <<s[k]>> \o g[k]
  BY <1>3, <1>7
<1> HIDE DEF g
<1>10. g[0] = s
  BY <1>8, <1>9, Unrolled DEF L
<1> QED
  BY <1>8, <1>10

LEMMA QuotesUndone ==
  ASSUME NEW s \in Text, NoBackslash(s)
  PROVE  ReplaceEach(Doubled(s), <<Quote, Quote>>, <<Quote>>) = s
<1> DEFINE t == Doubled(s)
           T == Len(t)
<1>1. t \in Text
  BY DoubledProperties
<1>2. PICK from : /\ ReplacedFrom(from, t, <<Quote, Quote>>, <<Quote>>)
                  /\ ReplaceEach(t, <<Quote, Quote>>, <<Quote>>) = from[0]
  BY <1>1, QuoteFacts, ReplaceEachFrom
<1>3. \A i \in 0 .. T :
        from[i] = IF i = T THEN <<>>
                  ELSE IF OccursAt(t, <<Quote, Quote>>, i) THEN <<Quote>> \o from[i + 2]
                  ELSE <<t[i + 1]>> \o from[i + 1]
  BY <1>2, QuoteFacts DEF ReplacedFrom
<1>4. T \in Nat /\ T \in 0 .. T
  BY <1>1, TextFacts
<1>5. from[T] = <<>>
  BY <1>3, <1>4
<1>6. \A i \in 0 .. T : i # T =>
        from[i] = IF OccursAt(t, <<Quote, Quote>>, i) THEN <<Quote>> \o from[i + 2]
                  ELSE <<t[i + 1]>> \o from[i + 1]
  BY <1>3
<1>7. from[0] = s
  BY <1>5, <1>6, Undoubled
<1> QED
  BY <1>2, <1>7

LEMMA DoubledDenotes ==
  ASSUME NEW s \in Text, NoBackslash(s)
  PROVE  Denoted(Doubled(s)) = s
<1> DEFINE t == Doubled(s)
           T == Len(t)
           plain(i, g) == IF i = T THEN <<>>
                          ELSE IF OccursAt(t, <<Quote, Quote>>, i) THEN <<Quote>> \o g[i + 2]
                          ELSE <<t[i + 1]>> \o g[i + 1]
           value(i, g) == IF i = T THEN <<>>
                          ELSE IF OccursAt(t, <<Quote, Quote>>, i) THEN <<Quote>> \o g[i + 2]
                          ELSE IF CodePointAt(t, i) THEN <<t[i + 4]>> \o g[i + 5]
                          ELSE <<t[i + 1]>> \o g[i + 1]
           Is(f) == f = [i \in 0 .. T |-> value(i, f)]
           from == CHOOSE f : Is(f)
<1>1. t \in Text /\ NoBackslash(t)
  BY DoubledProperties
<1>2. T \in Nat
  BY <1>1, TextFacts
<1>3. Denoted(t) = from[0]
  BY Zenon DEF Denoted
<1>4. ASSUME NEW i \in 0 .. T, i # T PROVE ~CodePointAt(t, i)
  <2> DEFINE b == <<Backslash, 117, 123>>
  <2>1. b \in Text /\ Len(b) = 3 /\ b[1] = Backslash
    BY DEF Text, Backslash
  <2>2. i \in Nat /\ i + 1 \in 1 .. T
    BY <1>2, <1>4
  <2>3. OccursAt(t, b, i) => \A k \in 1 .. 3 : t[i + k] = b[k]
    BY <1>1, <2>1, <2>2, OccursProperties
  <2>4. t[i + 1] # Backslash
    BY <1>1, <2>2 DEF NoBackslash
  <2>5. 1 \in 1 .. 3
    OBVIOUS
  <2>6. ~OccursAt(t, b, i)
    BY <2>1, <2>3, <2>4, <2>5
  <2> QED BY <2>6 DEF CodePointAt
<1>5. PICK r : ReplacedFrom(r, t, <<Quote, Quote>>, <<Quote>>)
  BY <1>1, QuoteFacts, ReplaceEachFrom
<1> HIDE DEF T
<1>6. \A i \in 0 .. T : \A g : value(i, g) = plain(i, g)
  BY <1>4
<1>7. Is(r)
  <2>1. r \in [0 .. T -> Text] /\ \A i \in 0 .. T : r[i] = plain(i, r)
    BY <1>5, QuoteFacts DEF ReplacedFrom, T
  <2> HIDE DEF plain, value
  <2>2. \A i \in 0 .. T : r[i] = value(i, r)
    BY <1>6, <2>1
  <2>3. r = [i \in 0 .. T |-> r[i]]
    BY <2>1
  <2> QED BY <2>2, <2>3
<1>8. Is(from)
  <2> HIDE DEF Is
  <2> QED BY <1>7, Zenon
<1> HIDE DEF from
<1>9. \A i \in 0 .. T : from[i] = plain(i, from)
  <2> HIDE DEF plain, value
  <2>1. \A i \in 0 .. T : from[i] = value(i, from)
    BY <1>8
  <2> QED BY <1>6, <2>1
<1>10. from[T] = <<>>
  <2>1. T \in 0 .. T
    BY <1>2
  <2> QED BY <1>9, <2>1
<1>11. \A i \in 0 .. T : i # T =>
        from[i] = IF OccursAt(t, <<Quote, Quote>>, i) THEN <<Quote>> \o from[i + 2]
                  ELSE <<t[i + 1]>> \o from[i + 1]
  BY <1>9
<1>12. from[0] = s
  BY <1>10, <1>11, Undoubled DEF T
<1> QED
  BY <1>3, <1>12

LEMMA NoEscapeReplaced ==
  ASSUME NEW s \in Text, NoBackslash(s), NEW c \in Int, NEW d \in Int
  PROVE  ReplaceEach(s, <<Backslash, c>>, <<d>>) = s
<1> DEFINE b == <<Backslash, c>>
           L == Len(s)
<1>1. b \in Text /\ Len(b) = 2 /\ b[1] = Backslash /\ b # <<>> /\ <<d>> \in Text
  BY DEF Text, Backslash
<1>2. L \in Nat
  BY TextFacts
<1>3. ASSUME NEW i \in 0 .. L, i # L PROVE ~OccursAt(s, b, i)
  <2>1. i \in Nat /\ i + 1 \in 1 .. L
    BY <1>2, <1>3
  <2>2. OccursAt(s, b, i) => \A k \in 1 .. 2 : s[i + k] = b[k]
    BY <1>1, <2>1, OccursProperties
  <2>3. s[i + 1] # Backslash
    BY <2>1 DEF NoBackslash
  <2>4. 1 \in 1 .. 2
    OBVIOUS
  <2> QED BY <1>1, <2>2, <2>3, <2>4
<1> HIDE DEF b
<1>4. ReplaceEach(s, b, <<d>>) = s
  BY <1>1, <1>3, NotReplaced
<1> QED
  BY <1>4 DEF b

-----------------------------------------------------------------------------
(* Literals and model values that keep their meaning. *)

LEMMA CodeFacts ==
  /\ Quote = 34 /\ Backslash = 92 /\ Tab = 9 /\ Newline = 10 /\ Return = 13
BY DEF Quote, Backslash, Tab, Newline, Return

LEMMA TransparentNoBackslash ==
  ASSUME NEW s \in Text, Transparent(s)
  PROVE  NoBackslash(s)
BY CodeFacts DEF Transparent, NoBackslash

(* Encoding a transparent literal doubles its quotes. *)
LEMMA EncodeDoubles ==
  ASSUME NEW s \in Text, Transparent(s)
  PROVE  Encode(s) = Doubled(s)
<1>1. ASSUME NEW i \in 1 .. Len(s) PROVE Escape(s[i]) = DoubledPiece(s[i])
  <2> DEFINE c == s[i]
  <2>1. c \in 32 .. 126 /\ c # Backslash
    BY DEF Transparent
  <2> HIDE DEF c
  <2>2. /\ c # Return /\ c # Newline /\ c # Tab /\ ~(c > 127)
    BY <2>1, CodeFacts
  <2>3. CASE c = Quote
    <3>1. Escape(c) = <<Quote, Quote>>
      BY <2>1, <2>2, <2>3, Zenon DEF Escape
    <3> QED BY <2>3, <3>1 DEF DoubledPiece, c
  <2>4. CASE c # Quote
    <3>1. Escape(c) = <<c>>
      BY <2>1, <2>2, <2>4, Zenon DEF Escape
    <3> QED BY <2>4, <3>1 DEF DoubledPiece, c
  <2> QED BY <2>3, <2>4
<1>2. [i \in 1 .. Len(s) |-> Escape(s[i])] = [i \in 1 .. Len(s) |-> DoubledPiece(s[i])]
  BY <1>1
<1> QED
  BY <1>2, Zenon DEF Encode, Doubled

(* The solver reads a transparent literal as it is written in the target. *)
LEMMA ReadsAsWritten ==
  ASSUME NEW s \in Text, Transparent(s)
  PROVE  Read(s) = s
BY TransparentNoBackslash, EncodeDoubles, DoubledDenotes DEF Read

LEMMA UnescapedTransparent ==
  ASSUME NEW s \in Text, Unescaped(s)
  PROVE  Transparent(s)
BY DEF Unescaped, Transparent

(* The text of a literal without characters to escape is the literal. *)
LEMMA EncodeKeeps ==
  ASSUME NEW s \in Text, Unescaped(s)
  PROVE  Encode(s) = s
<1> DEFINE L == Len(s)
           t == Doubled(s)
<1>1. Transparent(s) /\ NoBackslash(s)
  BY UnescapedTransparent, TransparentNoBackslash
<1>2. Encode(s) = t
  BY <1>1, EncodeDoubles
<1>3. L \in Nat /\ \A i \in 1 .. L : s[i] # Quote
  BY TextFacts DEF Unescaped
<1>4. PICK off : Places(off, s, t)
  BY <1>1, DoubledProperties
<1>5. t \in Text
  BY <1>1, DoubledProperties
<1> HIDE DEF L, t
<1>6. /\ off[0] = 0 /\ off[L] = Len(t) /\ off \in [0 .. L -> Nat]
      /\ \A k \in 1 .. L : off[k] = off[k - 1] + 1 /\ t[off[k - 1] + 1] = s[k]
  BY <1>3, <1>4 DEF Places, L
<1> DEFINE Good == {k \in 1 .. L : off[k] = k}
<1>7. \A n \in 1 .. L : (\A k \in 1 .. n - 1 : k \in Good) => n \in Good
  <2> SUFFICES ASSUME NEW n \in 1 .. L, \A k \in 1 .. n - 1 : k \in Good PROVE n \in Good
    OBVIOUS
  <2>1. n - 1 = 0 \/ n - 1 \in 1 .. n - 1
    OBVIOUS
  <2>2. off[n - 1] = n - 1
    <3>1. CASE n - 1 = 0
      BY <1>6, <3>1
    <3>2. CASE n - 1 \in 1 .. n - 1
      BY <3>2
    <3> QED BY <2>1, <3>1, <3>2
  <2>3. off[n] = n
    BY <1>6, <2>2
  <2> QED BY <2>3
<1>8. \A k \in 1 .. L : off[k] = k
  <2>1. \A k \in 1 .. L : k \in Good
    <3> HIDE DEF Good
    <3> QED BY <1>3, <1>7, InductionUpTo
  <2> QED BY <2>1
<1>9. \A k \in 0 .. L : off[k] = k
  <2>1. \A k \in 0 .. L : k = 0 \/ k \in 1 .. L
    BY <1>3
  <2> QED BY <1>6, <1>8, <2>1
<1>10. Len(t) = L
  BY <1>3, <1>6, <1>9
<1>11. ASSUME NEW k \in 1 .. L PROVE t[k] = s[k]
  <2>1. k - 1 \in 0 .. L /\ (k - 1) + 1 = k
    BY <1>3
  <2>2. t[off[k - 1] + 1] = s[k] /\ off[k - 1] = k - 1
    BY <1>6, <1>9, <2>1
  <2> QED BY <2>1, <2>2
<1>12. t = s
  BY <1>5, <1>10, <1>11, SeqEqual DEF Text, L
<1> QED
  BY <1>2, <1>12

(* A printed string without a backslash is the string with its quotes doubled. *)
LEMMA PrintedTransparent ==
  ASSUME NEW s \in Text, Transparent(Printed(s))
  PROVE  NoBackslash(s) /\ Printed(s) = Doubled(s)
<1> DEFINE L == Len(s)
           pieces == [i \in 1 .. L |-> PrintedChar(s[i])]
           t == FlattenSeq(pieces)
<1>1. L \in Nat /\ \A i \in 1 .. L : s[i] \in Int
  BY TextFacts
<1>2. Printed(s) = t
  BY DEF Printed
<1> HIDE DEF L
<1>3. ASSUME NEW c \in Int
      PROVE  PrintedChar(c) \in Seq(Int)
             /\ (c < 32 \/ c > 126 \/ c = Backslash =>
                   Len(PrintedChar(c)) = 5 /\ PrintedChar(c)[1] = Backslash)
  <2>1. Backslash \in Int /\ Quote \in Int /\ Backslash # Quote /\ Quote = 34
    BY CodeFacts
  <2>2. <<Quote, Quote>> \in Seq(Int) /\ <<c>> \in Seq(Int)
    BY <2>1
  <2>3. /\ <<Backslash, 117, 123, c, 125>> \in Seq(Int)
        /\ Len(<<Backslash, 117, 123, c, 125>>) = 5
        /\ <<Backslash, 117, 123, c, 125>>[1] = Backslash
    BY <2>1
  <2>4. CASE c < 32 \/ c > 126 \/ c = Backslash
    <3>1. c # Quote
      BY <2>1, <2>4, CodeFacts
    <3>2. PrintedChar(c) = <<Backslash, 117, 123, c, 125>>
      BY <2>4, <3>1, Zenon DEF PrintedChar
    <3> QED BY <2>3, <3>2
  <2>5. CASE ~(c < 32 \/ c > 126 \/ c = Backslash)
    <3>1. PrintedChar(c) = IF c = Quote THEN <<Quote, Quote>> ELSE <<c>>
      BY <2>5, Zenon DEF PrintedChar
    <3> QED BY <2>2, <2>5, <3>1
  <2> QED BY <2>4, <2>5
<1>4. pieces \in Seq(Seq(Int)) /\ \A i \in 1 .. L : pieces[i] = PrintedChar(s[i])
  <2>1. \A i \in 1 .. L : PrintedChar(s[i]) \in Seq(Int)
    BY <1>1, <1>3
  <2> QED BY <1>1, <2>1, IsASeq
<1>5. DOMAIN pieces = 1 .. L
  OBVIOUS
<1>6. Len(pieces) = L
  <2>1. Len(pieces) \in Nat /\ DOMAIN pieces = 1 .. Len(pieces)
    BY <1>4, LenProperties
  <2> DEFINE M == Len(pieces)
  <2>2. M \in Nat /\ 1 .. M = 1 .. L
    BY <1>5, <2>1
  <2> HIDE DEF M
  <2>3. M = L
    BY <1>1, <2>2
  <2> QED BY <2>3 DEF M
<1> HIDE DEF pieces
<1>7. \E off \in [0 .. L -> Nat] :
         \A k \in 1 .. L :
              /\ off[k] = off[k - 1] + Len(pieces[k])
              /\ off[k] <= Len(t)
              /\ \A m \in 1 .. Len(pieces[k]) : t[off[k - 1] + m] = pieces[k][m]
  <2>1. \E off \in [0 .. Len(pieces) -> Nat] :
         /\ off[0] = 0
         /\ off[Len(pieces)] = Len(t)
         /\ \A k \in 1 .. Len(pieces) :
              /\ off[k] = off[k - 1] + Len(pieces[k])
              /\ off[k] <= Len(t)
              /\ \A m \in 1 .. Len(pieces[k]) : t[off[k - 1] + m] = pieces[k][m]
    BY <1>4, Flattened, Zenon
  <2> QED BY ONLY <1>6, <2>1, Zenon
<1>8. t \in Text
  BY <1>4, Flattened DEF Text
<1>9. \A i \in 1 .. Len(t) : t[i] # Backslash
  BY <1>2, CodeFacts DEF Transparent
<1> HIDE DEF t
<1>10. PICK off \in [0 .. L -> Nat] :
         \A k \in 1 .. L :
              /\ off[k] = off[k - 1] + Len(pieces[k])
              /\ off[k] <= Len(t)
              /\ \A m \in 1 .. Len(pieces[k]) : t[off[k - 1] + m] = pieces[k][m]
  BY <1>7, Zenon
<1>11. ASSUME NEW k \in 1 .. L PROVE ~(s[k] < 32 \/ s[k] > 126 \/ s[k] = Backslash)
  <2> SUFFICES ASSUME s[k] < 32 \/ s[k] > 126 \/ s[k] = Backslash PROVE FALSE
    OBVIOUS
  <2> DEFINE p == pieces[k]
             M == Len(p)
             T == Len(t)
             o == off[k - 1]
  <2>1. M = 5 /\ p[1] = Backslash
    <3>1. s[k] \in Int /\ p = PrintedChar(s[k])
      BY <1>1, <1>4
    <3> HIDE DEF p
    <3> QED BY <1>3, <3>1
  <2>2. off[k] = o + M /\ off[k] <= T /\ \A m \in 1 .. M : t[o + m] = p[m]
    BY <1>10
  <2>3. o \in Nat /\ T \in Nat
    <3>1. k - 1 \in 0 .. L
      BY <1>1
    <3>2. T \in Nat
      BY <1>8, TextFacts
    <3> QED BY <3>1, <3>2
  <2>4. \A i \in 1 .. T : t[i] # Backslash
    BY <1>9
  <2> HIDE DEF p, M, T, o
  <2>5. 1 \in 1 .. M /\ o + 1 \in 1 .. T
    BY <2>1, <2>2, <2>3
  <2> QED BY <2>1, <2>2, <2>4, <2>5
<1>12. NoBackslash(s)
  BY <1>11 DEF NoBackslash, L
<1>13. ASSUME NEW i \in 1 .. L PROVE PrintedChar(s[i]) = DoubledPiece(s[i])
  BY <1>11, Zenon DEF PrintedChar, DoubledPiece
<1>14. [i \in 1 .. L |-> PrintedChar(s[i])] = [i \in 1 .. L |-> DoubledPiece(s[i])]
  BY <1>13
<1>15. Printed(s) = Doubled(s)
  BY <1>14, Zenon DEF Printed, Doubled, L
<1> QED
  BY <1>12, <1>15

(* The parser takes back what the solver printed without an escape. *)
LEMMA ParsesAsPrinted ==
  ASSUME NEW s \in Text, Transparent(Printed(s))
  PROVE  ParseString(Printed(s)) = s
<1>1. NoBackslash(s) /\ Printed(s) = Doubled(s)
  BY PrintedTransparent
<1>2. ReplaceEach(Printed(s), <<Quote, Quote>>, <<Quote>>) = s
  BY <1>1, QuotesUndone
<1>3. /\ ReplaceEach(s, <<Backslash, 116>>, <<Tab>>) = s
      /\ ReplaceEach(s, <<Backslash, 110>>, <<Newline>>) = s
      /\ ReplaceEach(s, <<Backslash, 114>>, <<Return>>) = s
      /\ ReplaceEach(s, <<Backslash, Backslash>>, <<Backslash>>) = s
  <2>1. \A c, d \in Int : ReplaceEach(s, <<Backslash, c>>, <<d>>) = s
    BY <1>1, NoEscapeReplaced
  <2>2. Tab \in Int /\ Newline \in Int /\ Return \in Int /\ Backslash \in Int
        /\ 116 \in Int /\ 110 \in Int /\ 114 \in Int
    BY CodeFacts
  <2> QED BY <2>1, <2>2, Zenon
<1> QED
  BY <1>2, <1>3, Zenon DEF ParseString

-----------------------------------------------------------------------------
(* Matches counted by replacing and by seeking one after the other. *)

(* c[i] is the number of matches at or after position i. *)
Counts(c, s, t) ==
    /\ c \in [0 .. Len(s) -> Nat]
    /\ \A i \in 0 .. Len(s) :
         /\ IndexOf(s, t, i) = -1 <=> c[i] = 0
         /\ IndexOf(s, t, i) # -1 =>
              /\ IndexOf(s, t, i) + Len(t) \in 0 .. Len(s)
              /\ c[i] = 1 + c[IndexOf(s, t, i) + Len(t)]

(* The number of matches is how much shorter the string gets without them. *)
LEMMA CountsMatches ==
  ASSUME NEW s \in Text, NEW t \in Text, t # <<>>
  PROVE  \E c : Counts(c, s, t) /\ c[0] = CountIn(s, t)
<1> DEFINE L == Len(s)
           M == Len(t)
           Occ(i) == OccursAt(s, t, i)
           Index(i) == IndexOf(s, t, i)
<1>1. /\ L \in Nat /\ M \in Nat /\ M # 0
      /\ \A i \in 1 .. L : s[i] \in Int
  BY TextFacts
<1>2. <<>> \in Text /\ Len(<<>>) = 0
  BY DEF Text
<1>3. PICK from : ReplacedFrom(from, s, t, <<>>) /\ ReplaceEach(s, t, <<>>) = from[0]
  BY <1>2, ReplaceEachFrom
<1>4. /\ from \in [0 .. L -> Text]
      /\ \A i \in 0 .. L : from[i] = IF i = L THEN <<>>
                                     ELSE IF Occ(i) THEN <<>> \o from[i + M]
                                     ELSE <<s[i + 1]>> \o from[i + 1]
  BY <1>3 DEF ReplacedFrom
<1>5. \A i \in 0 .. L : Occ(i) => i + M <= L
  BY DEF OccursAt
<1>6. ASSUME NEW i \in 0 .. L
      PROVE  /\ Index(i) \in Int
             /\ Index(i) = -1 => \A j \in i .. L : ~Occ(j)
             /\ Index(i) # -1 => /\ Index(i) \in i .. L /\ Occ(Index(i))
                                 /\ \A j \in i .. L : Occ(j) => Index(i) <= j
  <2>1. i \in Nat
    BY <1>1
  <2> DEFINE S == Occurrences(s, t, i)
  <2>2. S = {j \in i .. L : Occ(j)}
    BY DEF Occurrences
  <2>3. /\ Index(i) \in Int
        /\ Index(i) = -1 => S = {}
        /\ Index(i) # -1 => Index(i) \in S /\ \A j \in S : Index(i) <= j
    BY <2>1, IndexOfProperties
  <2> HIDE DEF S, L, Occ, Index
  <2> QED BY <2>2, <2>3
<1> HIDE DEF L, M, Occ, Index
<1> DEFINE D == [i \in 0 .. L |-> (L - i) - Len(from[i])]
<1>7. \A i \in 0 .. L : Len(from[i]) \in Nat
  BY <1>4, TextFacts
<1>8. D[L] = 0
  <2>1. L \in 0 .. L
    BY <1>1
  <2>2. from[L] = <<>>
    BY <1>4, <2>1
  <2> QED BY <1>1, <1>2, <2>1, <2>2
<1>9. ASSUME NEW i \in 0 .. L, i # L, Occ(i) PROVE i + M \in 0 .. L /\ D[i] = M + D[i + M]
  <2>1. i + M \in 0 .. L
    BY <1>1, <1>5, <1>9
  <2>2. from[i] = <<>> \o from[i + M] /\ from[i + M] \in Seq(Int)
    BY <1>4, <1>9, <2>1 DEF Text
  <2>3. \A w \in Seq(Int) : <<>> \o w = w
    BY ConcatEmptySeq
  <2>4. from[i] = from[i + M]
    BY <2>2, <2>3
  <2> DEFINE B == Len(from[i])
  <2>5. B \in Nat /\ Len(from[i + M]) = B
    BY <1>7, <2>4
  <2>6. D[i] = (L - i) - B /\ D[i + M] = (L - (i + M)) - B
    BY <2>1, <2>5
  <2> HIDE DEF D, B
  <2> QED BY <1>1, <2>1, <2>5, <2>6
<1>10. ASSUME NEW i \in 0 .. L, i # L, ~Occ(i) PROVE i + 1 \in 0 .. L /\ D[i] = D[i + 1]
  <2>1. i + 1 \in 0 .. L /\ i + 1 \in 1 .. L
    BY <1>1, <1>10
  <2>2. from[i] = <<s[i + 1]>> \o from[i + 1] /\ from[i + 1] \in Text /\ s[i + 1] \in Int
    BY <1>1, <1>4, <1>10, <2>1
  <2> DEFINE A == Len(from[i])
             B == Len(from[i + 1])
  <2>3. A = 1 + B
    BY <2>2, Prefixed
  <2>4. B \in Nat
    BY <1>7, <2>1
  <2>5. D[i] = (L - i) - A /\ D[i + 1] = (L - (i + 1)) - B
    BY <2>1
  <2> HIDE DEF D, A, B
  <2> QED BY <1>1, <2>1, <2>3, <2>4, <2>5
<1> HIDE DEF D
<1> DEFINE Right(i) == /\ D[i] \in Nat
                       /\ Index(i) = -1 => D[i] = 0
                       /\ Index(i) # -1 => /\ Index(i) + M \in 0 .. L
                                           /\ D[i] = M + D[Index(i) + M]
                                           /\ D[Index(i) + M] \in Nat
           Good == {n \in 1 .. L : \A i \in 0 .. L : L - n <= i => Right(i)}
<1>11. ~Occ(L)
  <2>1. L \in 0 .. L /\ ~(L + M <= L)
    BY <1>1
  <2> QED BY <1>5, <2>1
<1>12. Right(L)
  <2>1. L \in 0 .. L
    BY <1>1
  <2>2. Index(L) # -1 => Index(L) = L /\ Occ(Index(L))
    BY <1>6, <1>1, <2>1
  <2>3. Index(L) = -1
    BY <1>11, <2>2
  <2> QED BY <1>8, <2>3
<1>13. ASSUME NEW i \in 0 .. L, i # L, \A j \in 0 .. L : i + 1 <= j => Right(j)
       PROVE  Right(i)
  <2>1. CASE Occ(i)
    <3>1. i + M \in 0 .. L /\ D[i] = M + D[i + M] /\ i + 1 <= i + M
      BY <1>1, <1>9, <1>13, <2>1
    <3>2. D[i + M] \in Nat
      BY <1>13, <3>1
    <3>3. i \in i .. L
      BY <1>1
    <3>4. Index(i) = i
      <4>1. Index(i) # -1
        BY <1>6, <2>1, <3>3
      <4>2. Index(i) \in i .. L /\ Index(i) <= i
        BY <1>6, <2>1, <3>3, <4>1
      <4> QED BY <4>2
    <3> QED BY <1>1, <3>1, <3>2, <3>4
  <2>2. CASE ~Occ(i)
    <3>1. i + 1 \in 0 .. L /\ D[i] = D[i + 1]
      BY <1>10, <1>13, <2>2
    <3>2. Right(i + 1)
      BY <1>13, <3>1
    <3>3. \A j \in i .. L : j = i \/ j \in i + 1 .. L
      OBVIOUS
    <3>4. Index(i) = Index(i + 1)
      <4>1. CASE Index(i) = -1
        <5>1. Index(i + 1) # -1 => Index(i + 1) \in i .. L /\ Occ(Index(i + 1))
          BY <1>6, <3>1
        <5> QED BY <1>6, <4>1, <5>1
      <4>2. CASE Index(i) # -1
        <5>1. Index(i) \in i + 1 .. L /\ Occ(Index(i)) /\ \A j \in i .. L : Occ(j) => Index(i) <= j
          BY <1>6, <2>2, <3>3, <4>2
        <5>2. Index(i + 1) # -1
          BY <1>6, <3>1, <5>1
        <5>3. /\ Index(i + 1) \in i + 1 .. L /\ Occ(Index(i + 1))
              /\ \A j \in i + 1 .. L : Occ(j) => Index(i + 1) <= j
          BY <1>6, <3>1, <5>2
        <5>4. Index(i + 1) <= Index(i)
          BY <5>1, <5>3
        <5>5. Index(i) <= Index(i + 1)
          <6>1. Index(i + 1) \in i .. L
            BY <5>3
          <6> QED BY <5>1, <5>3, <6>1
        <5> QED BY <5>1, <5>3, <5>4, <5>5
      <4> QED BY <4>1, <4>2
    <3> QED BY <3>1, <3>2, <3>4
  <2> QED BY <2>1, <2>2
<1>14. \A n \in 1 .. L : (\A k \in 1 .. n - 1 : k \in Good) => n \in Good
  <2> SUFFICES ASSUME NEW n \in 1 .. L, \A k \in 1 .. n - 1 : k \in Good PROVE n \in Good
    OBVIOUS
  <2> HIDE DEF Right
  <2>1. \A j \in 0 .. L : L - (n - 1) <= j => Right(j)
    <3>1. CASE n = 1
      <4>1. \A j \in 0 .. L : L - (n - 1) <= j => j = L
        BY <1>1, <3>1
      <4> QED BY <1>12, <4>1
    <3>2. CASE n # 1
      <4>1. n - 1 \in 1 .. n - 1
        BY <3>2
      <4>2. n - 1 \in Good
        BY <4>1
      <4> QED BY <4>2
    <3> QED BY <3>1, <3>2
  <2>2. L - n \in 0 .. L /\ L - n # L /\ (L - n) + 1 = L - (n - 1)
    BY <1>1
  <2>3. Right(L - n)
    BY <1>13, <2>1, <2>2
  <2>4. \A j \in 0 .. L : L - n <= j => j = L - n \/ L - (n - 1) <= j
    BY <1>1
  <2> QED BY <2>1, <2>3, <2>4
<1>15. \A i \in 0 .. L : Right(i)
  <2> HIDE DEF Right
  <2>1. \A n \in 1 .. L : n \in Good
    <3> HIDE DEF Good
    <3> QED BY <1>1, <1>14, InductionUpTo
  <2>2. CASE L = 0
    <3>1. \A i \in 0 .. L : i = L
      BY <2>2
    <3> QED BY <1>12, <3>1
  <2>3. CASE L # 0
    <3>1. L \in 1 .. L /\ L - L = 0
      BY <1>1, <2>3
    <3>2. L \in Good
      BY <2>1, <3>1
    <3>3. \A i \in 0 .. L : L - L <= i
      BY <1>1
    <3> QED BY <3>2, <3>3
  <2> QED BY <2>2, <2>3
<1> DEFINE c == [i \in 0 .. L |-> D[i] \div M]
<1>16. /\ \A x \in Nat : x \div M \in Nat
       /\ \A x \in Nat : (M + x) \div M = 1 + x \div M
       /\ 0 \div M = 0
  BY <1>1
<1>17. c \in [0 .. L -> Nat]
  BY <1>15, <1>16
<1>18. ASSUME NEW i \in 0 .. L
       PROVE  /\ Index(i) = -1 <=> c[i] = 0
              /\ Index(i) # -1 => Index(i) + M \in 0 .. L /\ c[i] = 1 + c[Index(i) + M]
  <2>1. CASE Index(i) = -1
    BY <1>15, <1>16, <2>1
  <2>2. CASE Index(i) # -1
    <3> DEFINE j == Index(i) + M
    <3>1. j \in 0 .. L /\ D[i] = M + D[j] /\ D[j] \in Nat
      BY <1>15, <2>2
    <3> HIDE DEF j
    <3>2. c[i] = 1 + c[j] /\ c[j] \in Nat
      BY <1>16, <1>17, <3>1
    <3> QED BY <2>2, <3>1, <3>2 DEF j
  <2> QED BY <2>1, <2>2
<1>19. 0 \in 0 .. L
  BY <1>1
<1>20. c[0] = CountIn(s, t)
  <2>1. c[0] = D[0] \div M /\ D[0] = (L - 0) - Len(from[0])
    BY <1>19 DEF D
  <2>2. CountIn(s, t) = (L - Len(ReplaceEach(s, t, <<>>))) \div M
    BY Zenon DEF CountIn, L, M
  <2>3. L - 0 = L
    BY <1>1
  <2> QED BY <1>3, <2>1, <2>2, <2>3
<1> HIDE DEF c
<1>21. Counts(c, s, t)
  BY <1>17, <1>18, Zenon DEF Counts, L, M, Index
<1> QED
  BY <1>20, <1>21

(* Exactly k matches are found one after the other when there are k. *)
LEMMA ChainedCounts ==
  ASSUME NEW s \in Text, NEW t \in Text, t # <<>>, NEW k \in Nat, k # 0
  PROVE  Chained(s, t, k) <=> CountIn(s, t) = k
<1> DEFINE L == Len(s)
           M == Len(t)
           Start(f, n) == IF n = 1 THEN 0 ELSE f[n - 1] + M
           Index(i) == IndexOf(s, t, i)
           Is(f) == f = [n \in 1 .. (k + 1) |-> Index(Start(f, n))]
           found == CHOOSE f : Is(f)
<1>1. L \in Nat /\ M \in Nat /\ M # 0 /\ -1 \in Int
  BY TextFacts
<1>2. PICK c : Counts(c, s, t) /\ c[0] = CountIn(s, t)
  BY CountsMatches
<1>3. /\ c \in [0 .. L -> Nat]
      /\ \A i \in 0 .. L :
           /\ Index(i) = -1 <=> c[i] = 0
           /\ Index(i) # -1 => Index(i) + M \in 0 .. L /\ c[i] = 1 + c[Index(i) + M]
  BY <1>2 DEF Counts
<1>4. Chained(s, t, k) <=> (\A n \in 1 .. k : found[n] >= 0) /\ found[k + 1] = -1
  BY Zenon DEF Chained
<1>5. \A i \in Int : Index(i) \in Int /\ (Index(i) # -1 => Index(i) >= 0)
  <2> SUFFICES ASSUME NEW i \in Int PROVE Index(i) \in Int /\ (Index(i) # -1 => Index(i) >= 0)
    OBVIOUS
  <2>1. CASE i < 0
    BY <2>1 DEF IndexOf
  <2>2. CASE i >= 0
    <3>1. i \in Nat
      BY <2>2
    <3>2. Index(i) \in Int /\ (Index(i) # -1 => Index(i) \in Occurrences(s, t, i))
      BY <3>1, IndexOfProperties
    <3>3. \A j \in Occurrences(s, t, i) : j >= 0
      <4>1. \A j \in Occurrences(s, t, i) : j \in i .. L
        BY DEF Occurrences
      <4> HIDE DEF L
      <4> QED BY <1>1, <3>1, <4>1
    <3> QED BY <3>2, <3>3
  <2> QED BY <2>1, <2>2
<1> HIDE DEF L, M, Index
<1> DEFINE step == [n \in 1 .. k + 1 |-> [v \in Int |-> Index(v + M)]]
<1>6. PICK f : Follows(f, Int, k + 1, -M, step)
  <2>1. step \in [1 .. k + 1 -> [Int -> Int]]
    BY <1>1, <1>5
  <2>2. -M \in Int /\ k + 1 \in Nat
    BY <1>1
  <2> HIDE DEF step
  <2> QED BY <2>1, <2>2, RecursionUpTo, Zenon DEF Steps
<1>7. /\ f[0] = -M
      /\ \A n \in 1 .. k + 1 : n - 1 \in 0 .. k + 1 /\ f[n - 1] \in Int
                                /\ f[n] = Index(f[n - 1] + M)
  <2>1. f \in [0 .. k + 1 -> Int] /\ f[0] = -M
    BY <1>6 DEF Follows
  <2>2. \A n \in 1 .. k + 1 : f[n] = step[n][f[n - 1]]
    BY <1>6 DEF Follows
  <2>3. \A n \in 1 .. k + 1 : n - 1 \in 0 .. k + 1
    OBVIOUS
  <2>4. \A n \in 1 .. k + 1 : f[n - 1] \in Int
    BY <2>1, <2>3
  <2>5. \A n \in 1 .. k + 1 : f[n] = Index(f[n - 1] + M)
    BY <2>2, <2>4
  <2> QED BY <2>1, <2>3, <2>4, <2>5
<1> DEFINE g == [n \in 1 .. (k + 1) |-> f[n]]
<1>8. Is(g)
  <2>1. ASSUME NEW n \in 1 .. k + 1 PROVE f[n] = Index(Start(g, n))
    <3>1. CASE n = 1
      <4>1. f[n - 1] + M = 0
        BY <1>1, <1>7, <3>1
      <4> QED BY <1>7, <3>1, <4>1
    <3>2. CASE n # 1
      <4>1. n - 1 \in 1 .. k + 1
        BY <3>2
      <4>2. g[n - 1] = f[n - 1]
        BY <4>1
      <4> HIDE DEF g
      <4> QED BY <1>7, <3>2, <4>2
    <3> QED BY <3>1, <3>2
  <2>2. g = [n \in 1 .. (k + 1) |-> Index(Start(g, n))]
    <3> HIDE DEF g, Start
    <3>1. g = [n \in 1 .. (k + 1) |-> f[n]]
      BY DEF g
    <3> QED BY <2>1, <3>1
  <2> QED BY <2>2
<1>9. Is(found)
  <2> HIDE DEF Is
  <2> QED BY <1>8, Zenon
<1> HIDE DEF found, g
<1>10. \A n \in 1 .. k + 1 : found[n] = Index(Start(found, n))
  <2> HIDE DEF Start
  <2> QED BY <1>9
<1> HIDE DEF Is
<1> DEFINE Met(n) == \A m \in 1 .. n - 1 : found[m] >= 0
           Right(n) == Met(n) => /\ Start(found, n) \in 0 .. L
                                 /\ c[0] = (n - 1) + c[Start(found, n)]
           Good == {n \in 1 .. k + 1 : Right(n)}
<1>11. Right(1)
  BY <1>1, <1>3
<1>12. ASSUME NEW n \in 1 .. k, Right(n) PROVE Right(n + 1)
  <2> SUFFICES ASSUME Met(n + 1) PROVE Start(found, n + 1) \in 0 .. L
                                       /\ c[0] = n + c[Start(found, n + 1)]
    OBVIOUS
  <2>1. n \in 1 .. (n + 1) - 1 /\ n \in 1 .. k + 1 /\ \A m \in 1 .. n - 1 : m \in 1 .. (n + 1) - 1
    OBVIOUS
  <2>2. found[n] >= 0 /\ Met(n)
    BY <2>1
  <2> DEFINE i == Start(found, n)
             j == Index(i) + M
  <2>3. i \in 0 .. L /\ c[0] = (n - 1) + c[i]
    BY <1>12, <2>2
  <2>4. found[n] = Index(i)
    BY <1>10, <2>1
  <2>5. Start(found, n + 1) = j
    <3>1. n + 1 # 1 /\ (n + 1) - 1 = n
      OBVIOUS
    <3> QED BY <2>4, <3>1
  <2> HIDE DEF Start, i
  <2>6. Index(i) # -1
    BY <2>2, <2>4
  <2>7. j \in 0 .. L /\ c[i] = 1 + c[j]
    BY <1>3, <2>3, <2>6
  <2> HIDE DEF j
  <2>8. c[j] \in Nat /\ c[i] \in Nat
    BY <1>3, <2>3, <2>7
  <2> QED BY <2>3, <2>5, <2>7, <2>8
<1>13. \A n \in 1 .. k + 1 : (\A m \in 1 .. n - 1 : m \in Good) => n \in Good
  <2> SUFFICES ASSUME NEW n \in 1 .. k + 1, \A m \in 1 .. n - 1 : m \in Good PROVE n \in Good
    OBVIOUS
  <2> HIDE DEF Right
  <2>1. CASE n = 1
    BY <1>11, <2>1
  <2>2. CASE n # 1
    <3>1. n - 1 \in 1 .. n - 1 /\ n - 1 \in 1 .. k /\ (n - 1) + 1 = n
      BY <2>2
    <3>2. Right(n - 1)
      BY <3>1
    <3>3. Right((n - 1) + 1)
      BY <1>12, <3>1, <3>2
    <3> QED BY <3>1, <3>3
  <2> QED BY <2>1, <2>2
<1>14. \A n \in 1 .. k + 1 : Right(n)
  <2>1. \A n \in 1 .. k + 1 : n \in Good
    <3>1. k + 1 \in Nat
      OBVIOUS
    <3> HIDE DEF Good
    <3> QED BY <1>13, <3>1, InductionUpTo
  <2> QED BY <2>1
<1>15. ASSUME \A n \in 1 .. k : found[n] >= 0, found[k + 1] = -1 PROVE c[0] = k
  <2>1. k + 1 \in 1 .. k + 1 /\ (k + 1) - 1 = k
    OBVIOUS
  <2>2. Met(k + 1)
    BY <1>15, <2>1
  <2> DEFINE i == Start(found, k + 1)
  <2>3. i \in 0 .. L /\ c[0] = k + c[i]
    BY <1>14, <2>1, <2>2
  <2>4. found[k + 1] = Index(i)
    BY <1>10, <2>1
  <2> HIDE DEF i
  <2>5. c[i] = 0
    BY <1>3, <1>15, <2>3, <2>4
  <2> QED BY <2>3, <2>5
<1>16. ASSUME c[0] = k PROVE (\A n \in 1 .. k : found[n] >= 0) /\ found[k + 1] = -1
  <2> DEFINE Ok == {n \in 1 .. k : found[n] >= 0}
  <2>1. \A n \in 1 .. k : (\A m \in 1 .. n - 1 : m \in Ok) => n \in Ok
    <3> SUFFICES ASSUME NEW n \in 1 .. k, \A m \in 1 .. n - 1 : m \in Ok PROVE found[n] >= 0
      OBVIOUS
    <3> DEFINE i == Start(found, n)
    <3>1. Met(n) /\ n \in 1 .. k + 1
      OBVIOUS
    <3>2. i \in 0 .. L /\ c[0] = (n - 1) + c[i]
      BY <1>14, <3>1
    <3>3. found[n] = Index(i)
      BY <1>10, <3>1
    <3> HIDE DEF i, Start
    <3>4. i \in Int /\ c[i] \in Nat /\ c[i] # 0
      BY <1>1, <1>3, <1>16, <3>2
    <3> QED BY <1>3, <1>5, <3>2, <3>3, <3>4
  <2>2. \A n \in 1 .. k : found[n] >= 0
    <3>1. \A n \in 1 .. k : n \in Ok
      <4> HIDE DEF Ok
      <4> QED BY <2>1, InductionUpTo
    <3> QED BY <3>1
  <2> DEFINE i == Start(found, k + 1)
  <2>3. k + 1 \in 1 .. k + 1 /\ (k + 1) - 1 = k
    OBVIOUS
  <2>4. i \in 0 .. L /\ c[0] = k + c[i]
    BY <1>14, <2>2, <2>3
  <2>5. found[k + 1] = Index(i)
    BY <1>10, <2>3
  <2> HIDE DEF i
  <2>6. c[i] = 0
    <3>1. c[i] \in Nat
      BY <1>3, <2>4
    <3> QED BY <1>16, <2>4, <3>1
  <2> QED BY <1>3, <2>2, <2>4, <2>5, <2>6
<1> QED
  BY <1>2, <1>4, <1>15, <1>16

(* Nothing is counted where nothing occurs. *)
LEMMA AbsentCounts ==
  ASSUME NEW s \in Text, NEW t \in Text, t # <<>>
  PROVE  ~Has(s, t) <=> CountIn(s, t) = 0
<1>1. PICK c : Counts(c, s, t) /\ c[0] = CountIn(s, t)
  BY CountsMatches
<1>2. 0 \in 0 .. Len(s)
  BY TextFacts
<1>3. IndexOf(s, t, 0) = -1 <=> c[0] = 0
  BY <1>1, <1>2 DEF Counts
<1>4. IndexOf(s, t, 0) = -1 <=> Occurrences(s, t, 0) = {}
  BY IndexOfProperties
<1> QED
  BY <1>1, <1>3, <1>4 DEF Has

-----------------------------------------------------------------------------
(* The characterwise form of a case-folded comparison. *)

LEMMA CaseOfOne ==
  ASSUME NEW c \in Int
  PROVE  /\ <<c>> \in Text
         /\ Lower(<<c>>) = <<IF c \in UpperLetter THEN c + 32 ELSE c>>
         /\ Upper(<<c>>) = <<IF c \in LowerLetter THEN c - 32 ELSE c>>
<1>1. <<c>> \in Seq(Int) /\ Len(<<c>>) = 1 /\ <<c>>[1] = c /\ \A i \in 1 .. 1 : i = 1
  OBVIOUS
<1>2. \A x : <<x>> = [i \in 1 .. 1 |-> x]
  OBVIOUS
<1>3. Lower(<<c>>) = [i \in 1 .. 1 |-> IF c \in UpperLetter THEN c + 32 ELSE c]
  BY <1>1 DEF Lower
<1>4. Upper(<<c>>) = [i \in 1 .. 1 |-> IF c \in LowerLetter THEN c - 32 ELSE c]
  BY <1>1 DEF Upper
<1> QED
  BY <1>1, <1>2, <1>3, <1>4 DEF Text

CharClause(x, a) ==
    IF a \in Letter THEN <<x>> \in {Lower(<<a>>), Upper(<<a>>)} ELSE <<x>> = Read(<<a>>)

LEMMA ClauseFolds ==
  ASSUME NEW x \in Int, NEW a \in 32 .. 126 \ {Backslash, Quote}
  PROVE  /\ a \notin UpperLetter =>
              (CharClause(x, a) <=> (IF x \in UpperLetter THEN x + 32 ELSE x) = a)
         /\ a \notin LowerLetter =>
              (CharClause(x, a) <=> (IF x \in LowerLetter THEN x - 32 ELSE x) = a)
<1> DEFINE lo == IF a \in UpperLetter THEN a + 32 ELSE a
           up == IF a \in LowerLetter THEN a - 32 ELSE a
<1>1. a \in Int /\ <<a>> \in Text
  BY CaseOfOne
<1>2. Lower(<<a>>) = <<lo>> /\ Upper(<<a>>) = <<up>>
  BY <1>1, CaseOfOne
<1>3. Read(<<a>>) = <<a>>
  <2>1. Len(<<a>>) = 1 /\ <<a>>[1] = a /\ \A i \in 1 .. 1 : i = 1
    OBVIOUS
  <2>2. Transparent(<<a>>)
    BY <2>1 DEF Transparent
  <2> QED BY <1>1, <2>2, ReadsAsWritten
<1>4. \A y : <<x>> = <<y>> <=> x = y
  OBVIOUS
<1>5. CharClause(x, a) <=> IF a \in Letter THEN x = lo \/ x = up ELSE x = a
  <2> HIDE DEF lo, up
  <2> QED BY <1>2, <1>3, <1>4 DEF CharClause
<1> QED
  BY <1>1, <1>5 DEF Letter, UpperLetter, LowerLetter

LEMMA CharwiseFolds ==
  ASSUME NEW s \in Text, NEW lit \in Text, Unescaped(lit)
  PROVE  /\ Lower(lit) = lit => (Charwise(s, lit) <=> Lower(s) = lit)
         /\ Upper(lit) = lit => (Charwise(s, lit) <=> Upper(s) = lit)
<1> DEFINE L == Len(s)
           M == Len(lit)
<1>1. /\ L \in Nat /\ M \in Nat
      /\ \A i \in 1 .. L : s[i] \in Int
      /\ \A i \in 1 .. M : lit[i] \in 32 .. 126 \ {Backslash, Quote}
  BY TextFacts DEF Unescaped
<1>2. Charwise(s, lit) <=> L = M /\ \A i \in 1 .. M : CharClause(s[i], lit[i])
  BY Zenon DEF Charwise, CharClause
<1>3. \A w \in Text : w = lit <=> Len(w) = M /\ \A i \in 1 .. M : w[i] = lit[i]
  BY SeqEqual DEF Text
<1>4. ASSUME NEW w \in Text
      PROVE  /\ Lower(w) \in Text /\ Len(Lower(w)) = Len(w)
             /\ Upper(w) \in Text /\ Len(Upper(w)) = Len(w)
             /\ \A i \in 1 .. Len(w) :
                  /\ Lower(w)[i] = IF w[i] \in UpperLetter THEN w[i] + 32 ELSE w[i]
                  /\ Upper(w)[i] = IF w[i] \in LowerLetter THEN w[i] - 32 ELSE w[i]
  <2> DEFINE N == Len(w)
             lw == Lower(w)
             uw == Upper(w)
  <2>1. N \in Nat
    BY TextFacts
  <2>2. /\ DOMAIN lw = 1 .. N /\ DOMAIN uw = 1 .. N
        /\ \A i \in 1 .. N :
             /\ lw[i] = IF w[i] \in UpperLetter THEN w[i] + 32 ELSE w[i]
             /\ uw[i] = IF w[i] \in LowerLetter THEN w[i] - 32 ELSE w[i]
    BY DEF Lower, Upper
  <2>3. lw \in Text /\ uw \in Text
    BY CaseType
  <2> HIDE DEF lw, uw, N
  <2>4. /\ Len(lw) \in Nat /\ 1 .. Len(lw) = 1 .. N
        /\ Len(uw) \in Nat /\ 1 .. Len(uw) = 1 .. N
    BY <2>2, <2>3, TextFacts
  <2> DEFINE A == Len(lw)
             B == Len(uw)
  <2>5. A \in Nat /\ 1 .. A = 1 .. N /\ B \in Nat /\ 1 .. B = 1 .. N
    BY <2>4
  <2> HIDE DEF A, B
  <2>6. A = N /\ B = N
    BY <2>1, <2>5
  <2> QED BY <2>2, <2>3, <2>6 DEF A, B, lw, uw, N
<1>5. ASSUME Lower(lit) = lit PROVE Charwise(s, lit) <=> Lower(s) = lit
  <2>1. \A i \in 1 .. M : lit[i] \notin UpperLetter
    <3> SUFFICES ASSUME NEW i \in 1 .. M, lit[i] \in UpperLetter PROVE FALSE
      OBVIOUS
    <3>1. lit[i] = lit[i] + 32
      BY <1>4, <1>5
    <3> QED BY <3>1 DEF UpperLetter
  <2>2. Lower(s) = lit <=>
          L = M /\ \A i \in 1 .. M : (IF s[i] \in UpperLetter THEN s[i] + 32 ELSE s[i]) = lit[i]
    <3>1. Lower(s) = lit <=> L = M /\ \A i \in 1 .. M : Lower(s)[i] = lit[i]
      BY <1>3, <1>4
    <3> HIDE DEF M
    <3>2. L = M => \A i \in 1 .. M : Lower(s)[i] = IF s[i] \in UpperLetter THEN s[i] + 32 ELSE s[i]
      BY <1>4
    <3> HIDE DEF L
    <3> QED BY <3>1, <3>2
  <2> HIDE DEF M, L
  <2>3. L = M => \A i \in 1 .. M :
          CharClause(s[i], lit[i]) <=> (IF s[i] \in UpperLetter THEN s[i] + 32 ELSE s[i]) = lit[i]
    BY <1>1, <2>1, ClauseFolds
  <2> QED BY <1>2, <2>2, <2>3
<1>6. ASSUME Upper(lit) = lit PROVE Charwise(s, lit) <=> Upper(s) = lit
  <2>1. \A i \in 1 .. M : lit[i] \notin LowerLetter
    <3> SUFFICES ASSUME NEW i \in 1 .. M, lit[i] \in LowerLetter PROVE FALSE
      OBVIOUS
    <3>1. lit[i] = lit[i] - 32
      BY <1>4, <1>6
    <3> DEFINE x == lit[i]
    <3>2. x \in 32 .. 126 \ {Backslash, Quote}
      BY <1>1
    <3>3. x = x - 32
      BY <3>1
    <3> HIDE DEF x
    <3> QED BY <3>2, <3>3
  <2>2. Upper(s) = lit <=>
          L = M /\ \A i \in 1 .. M : (IF s[i] \in LowerLetter THEN s[i] - 32 ELSE s[i]) = lit[i]
    <3>1. Upper(s) = lit <=> L = M /\ \A i \in 1 .. M : Upper(s)[i] = lit[i]
      BY <1>3, <1>4
    <3> HIDE DEF M
    <3>2. L = M => \A i \in 1 .. M : Upper(s)[i] = IF s[i] \in LowerLetter THEN s[i] - 32 ELSE s[i]
      BY <1>4
    <3> HIDE DEF L
    <3> QED BY <3>1, <3>2
  <2> HIDE DEF M, L
  <2>3. L = M => \A i \in 1 .. M :
          CharClause(s[i], lit[i]) <=> (IF s[i] \in LowerLetter THEN s[i] - 32 ELSE s[i]) = lit[i]
    BY <1>1, <2>1, ClauseFolds
  <2> QED BY <1>2, <2>2, <2>3
<1> QED
  BY <1>5, <1>6

-----------------------------------------------------------------------------
(* What the solver reads in a condition and in its rewritten form is what the *)
(* target tests.                                                              *)

(* A text that the solver prints as it is has characters of ASCII only. *)
LEMMA TransparentFolds ==
  ASSUME NEW s \in Text, Transparent(Printed(s)), NEW c
  PROVE  FoldsAlike(c, s)
<1>1. NoBackslash(s) /\ Printed(s) = Doubled(s)
  BY PrintedTransparent
<1>2. ASSUME NEW i \in 1 .. Len(s) PROVE s[i] \in 32 .. 126
  <2>1. PICK off : Places(off, s, Doubled(s))
    BY <1>1, DoubledProperties
  <2>2. Doubled(s) \in Text
    BY <1>1, DoubledProperties
  <2>3. Len(s) \in Nat /\ Len(Doubled(s)) \in Nat
    BY <2>2, TextFacts
  <2> DEFINE j == off[i - 1] + 1
  <2>4. /\ off \in [0 .. Len(s) -> Nat] /\ Doubled(s)[j] = s[i]
        /\ off[i] = off[i - 1] + (IF s[i] = Quote THEN 2 ELSE 1) /\ off[i] <= Len(Doubled(s))
    BY <2>1 DEF Places
  <2>5. off[i - 1] \in Nat
    BY <2>3, <2>4
  <2> HIDE DEF j
  <2>6. j \in 1 .. Len(Doubled(s))
    BY <2>3, <2>4, <2>5 DEF j
  <2>7. Transparent(Doubled(s))
    BY <1>1
  <2> QED BY <2>4, <2>6, <2>7 DEF Transparent
<1>3. ToSet(s) \cap DOMAIN Unicode = {}
  <2>1. \A c1 \in ToSet(s) : c1 \in 32 .. 126
    BY <1>2, TextFacts DEF ToSet
  <2>2. \A c1 \in DOMAIN Unicode : c1 \notin 32 .. 126
    BY UnicodeAssumption
  <2> QED BY <2>1, <2>2
<1>4. Ascii(s)
  BY <1>3 DEF Ascii, Lacks
<1> QED
  BY <1>4 DEF FoldsAlike, PyLower, PyUpper

(* A faithful condition asserts in the formula what the target tests. *)
LEMMA AssertsAsTested ==
  ASSUME NEW c \in Condition, Faithful(c), NEW a, a.s \in Text, FoldsAlike(c, a.s)
  PROVE  Asserts(c, a) <=> Tests(c, a)
<1>1. c.lit \in Text /\ Transparent(c.lit)
  BY DEF Condition, Faithful, Text
<1>2. Read(c.lit) = c.lit
  BY <1>1, ReadsAsWritten
<1> DEFINE truth == CASE c.op = "str="  -> a.s = c.lit
                      [] c.op = "count" -> CountIn(a.s, IF c.symbolic THEN a.s ELSE c.lit) = c.k
                      [] c.op = "lower" -> PyLower(a.s) = c.lit
                      [] c.op = "upper" -> PyUpper(a.s) = c.lit
                      [] OTHER          -> Meaning(c, a)
<1>3. Tests(c, a) <=> truth = (c.wanted = ~c.negated)
  BY Zenon DEF Tests
<1>4. Asserts(c, a) <=> Meaning(c, a) = (c.wanted = ~c.negated)
  BY Zenon DEF Asserts
<1>5. truth = Meaning(c, a)
  <2>1. CASE c.op = "str="
    <3>1. truth = (a.s = c.lit)
      BY <2>1
    <3>2. Meaning(c, a) = (a.s = Read(c.lit))
      BY <2>1 DEF Meaning
    <3> HIDE DEF truth
    <3> QED BY ONLY <1>2, <3>1, <3>2, Zenon
  <2>2. CASE c.op = "count"
    <3>1. truth = (CountIn(a.s, IF c.symbolic THEN a.s ELSE c.lit) = c.k)
      BY <2>2
    <3>2. Meaning(c, a) = (CountIn(a.s, IF c.symbolic THEN a.s ELSE Read(c.lit)) = c.k)
      BY <2>2 DEF Meaning
    <3> HIDE DEF truth
    <3> QED BY ONLY <1>2, <3>1, <3>2, Zenon
  <2>3. CASE c.op = "lower"
    <3>1. truth = (Lower(a.s) = c.lit)
      BY <2>3 DEF FoldsAlike
    <3>2. Meaning(c, a) = (Lower(a.s) = Read(c.lit))
      BY <2>3 DEF Meaning
    <3> HIDE DEF truth
    <3> QED BY ONLY <1>2, <3>1, <3>2, Zenon
  <2>4. CASE c.op = "upper"
    <3>1. truth = (Upper(a.s) = c.lit)
      BY <2>4 DEF FoldsAlike
    <3>2. Meaning(c, a) = (Upper(a.s) = Read(c.lit))
      BY <2>4 DEF Meaning
    <3> HIDE DEF truth
    <3> QED BY ONLY <1>2, <3>1, <3>2, Zenon
  <2>5. CASE ~(c.op \in {"str=", "count", "lower", "upper"})
    BY <2>5
  <2> QED BY <2>1, <2>2, <2>3, <2>4, <2>5
<1> HIDE DEF truth
<1> QED
  BY <1>3, <1>4, <1>5, Zenon

LEMMA RewrittenFields ==
  ASSUME NEW c \in Condition, NEW op
  PROVE  LET d == Rewritten(c, op)
         IN  d.op = op /\ d.k = c.k /\ d.lit = c.lit /\ d.wanted = c.wanted /\ d.negated = c.negated
BY DEF Rewritten, Condition

(* Rewriting a faithful condition changes nothing for the solver. *)
LEMMA RewriteKeeps ==
  ASSUME NEW c \in Condition, Faithful(c), NEW a, a.s \in Text
  PROVE  Asserts(RewriteNode(c), a) <=> Asserts(c, a)
<1>1. c.lit \in Text /\ Transparent(c.lit) /\ Folded(c) /\ c.k \in Int
  BY DEF Condition, Faithful, Text
<1>2. Read(c.lit) = c.lit
  BY <1>1, ReadsAsWritten
<1>3. SUFFICES RewriteNode(c) # c =>
                 /\ Meaning(RewriteNode(c), a) = Meaning(c, a)
                 /\ RewriteNode(c).wanted = c.wanted /\ RewriteNode(c).negated = c.negated
  BY Zenon DEF Asserts
<1>4. CASE c.op = "count"
  <2>1. RewriteNode(c) = RewriteCount(c)
    BY <1>4 DEF RewriteNode
  <2>2. CASE c.k < 0 \/ c.symbolic \/ c.lit = <<>>
    BY <2>1, <2>2 DEF RewriteCount
  <2>3. CASE ~(c.k < 0 \/ c.symbolic \/ c.lit = <<>>)
    <3>1. RewriteNode(c) = IF c.k = 0 THEN Rewritten(c, "absent") ELSE Rewritten(c, "chain")
      BY <2>1, <2>3 DEF RewriteCount
    <3>2. Meaning(c, a) = (CountIn(a.s, c.lit) = c.k)
      <4>1. Meaning(c, a) = (CountIn(a.s, IF c.symbolic THEN a.s ELSE Read(c.lit)) = c.k)
        BY <1>4 DEF Meaning
      <4>2. ~c.symbolic
        BY <2>3
      <4> QED BY ONLY <1>2, <4>1, <4>2, Zenon
    <3>3. c.k \in Nat /\ c.lit # <<>>
      BY <1>1, <2>3
    <3>4. CASE c.k = 0
      <4> DEFINE d == Rewritten(c, "absent")
      <4>1. RewriteNode(c) = d
        BY <3>1, <3>4, Zenon
      <4>2. d.op = "absent" /\ d.lit = c.lit /\ d.wanted = c.wanted /\ d.negated = c.negated
        BY RewrittenFields
      <4> HIDE DEF d
      <4>3. Meaning(d, a) = ~Has(a.s, c.lit)
        <5>1. Meaning(d, a) = ~Has(a.s, Read(d.lit))
          BY <4>2 DEF Meaning
        <5> QED BY ONLY <1>2, <4>2, <5>1, Zenon
      <4>4. ~Has(a.s, c.lit) <=> CountIn(a.s, c.lit) = 0
        BY <1>1, <3>3, AbsentCounts
      <4>5. (~Has(a.s, c.lit)) = (CountIn(a.s, c.lit) = c.k)
        BY <3>4, <4>4
      <4> QED BY <3>2, <4>1, <4>2, <4>3, <4>5, Zenon
    <3>5. CASE c.k # 0
      <4> DEFINE d == Rewritten(c, "chain")
      <4>1. RewriteNode(c) = d
        BY <3>1, <3>5, Zenon
      <4>2. d.op = "chain" /\ d.lit = c.lit /\ d.k = c.k /\ d.wanted = c.wanted /\ d.negated = c.negated
        BY RewrittenFields
      <4> HIDE DEF d
      <4>3. Meaning(d, a) = Chained(a.s, c.lit, c.k)
        <5>1. Meaning(d, a) = Chained(a.s, Read(d.lit), d.k)
          BY <4>2 DEF Meaning
        <5> QED BY ONLY <1>2, <4>2, <5>1, Zenon
      <4>4. Chained(a.s, c.lit, c.k) <=> CountIn(a.s, c.lit) = c.k
        BY <1>1, <3>3, <3>5, ChainedCounts
      <4>5. Chained(a.s, c.lit, c.k) \in BOOLEAN
        BY DEF Chained
      <4>6. Chained(a.s, c.lit, c.k) = (CountIn(a.s, c.lit) = c.k)
        BY <4>4, <4>5
      <4> QED BY <3>2, <4>1, <4>2, <4>3, <4>6, Zenon
    <3> QED BY <3>4, <3>5
  <2> QED BY <2>2, <2>3
<1>5. CASE c.op \in {"lower", "upper"}
  <2> DEFINE d == Rewritten(c, "charwise")
  <2>1. RewriteNode(c) = RewriteCase(c)
    BY <1>5 DEF RewriteNode
  <2>2. RewriteNode(c) = c \/ RewriteNode(c) = d
    BY <2>1 DEF RewriteCase
  <2>3. d.op = "charwise" /\ d.lit = c.lit /\ d.wanted = c.wanted /\ d.negated = c.negated
    BY RewrittenFields
  <2> HIDE DEF d
  <2>4. Unescaped(c.lit)
    BY <1>1, <1>5 DEF Folded
  <2>5. Meaning(d, a) = Charwise(a.s, c.lit)
    <3>1. Encode(c.lit) = c.lit
      BY <1>1, <2>4, EncodeKeeps
    <3>2. Meaning(d, a) = Charwise(a.s, Encode(d.lit))
      BY <2>3 DEF Meaning
    <3> QED BY ONLY <2>3, <3>1, <3>2, Zenon
  <2>6. Charwise(a.s, c.lit) \in BOOLEAN
    BY DEF Charwise
  <2>7. CASE c.op = "lower"
    <3>1. Lower(c.lit) = c.lit
      BY <1>1, <2>7 DEF Folded
    <3>2. Meaning(c, a) = (Lower(a.s) = c.lit)
      <4>1. Meaning(c, a) = (Lower(a.s) = Read(c.lit))
        BY <2>7 DEF Meaning
      <4> QED BY ONLY <1>2, <4>1, Zenon
    <3>3. Charwise(a.s, c.lit) <=> Lower(a.s) = c.lit
      BY <1>1, <2>4, <3>1, CharwiseFolds
    <3>4. Charwise(a.s, c.lit) = (Lower(a.s) = c.lit)
      BY <2>6, <3>3
    <3> QED BY <2>2, <2>3, <2>5, <3>2, <3>4, Zenon
  <2>8. CASE c.op = "upper"
    <3>1. Upper(c.lit) = c.lit
      BY <1>1, <2>8 DEF Folded
    <3>2. Meaning(c, a) = (Upper(a.s) = c.lit)
      <4>1. Meaning(c, a) = (Upper(a.s) = Read(c.lit))
        BY <2>8 DEF Meaning
      <4> QED BY ONLY <1>2, <4>1, Zenon
    <3>3. Charwise(a.s, c.lit) <=> Upper(a.s) = c.lit
      BY <1>1, <2>4, <3>1, CharwiseFolds
    <3>4. Charwise(a.s, c.lit) = (Upper(a.s) = c.lit)
      BY <2>6, <3>3
    <3> QED BY <2>2, <2>3, <2>5, <3>2, <3>4, Zenon
  <2> QED BY <1>5, <2>7, <2>8
<1>6. CASE ~(c.op \in {"count", "lower", "upper"})
  <2>1. RewriteNode(c) = c
    BY <1>6 DEF RewriteNode
  <2> QED BY <2>1
<1> QED
  BY <1>4, <1>5, <1>6

-----------------------------------------------------------------------------
(* The invariant: every condition of the path stands in the formula as it is or *)
(* rewritten, and what the process left is an answer to that formula.            *)

Lines(a) == <<Line("x", a), Line("r", a), Line("s", a)>>

SentFrom ==
    /\ Len(sent) = Len(path)
    /\ \A i \in 1 .. Len(path) :
         path[i] \in Condition /\ (sent[i] = path[i] \/ sent[i] = RewriteNode(path[i]))

AnswersSent ==
    /\ output.first = "sat" =>
         \E a \in Assignment : Satisfies(a, sent) /\ \E n \in {1, 3} : output.lines = SubSeq(Lines(a), 1, n)
    /\ output.first = "unsat" => \A a \in Assignment : ~Satisfies(a, sent)

ReadInput == [v \in DOMAIN Initial |-> IF Mentioned(v) THEN ValueOf(v) ELSE Initial[v]]

StatusRead == status = "none" \/ status = ParseStatus(output.first)

InputRead == input = NoInput \/ (input = ReadInput /\ status = "sat")

NothingReadYet == pc \in {"running", "ended"} => status = "none" /\ input = NoInput

QueryInv == SentFrom /\ AnswersSent /\ StatusRead /\ InputRead /\ NothingReadYet

LEMMA LengthOfFunction ==
  ASSUME NEW n \in Nat, NEW f, f = [i \in 1 .. n |-> f[i]]
  PROVE  Len(f) = n
<1> DEFINE S == {f[i] : i \in 1 .. n}
<1>1. [i \in 1 .. n |-> f[i]] \in Seq(S)
  <2>1. \A i \in 1 .. n : f[i] \in S
    OBVIOUS
  <2> HIDE DEF S
  <2> QED BY <2>1, IsASeq
<1> DEFINE M == Len(f)
<1>2. M \in Nat /\ DOMAIN f = 1 .. M
  BY <1>1, LenProperties
<1>3. DOMAIN f = 1 .. n
  OBVIOUS
<1> HIDE DEF M
<1>4. M = n
  BY <1>2, <1>3
<1> QED
  BY <1>4 DEF M

LEMMA SolveKeeps ==
  ASSUME NEW p \in Paths, Solve(p)
  PROVE  QueryInv'
<1>1. p \in Seq(Condition)
  BY QueryAssumption
<1>2. Len(p) \in Nat /\ \A i \in 1 .. Len(p) : p[i] \in Condition
  BY <1>1, LenProperties, ElementOfSeq
<1>3. PICK above \in [1 .. (Len(p) - 1) -> BOOLEAN] :
        sent' = [i \in 1 .. Len(p) |->
                   IF i = Len(p) \/ above[i] THEN RewriteNode(p[i]) ELSE p[i]]
  BY DEF Solve
<1>4. SentFrom'
  <2>1. path' = p
    BY DEF Solve
  <2>2. \A i \in 1 .. Len(p) : sent'[i] = p[i] \/ sent'[i] = RewriteNode(p[i])
    BY <1>3
  <2>3. Len(sent') = Len(p)
    <3>1. sent' = [i \in 1 .. Len(p) |-> sent'[i]]
      BY <1>3
    <3> QED BY <1>2, <3>1, LengthOfFunction
  <2> QED BY <1>2, <2>1, <2>2, <2>3, Zenon DEF SentFrom
<1>5. output' = NoOutput /\ status' = "none" /\ input' = NoInput
  BY DEF Solve
<1>6. AnswersSent'
  BY <1>5 DEF AnswersSent, NoOutput
<1> QED
  BY <1>4, <1>5, <1>6 DEF QueryInv, StatusRead, InputRead, NothingReadYet

LEMMA AnswersKeeps ==
  ASSUME QueryInv, SolverAnswers
  PROVE  QueryInv'
<1>1. /\ pc = "running" /\ pc' = "ended"
      /\ path' = path /\ sent' = sent /\ status' = status /\ input' = input
  BY DEF SolverAnswers
<1>2. SentFrom'
  BY <1>1 DEF QueryInv, SentFrom
<1>3. status = "none" /\ input = NoInput
  BY <1>1 DEF QueryInv, NothingReadYet
<1>4. AnswersSent'
  <2>1. CASE \E a \in Solutions, printed \in {1, 3} :
               output' = [first |-> "sat", lines |-> SubSeq(<<Line("x", a), Line("r", a), Line("s", a)>>,
                                                            1, printed)]
    <3>1. PICK a \in Solutions, n \in {1, 3} : output' = [first |-> "sat", lines |-> SubSeq(Lines(a), 1, n)]
      BY <2>1, Zenon DEF Lines
    <3>2. a \in Assignment /\ Satisfies(a, sent)
      BY DEF Solutions
    <3>3. output'.first = "sat" /\ output'.lines = SubSeq(Lines(a), 1, n)
      BY <3>1
    <3> QED BY <1>1, <3>2, <3>3 DEF AnswersSent
  <2>2. CASE Solutions = {} /\ output' = [first |-> "unsat", lines |-> <<>>]
    <3>1. output'.first = "unsat"
      BY <2>2
    <3>2. \A a \in Assignment : ~Satisfies(a, sent)
      BY <2>2 DEF Solutions
    <3> QED BY <1>1, <3>1, <3>2 DEF AnswersSent
  <2>3. CASE \E first \in {"unknown", "error", "nothing", "hang"} :
               output' = [first |-> first, lines |-> <<>>]
    <3>1. output'.first # "sat" /\ output'.first # "unsat"
      BY <2>3
    <3> QED BY <3>1 DEF AnswersSent
  <2> QED BY <2>1, <2>2, <2>3 DEF SolverAnswers
<1> QED
  BY <1>1, <1>2, <1>3, <1>4 DEF QueryInv, StatusRead, InputRead, NothingReadYet

LEMMA ExecuteKeeps ==
  ASSUME QueryInv, Execute
  PROVE  QueryInv'
<1>1. /\ pc = "ended" /\ pc' = "executed"
      /\ path' = path /\ sent' = sent /\ output' = output /\ input' = input
      /\ status' = ParseStatus(output.first)
  BY DEF Execute
<1>2. input = NoInput
  BY <1>1 DEF QueryInv, NothingReadYet
<1> QED
  BY <1>1, <1>2 DEF QueryInv, SentFrom, AnswersSent, StatusRead, InputRead, NothingReadYet

LEMMA ReadKeeps ==
  ASSUME QueryInv, ReadModel
  PROVE  QueryInv'
<1>1. /\ pc' = "idle" /\ path' = path /\ sent' = sent /\ output' = output /\ status' = status
      /\ input' = IF status = "sat" /\ Parses THEN ReadInput ELSE NoInput
  BY DEF ReadModel, ReadInput
<1>2. ReadInput' = ReadInput
  BY <1>1 DEF ReadInput, Mentioned, ValueOf
<1>3. InputRead'
  BY <1>1, <1>2 DEF InputRead
<1> QED
  BY <1>1, <1>3 DEF QueryInv, SentFrom, AnswersSent, StatusRead, NothingReadYet

LEMMA QueryInvariant == Spec => []QueryInv
<1>1. Init => QueryInv
  BY DEF Init, QueryInv, SentFrom, AnswersSent, StatusRead, InputRead, NothingReadYet, NoOutput
<1>2. QueryInv /\ [Next]_vars => QueryInv'
  <2> SUFFICES ASSUME QueryInv, [Next]_vars PROVE QueryInv'
    OBVIOUS
  <2>1. CASE \E p \in Paths : Solve(p)
    BY <2>1, SolveKeeps
  <2>2. CASE SolverAnswers
    BY <2>2, AnswersKeeps
  <2>3. CASE SolverMissing
    <3>1. /\ pc' = "raised" /\ path' = path /\ sent' = sent /\ output' = output /\ status' = status
          /\ input' = input
      BY <2>3 DEF SolverMissing
    <3>2. ReadInput' = ReadInput
      BY <3>1 DEF ReadInput, Mentioned, ValueOf
    <3> QED BY <3>1, <3>2 DEF QueryInv, SentFrom, AnswersSent, StatusRead, InputRead, NothingReadYet
  <2>4. CASE Execute
    BY <2>4, ExecuteKeeps
  <2>5. CASE ReadModel
    BY <2>5, ReadKeeps
  <2>6. CASE UNCHANGED vars
    <3>1. /\ pc' = pc /\ path' = path /\ sent' = sent /\ output' = output /\ status' = status
          /\ input' = input
      BY <2>6 DEF vars
    <3>2. ReadInput' = ReadInput
      BY <3>1 DEF ReadInput, Mentioned, ValueOf
    <3> QED BY <3>1, <3>2 DEF QueryInv, SentFrom, AnswersSent, StatusRead, InputRead, NothingReadYet
  <2> QED BY <2>1, <2>2, <2>3, <2>4, <2>5, <2>6 DEF Next
<1> QED
  BY <1>1, <1>2, PTL DEF Spec

-----------------------------------------------------------------------------

(* An input satisfies the formula when it takes the path. *)
LEMMA FormulaTests ==
  ASSUME SentFrom, \A i \in 1 .. Len(path) : Faithful(path[i]), NEW a, a.s \in Text,
         \A i \in 1 .. Len(path) : FoldsAlike(path[i], a.s)
  PROVE  Satisfies(a, sent) <=> \A i \in 1 .. Len(path) : Tests(path[i], a)
<1>1. ASSUME NEW i \in 1 .. Len(path) PROVE Asserts(sent[i], a) <=> Tests(path[i], a)
  <2>1. /\ path[i] \in Condition /\ Faithful(path[i]) /\ FoldsAlike(path[i], a.s)
        /\ sent[i] = path[i] \/ sent[i] = RewriteNode(path[i])
    BY DEF SentFrom
  <2>2. Asserts(path[i], a) <=> Tests(path[i], a)
    BY <2>1, AssertsAsTested
  <2>3. Asserts(RewriteNode(path[i]), a) <=> Asserts(path[i], a)
    BY <2>1, RewriteKeeps
  <2> QED BY <2>1, <2>2, <2>3
<1>2. Len(sent) = Len(path)
  BY DEF SentFrom
<1> QED
  BY <1>1, <1>2 DEF Satisfies

LEMMA AssignmentText ==
  ASSUME NEW a \in Assignment
  PROVE  /\ a.s \in Text /\ a.r \in Int /\ a.x \in Int
         /\ a = [v \in {"x", "r", "s"} |-> a[v]]
BY QueryAssumption DEF Assignment, Text

(* What the parser makes of a complete model is the assignment that was printed. *)
LEMMA ModelReadBack ==
  ASSUME NEW a \in Assignment, output.lines = Lines(a),
         \A l \in ToSet(output.lines) :
              /\ l.var = "s" => Transparent(l.value)
              /\ l.var = "r" => l.value % 2 = 0
  PROVE  ReadInput = a
<1>1. a.s \in Text /\ a.r \in Int
  BY AssignmentText
<1>2. /\ Line("x", a) = [var |-> "x", value |-> a["x"]]
      /\ Line("r", a) = [var |-> "r", value |-> a["r"]]
      /\ Line("s", a) = [var |-> "s", value |-> Printed(a.s)]
  BY DEF Line
<1>3. ToSet(output.lines) = {Line("x", a), Line("r", a), Line("s", a)}
  BY DEF Lines, ToSet
<1>4. Transparent(Printed(a.s)) /\ a.r % 2 = 0
  <2>1. Line("s", a) \in ToSet(output.lines) /\ Line("r", a) \in ToSet(output.lines)
    BY <1>3
  <2>2. /\ Line("s", a).var = "s" /\ Line("s", a).value = Printed(a.s)
        /\ Line("r", a).var = "r" /\ Line("r", a).value = a.r
    BY <1>2
  <2> QED BY <2>1, <2>2
<1>5. ASSUME NEW v \in {"x", "r", "s"}
      PROVE  Mentioned(v) /\ (CHOOSE l \in ToSet(output.lines) : l.var = v) = Line(v, a)
  <2>1. Line(v, a) \in ToSet(output.lines)
    BY <1>3
  <2>2. Line(v, a).var = v
    BY <1>2
  <2>3. \A l \in ToSet(output.lines) : l.var = v => l = Line(v, a)
    BY <1>2, <1>3
  <2>4. Mentioned(v)
    <3>1. /\ Len(output.lines) = 3
          /\ output.lines[1] = Line("x", a) /\ output.lines[2] = Line("r", a) /\ output.lines[3] = Line("s", a)
      BY DEF Lines
    <3> QED BY <1>2, <3>1 DEF Mentioned
  <2> QED BY <2>1, <2>2, <2>3, <2>4
<1>6. ParseString(Printed(a.s)) = a.s
  BY <1>1, <1>4, ParsesAsPrinted
<1>7. ASSUME NEW v \in {"x", "r", "s"} PROVE ValueOf(v) = a[v]
  <2>1. ValueOf(v) = ParsedValue(Line(v, a))
    BY <1>5, Zenon DEF ValueOf
  <2>2. CASE v = "x"
    BY <1>2, <2>1, <2>2 DEF ParsedValue
  <2>3. CASE v = "r"
    <3>1. ParsedValue(Line("r", a)) = ParseReal(a.r)
      BY <1>2 DEF ParsedValue
    <3>2. ParseReal(a.r) = a.r
      BY <1>4, Zenon DEF ParseReal
    <3> QED BY <2>1, <2>3, <3>1, <3>2
  <2>4. CASE v = "s"
    <3>1. ParsedValue(Line("s", a)) = ParseString(Printed(a.s))
      BY <1>2 DEF ParsedValue
    <3> QED BY <1>6, <2>1, <2>4, <3>1
  <2> QED BY <2>2, <2>3, <2>4
<1>8. DOMAIN Initial = {"x", "r", "s"}
  BY DEF Initial
<1>9. ReadInput = [v \in {"x", "r", "s"} |-> a[v]]
  BY <1>5, <1>7, <1>8 DEF ReadInput
<1> QED
  BY <1>9, AssignmentText

(* For every pool of constraints and every set of values the solver may choose, an *)
(* input made from a complete model takes the path it was sought for, whatever was  *)
(* rewritten on the way (SolvedInputSatisfies).                                      *)
THEOREM SolvedInputSatisfiesHolds == Spec => []SolvedInputSatisfies
<1>1. QueryInv => SolvedInputSatisfies
  <2> SUFFICES ASSUME QueryInv, input # NoInput, Len(output.lines) = 3,
                      \A i \in 1 .. Len(path) : Faithful(path[i]),
                      \A l \in ToSet(output.lines) :
                        /\ l.var = "s" => Transparent(l.value)
                        /\ l.var = "r" => l.value % 2 = 0
               PROVE  \A i \in 1 .. Len(path) : Tests(path[i], input)
    BY DEF SolvedInputSatisfies
  <2>1. input = ReadInput /\ status = "sat"
    BY DEF QueryInv, InputRead
  <2>2. output.first = "sat"
    <3>1. status = ParseStatus(output.first)
      BY <2>1 DEF QueryInv, StatusRead
    <3> QED BY <2>1, <3>1 DEF ParseStatus
  <2>3. PICK a \in Assignment :
          Satisfies(a, sent) /\ \E n \in {1, 3} : output.lines = SubSeq(Lines(a), 1, n)
    BY <2>2 DEF QueryInv, AnswersSent
  <2>4. output.lines = Lines(a)
    <3>1. PICK n \in {1, 3} : output.lines = SubSeq(Lines(a), 1, n)
      BY <2>3
    <3>2. Len(SubSeq(Lines(a), 1, 1)) = 1
      BY DEF Lines
    <3>3. SubSeq(Lines(a), 1, 3) = Lines(a)
      <4> DEFINE S == {Line("x", a), Line("r", a), Line("s", a)}
      <4>1. Lines(a) \in Seq(S) /\ Len(Lines(a)) = 3
        BY DEF Lines
      <4> HIDE DEF S
      <4>2. SubSeq(Lines(a), 1, Len(Lines(a))) = Lines(a)
        BY <4>1, SubSeqFull
      <4> QED BY <4>1, <4>2
    <3> QED BY <3>1, <3>2, <3>3
  <2>5. input = a
    BY <2>1, <2>4, ModelReadBack
  <2>6. a.s \in Text
    BY AssignmentText
  <2>7. \A i \in 1 .. Len(path) : FoldsAlike(path[i], a.s)
    <3>1. Line("s", a) \in ToSet(output.lines)
      BY <2>4 DEF Lines, ToSet
    <3>2. Line("s", a).var = "s" /\ Line("s", a).value = Printed(a.s)
      BY DEF Line
    <3>3. Transparent(Printed(a.s))
      BY <3>1, <3>2
    <3> QED BY <2>6, <3>3, TransparentFolds
  <2> QED BY <2>3, <2>5, <2>6, <2>7, FormulaTests DEF QueryInv
<1> QED
  BY <1>1, QueryInvariant, PTL

(* An UNSAT means that no input whose text folds as ASCII takes the path, for every *)
(* pool of constraints whose literals survive their way into the formula            *)
(* (FaithfulUnsat).                                                                  *)
THEOREM FaithfulUnsatHolds == Spec => []FaithfulUnsat
<1>1. QueryInv => FaithfulUnsat
  <2> SUFFICES ASSUME QueryInv, status = "unsat", \A i \in 1 .. Len(path) : Faithful(path[i]),
                      NEW a \in Assignment, \A i \in 1 .. Len(path) : FoldsAlike(path[i], a.s)
               PROVE  \E i \in 1 .. Len(path) : ~Tests(path[i], a)
    BY DEF FaithfulUnsat
  <2>1. output.first = "unsat"
    <3>1. status = ParseStatus(output.first)
      BY DEF QueryInv, StatusRead
    <3> QED BY <3>1 DEF ParseStatus
  <2>2. ~Satisfies(a, sent)
    BY <2>1 DEF QueryInv, AnswersSent
  <2>3. a.s \in Text
    BY AssignmentText
  <2> QED BY <2>2, <2>3, FormulaTests DEF QueryInv
<1> QED
  BY <1>1, QueryInvariant, PTL

=============================================================================
