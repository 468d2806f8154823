----------------------------- MODULE ProofFacts -----------------------------
(***************************************************************************)
(* Facts about numbers, sequences and the operators of PythonStrings and     *)
(* SmtStrings that the proofs of several components cite.                  *)
(***************************************************************************)
EXTENDS PythonStrings, TLAPS, WellFoundedInduction, SequenceTheorems

(* Every non-empty set of naturals has a least element. *)
LEMMA LeastNatural ==
  ASSUME NEW S \in SUBSET Nat, S # {}
  PROVE  \E x \in S : \A y \in S : x <= y
<1> DEFINE R == OpToRel(<, Nat)
<1>1. IsWellFoundedOn(R, Nat)
  BY NatLessThanWellFounded, Zenon
<1>2. \E x \in S : \A y \in S : ~(<<y, x>> \in R)
  <2> HIDE DEF R
  <2> QED BY <1>1, WFMin, Zenon
<1>3. PICK x \in S : \A y \in S : ~(<<y, x>> \in R)
  BY <1>2, Zenon
<1>4. ASSUME NEW y \in S, y < x PROVE FALSE
  <2>1. <<y, x>> \in R
    BY <1>4, Zenon DEF OpToRel
  <2> QED BY <2>1, <1>3, Zenon
<1>5. \A y \in S : x \in Nat /\ y \in Nat /\ ~(y < x)
  BY <1>4
<1> QED
  BY <1>5, SMT

(* Strong induction up to a bound, for the members of a set. *)
LEMMA InductionUpTo ==
  ASSUME NEW S, NEW N \in Nat,
         \A n \in 1 .. N : (\A k \in 1 .. n - 1 : k \in S) => n \in S
  PROVE  \A n \in 1 .. N : n \in S
<1> DEFINE Failing == {n \in 1 .. N : n \notin S}
<1> SUFFICES ASSUME Failing # {} PROVE FALSE
  OBVIOUS
<1>1. Failing \in SUBSET Nat
  OBVIOUS
<1>2. PICK n \in Failing : \A m \in Failing : n <= m
  <2> HIDE DEF Failing
  <2> QED BY <1>1, LeastNatural
<1>3. \A k \in 1 .. n - 1 : k \in S
  BY <1>2
<1> QED
  BY <1>2, <1>3

(* Induction from 0 up to a bound, for the members of a set. *)
LEMMA InductionFromZero ==
  ASSUME NEW S, NEW N \in Nat, 0 \in S, \A n \in 1 .. N : n - 1 \in S => n \in S
  PROVE  \A n \in 0 .. N : n \in S
<1>1. \A n \in 1 .. N : (\A k \in 1 .. n - 1 : k \in S) => n \in S
  <2> SUFFICES ASSUME NEW n \in 1 .. N, \A k \in 1 .. n - 1 : k \in S PROVE n \in S
    OBVIOUS
  <2>1. n - 1 = 0 \/ n - 1 \in 1 .. n - 1
    OBVIOUS
  <2>2. n - 1 \in S
    <3>1. CASE n - 1 = 0
      BY <3>1, Zenon
    <3>2. CASE n - 1 \in 1 .. n - 1
      BY <3>2
    <3> QED BY <2>1, <3>1, <3>2
  <2> QED BY <2>2
<1>2. \A n \in 1 .. N : n \in S
  BY <1>1, InductionUpTo
<1>3. \A n \in 0 .. N : n = 0 \/ n \in 1 .. N
  OBVIOUS
<1> QED BY <1>2, <1>3

(* A function defined by its value at 0 and by a step from each number to    *)
(* the next, the step a function on a set of values, exists and stays there. *)
Steps(step, V, N) == step \in [1 .. N -> [V -> V]]

Follows(f, V, N, base, step) ==
    f \in [0 .. N -> V] /\ f[0] = base /\ \A n \in 1 .. N : f[n] = step[n][f[n - 1]]

LEMMA RecursionUpTo ==
  ASSUME NEW V, NEW N \in Nat, NEW base \in V, NEW step, Steps(step, V, N)
  PROVE  \E f : Follows(f, V, N, base, step)
<1> USE DEF Steps, Follows
<1> DEFINE Upto(m, f) == /\ f \in [0 .. m -> V] /\ f[0] = base
                         /\ \A n \in 1 .. m : f[n] = step[n][f[n - 1]]
           Good == {m \in 1 .. N : \E f : Upto(m, f)}
<1>1. \E f : Upto(0, f)
  <2> DEFINE f == [n \in 0 .. 0 |-> base]
  <2>1. Upto(0, f)
    OBVIOUS
  <2> QED BY <2>1
<1>2. ASSUME NEW m \in 1 .. N, \E f : Upto(m - 1, f)
      PROVE  \E f : Upto(m, f)
  <2>1. PICK g : Upto(m - 1, g)
    BY <1>2
  <2> DEFINE f == [n \in 0 .. m |-> IF n = m THEN step[m][g[m - 1]] ELSE g[n]]
  <2>2. g[m - 1] \in V /\ step[m] \in [V -> V]
    BY <2>1
  <2>3. step[m][g[m - 1]] \in V
    BY <2>2
  <2>4. f \in [0 .. m -> V] /\ f[0] = base
    BY <2>1, <2>3
  <2>5. \A n \in 1 .. m : f[n] = step[n][f[n - 1]]
    BY <2>1
  <2> QED BY <2>4, <2>5
<1>3. \A m \in 1 .. N : (\A k \in 1 .. m - 1 : k \in Good) => m \in Good
  <2> SUFFICES ASSUME NEW m \in 1 .. N, \A k \in 1 .. m - 1 : k \in Good
               PROVE  m \in Good
    OBVIOUS
  <2>1. \E f : Upto(m - 1, f)
    <3>1. CASE m = 1
      BY <1>1, <3>1
    <3>2. CASE m # 1
      <4>1. m - 1 \in 1 .. m - 1
        BY <3>2
      <4> QED BY <4>1
    <3> QED BY <3>1, <3>2
  <2> HIDE DEF Upto
  <2>2. \E f : Upto(m, f)
    BY <2>1, <1>2
  <2> QED BY <2>2
<1>4. \A m \in 1 .. N : m \in Good
  <2> HIDE DEF Good
  <2> QED BY <1>3, InductionUpTo
<1>5. \E f : Upto(N, f)
  BY <1>1, <1>4
<1> QED BY <1>5

(* A function on 0..N whose value at a place is a function of its values at the *)
(* places after it exists and stays in the set of values.                       *)
StepsFrom(step, V, N) ==
    /\ step \in [0 .. N -> [[0 .. N -> V] -> V]]
    /\ \A i \in 0 .. N : \A g, h \in [0 .. N -> V] :
         (\A j \in i + 1 .. N : g[j] = h[j]) => step[i][g] = step[i][h]

FollowsFrom(f, V, N, step) == f \in [0 .. N -> V] /\ \A i \in 0 .. N : f[i] = step[i][f]

LEMMA RecursionFrom ==
  ASSUME NEW V, NEW base \in V, NEW N \in Nat, NEW step, StepsFrom(step, V, N)
  PROVE  \E f : FollowsFrom(f, V, N, step)
<1> DEFINE F == [0 .. N -> V]
           Right(m, f) == f \in F /\ \A i \in 0 .. N : N - m < i => f[i] = step[i][f]
           Good == {m \in 1 .. N + 1 : \E f : Right(m, f)}
<1>1. \E f : Right(0, f)
  <2> DEFINE f == [n \in 0 .. N |-> base]
  <2>1. Right(0, f)
    OBVIOUS
  <2> QED BY <2>1
<1>2. ASSUME NEW m \in 1 .. N + 1, \E f : Right(m - 1, f)
      PROVE  \E f : Right(m, f)
  <2>1. PICK g : Right(m - 1, g)
    BY <1>2
  <2> DEFINE p == N + 1 - m
             v == step[p][g]
             f == [n \in 0 .. N |-> IF n = p THEN v ELSE g[n]]
  <2>2. p \in 0 .. N
    OBVIOUS
  <2>3. v \in V
    BY <2>1, <2>2 DEF StepsFrom
  <2>4. g \in F /\ \A i \in 0 .. N : p < i => g[i] = step[i][g]
    BY <2>1
  <2> HIDE DEF v, p
  <2>5. f \in F
    BY <2>3, <2>4
  <2>6. f[p] = v /\ \A i \in 0 .. N : i # p => f[i] = g[i]
    BY <2>2
  <2> HIDE DEF f
  <2>7. ASSUME NEW i \in 0 .. N, p <= i PROVE f[i] = step[i][f]
    <3>1. \A j \in i + 1 .. N : g[j] = f[j]
      BY <2>2, <2>6, <2>7
    <3>2. step[i][g] = step[i][f]
      BY <2>4, <2>5, <3>1 DEF StepsFrom
    <3>3. CASE i = p
      BY <2>6, <3>2, <3>3 DEF v
    <3>4. CASE i # p
      BY <2>2, <2>4, <2>6, <2>7, <3>2, <3>4
    <3> QED BY <3>3, <3>4
  <2>8. \A i \in 0 .. N : N - m < i => p <= i
    BY DEF p
  <2>9. Right(m, f)
    BY <2>5, <2>7, <2>8
  <2> QED BY <2>9
<1>3. \A m \in 1 .. N + 1 : (\A k \in 1 .. m - 1 : k \in Good) => m \in Good
  <2> SUFFICES ASSUME NEW m \in 1 .. N + 1, \A k \in 1 .. m - 1 : k \in Good
               PROVE  m \in Good
    OBVIOUS
  <2>1. \E f : Right(m - 1, f)
    <3>1. CASE m = 1
      BY <1>1, <3>1
    <3>2. CASE m # 1
      <4>1. m - 1 \in 1 .. m - 1
        BY <3>2
      <4> QED BY <4>1
    <3> QED BY <3>1, <3>2
  <2> HIDE DEF Right
  <2>2. \E f : Right(m, f)
    BY <2>1, <1>2
  <2> QED BY <2>2
<1>4. \A m \in 1 .. N + 1 : m \in Good
  <2>1. N + 1 \in Nat
    OBVIOUS
  <2> HIDE DEF Good
  <2> QED BY <1>3, <2>1, InductionUpTo
<1>5. \E f : Right(N + 1, f)
  BY <1>4
<1>6. \A f : Right(N + 1, f) => FollowsFrom(f, V, N, step)
  BY DEF FollowsFrom
<1> QED BY <1>5, <1>6, Zenon

\* What a step makes of a function at a place depends on the places before only.
StepsBelow(step, V, N) ==
    /\ step \in [1 .. N -> [[1 .. N -> V] -> V]]
    /\ \A n \in 1 .. N : \A g, h \in [1 .. N -> V] :
         (\A m \in 1 .. n - 1 : g[m] = h[m]) => step[n][g] = step[n][h]

FollowsBelow(f, V, N, step) == f \in [1 .. N -> V] /\ \A n \in 1 .. N : f[n] = step[n][f]

(* A function on 1..N whose value at a place is a function of its values at the *)
(* places before it exists and stays in the set of values.                      *)
LEMMA RecursionBelow ==
  ASSUME NEW V, NEW base \in V, NEW N \in Nat, NEW step, StepsBelow(step, V, N)
  PROVE  \E f : FollowsBelow(f, V, N, step)
<1> DEFINE F == [1 .. N -> V]
           Good(f, m) == f \in F /\ \A i \in 1 .. m : f[i] = step[i][f]
           Reach == {m \in 0 .. N : \E f : Good(f, m)}
<1>1. 0 \in Reach
  <2> DEFINE f == [n \in 1 .. N |-> base]
  <2>1. Good(f, 0)
    OBVIOUS
  <2>2. 0 \in 0 .. N
    OBVIOUS
  <2> HIDE DEF f, Good
  <2> QED BY <2>1, <2>2
<1>2. ASSUME NEW m \in 1 .. N, m - 1 \in Reach PROVE m \in Reach
  <2>1. PICK g : Good(g, m - 1)
    BY <1>2
  <2> DEFINE v == step[m][g]
             f == [n \in 1 .. N |-> IF n = m THEN v ELSE g[n]]
  <2>2. v \in V
    BY <2>1 DEF StepsBelow
  <2> HIDE DEF v
  <2>3. f \in F
    BY <2>1, <2>2
  <2>4. f[m] = v /\ \A i \in 1 .. N : i # m => f[i] = g[i]
    OBVIOUS
  <2> HIDE DEF f
  <2>5. ASSUME NEW i \in 1 .. m PROVE f[i] = step[i][f]
    <3>1. \A j \in 1 .. i - 1 : g[j] = f[j]
      BY <2>4
    <3>2. step[i][g] = step[i][f]
      <4>1. i \in 1 .. N /\ g \in F /\ f \in F
        BY <2>1, <2>3
      <4>2. \A h, k \in F : (\A j \in 1 .. i - 1 : h[j] = k[j]) => step[i][h] = step[i][k]
        BY <4>1 DEF StepsBelow
      <4> HIDE DEF F
      <4> QED BY <3>1, <4>1, <4>2, Zenon
    <3>3. CASE i = m
      BY <2>4, <3>2, <3>3 DEF v
    <3>4. CASE i # m
      BY <2>1, <2>4, <3>2, <3>4
    <3> QED BY <3>3, <3>4
  <2>6. Good(f, m)
    BY <2>3, <2>5
  <2> QED BY <2>6
<1>3. \A m \in 0 .. N : m \in Reach
  <2> HIDE DEF Reach
  <2> QED BY <1>1, <1>2, InductionFromZero
<1>4. \E f : Good(f, N)
  BY <1>3
<1> QED BY <1>4 DEF FollowsBelow

(* A function on 0..N whose values stay in a set from each number to the next. *)
LEMMA StaysUpTo ==
  ASSUME NEW V, NEW N \in Nat, NEW f, f = [n \in 0 .. N |-> f[n]], f[0] \in V,
         \A n \in 1 .. N : f[n - 1] \in V => f[n] \in V
  PROVE  f \in [0 .. N -> V]
<1> DEFINE Good == {n \in 1 .. N : f[n] \in V}
<1>1. \A n \in 1 .. N : (\A k \in 1 .. n - 1 : k \in Good) => n \in Good
  <2> SUFFICES ASSUME NEW n \in 1 .. N, \A k \in 1 .. n - 1 : k \in Good PROVE n \in Good
    OBVIOUS
  <2>1. n - 1 = 0 \/ n - 1 \in 1 .. n - 1
    OBVIOUS
  <2>2. f[n - 1] \in V
    <3>1. CASE n - 1 = 0
      BY <3>1, Zenon
    <3>2. CASE n - 1 \in 1 .. n - 1
      BY <3>2
    <3> QED BY <2>1, <3>1, <3>2
  <2> QED BY <2>2
<1>2. \A n \in 1 .. N : n \in Good
  <2> HIDE DEF Good
  <2> QED BY <1>1, InductionUpTo
<1>3. \A n \in 0 .. N : n = 0 \/ n \in 1 .. N
  OBVIOUS
<1>4. \A n \in 0 .. N : f[n] \in V
  BY <1>2, <1>3
<1> HIDE DEF Good
<1>5. [n \in 0 .. N |-> f[n]] \in [0 .. N -> V]
  BY <1>4
<1> QED BY <1>5, Zenon

-----------------------------------------------------------------------------
(* Sequences put together from pieces. *)

(* The pieces a sequence is put together from, and where each begins. *)
LEMMA Flattened ==
  ASSUME NEW S, NEW pieces \in Seq(Seq(S))
  PROVE  /\ FlattenSeq(pieces) \in Seq(S)
         /\ \E off \in [0 .. Len(pieces) -> Nat] :
              /\ off[0] = 0
              /\ off[Len(pieces)] = Len(FlattenSeq(pieces))
              /\ \A k \in 1 .. Len(pieces) :
                   /\ off[k] = off[k - 1] + Len(pieces[k])
                   /\ off[k] <= Len(FlattenSeq(pieces))
                   /\ \A m \in 1 .. Len(pieces[k]) :
                        FlattenSeq(pieces)[off[k - 1] + m] = pieces[k][m]
<1> DEFINE N == Len(pieces)
           step == [n \in 1 .. N |-> [v \in Seq(S) |-> v \o pieces[n]]]
           Is(f) == f = [i \in 1 .. N |-> IF i = 1 THEN pieces[i] ELSE f[i - 1] \o pieces[i]]
           flat == CHOOSE f : Is(f)
<1>1. N \in Nat /\ \A n \in 1 .. N : pieces[n] \in Seq(S)
  BY LenProperties, ElementOfSeq
<1>2. step \in [1 .. N -> [Seq(S) -> Seq(S)]]
  <2>1. \A v, w \in Seq(S) : v \o w \in Seq(S)
    BY ConcatProperties
  <2> QED BY <1>1, <2>1
<1>3. FlattenSeq(pieces) = IF N = 0 THEN pieces ELSE flat[N]
  BY Zenon DEF FlattenSeq
<1>4. N = 0 => pieces = <<>>
  BY EmptySeq
<1>5. <<>> \in Seq(S) /\ Len(<<>>) = 0
  OBVIOUS
<1> HIDE DEF N
<1>6. PICK f : Follows(f, Seq(S), N, <<>>, step)
  <2> HIDE DEF step
  <2> QED BY <1>1, <1>2, <1>5, RecursionUpTo, Zenon DEF Steps
<1>7. /\ f[0] = <<>>
      /\ \A n \in 0 .. N : f[n] \in Seq(S)
      /\ \A n \in 1 .. N : f[n] = f[n - 1] \o pieces[n]
  <2>1. f \in [0 .. N -> Seq(S)] /\ f[0] = <<>>
    BY <1>6, Zenon DEF Follows
  <2>2. \A n \in 0 .. N : f[n] \in Seq(S)
    BY <2>1
  <2>3. \A n \in 1 .. N : f[n] = step[n][f[n - 1]]
    BY <1>6, Zenon DEF Follows
  <2>4. \A n \in 1 .. N : n - 1 \in 0 .. N
    BY <1>1
  <2>5. \A n \in 1 .. N : f[n] = f[n - 1] \o pieces[n]
    BY <2>2, <2>3, <2>4
  <2> QED BY <2>1, <2>2, <2>5
<1> HIDE DEF step
<1>8. 1 <= N => f[1] = pieces[1]
  <2> SUFFICES ASSUME 1 <= N PROVE f[1] = pieces[1]
    OBVIOUS
  <2>1. 1 \in 1 .. N /\ 1 - 1 = 0
    BY <1>1
  <2>2. f[1] = f[1 - 1] \o pieces[1] /\ pieces[1] \in Seq(S)
    BY <1>1, <1>7, <2>1
  <2>3. f[1] = <<>> \o pieces[1]
    BY <1>7, <2>1, <2>2
  <2>4. \A w \in Seq(S) : <<>> \o w = w
    BY ConcatEmptySeq
  <2> QED BY <2>2, <2>3, <2>4
<1>9. Is([i \in 1 .. N |-> f[i]])
  <2>1. \A i \in 1 .. N : i # 1 => i - 1 \in 1 .. N
    BY <1>1
  <2> DEFINE g == [j \in 1 .. N |-> f[j]]
  <2>2. \A j \in 1 .. N : g[j] = f[j]
    OBVIOUS
  <2>3. ASSUME NEW i \in 1 .. N
        PROVE  f[i] = IF i = 1 THEN pieces[i] ELSE g[i - 1] \o pieces[i]
    <3>1. CASE i = 1
      BY <1>8, <3>1
    <3>2. CASE i # 1
      <4>1. g[i - 1] = f[i - 1]
        BY <2>1, <2>2, <3>2
      <4> HIDE DEF g
      <4> QED BY <1>7, <3>2, <4>1
    <3> QED BY <3>1, <3>2
  <2>4. g = [i \in 1 .. N |-> IF i = 1 THEN pieces[i] ELSE g[i - 1] \o pieces[i]]
    <3> HIDE DEF g
    <3>1. g = [j \in 1 .. N |-> f[j]]
      BY DEF g
    <3> QED BY <2>3, <3>1
  <2> QED BY <2>4
<1>10. Is(flat)
  <2> HIDE DEF Is
  <2> QED BY <1>9, Zenon
<1>11. \A i \in 1 .. N : flat[i] = IF i = 1 THEN pieces[i] ELSE flat[i - 1] \o pieces[i]
  BY <1>10
<1> HIDE DEF flat, Is
<1> DEFINE Same == {i \in 1 .. N : flat[i] = f[i]}
<1>12. \A n \in 1 .. N : (\A k \in 1 .. n - 1 : k \in Same) => n \in Same
  <2> SUFFICES ASSUME NEW n \in 1 .. N, \A k \in 1 .. n - 1 : k \in Same PROVE n \in Same
    OBVIOUS
  <2>1. CASE n = 1
    BY <1>8, <1>11, <2>1
  <2>2. CASE n # 1
    <3>1. n - 1 \in 1 .. n - 1
      BY <2>2
    <3>2. flat[n - 1] = f[n - 1]
      BY <3>1
    <3> QED BY <1>7, <1>11, <2>2, <3>2
  <2> QED BY <2>1, <2>2
<1>13. FlattenSeq(pieces) = f[N]
  <2>1. \A n \in 1 .. N : n \in Same
    <3> HIDE DEF Same
    <3> QED BY <1>1, <1>12, InductionUpTo
  <2>2. N # 0 => N \in 1 .. N
    BY <1>1
  <2>3. N # 0 => flat[N] = f[N]
    BY <2>1, <2>2
  <2>4. N = 0 => f[N] = pieces
    BY <1>4, <1>7
  <2> QED BY <1>3, <2>3, <2>4
<1> HIDE DEF Same
<1> DEFINE off == [n \in 0 .. N |-> Len(f[n])]
<1>14. ASSUME NEW n \in 1 .. N
       PROVE  /\ n - 1 \in 0 .. N /\ n \in 0 .. N
              /\ Len(f[n - 1]) \in Nat /\ Len(pieces[n]) \in Nat
              /\ Len(f[n]) = Len(f[n - 1]) + Len(pieces[n])
              /\ \A i \in 1 .. Len(f[n - 1]) : f[n][i] = f[n - 1][i]
              /\ \A m \in 1 .. Len(pieces[n]) : f[n][Len(f[n - 1]) + m] = pieces[n][m]
  <2> DEFINE v == f[n - 1]
             w == pieces[n]
             V == Len(v)
             W == Len(w)
             u == f[n]
  <2>1. n - 1 \in 0 .. N /\ n \in 0 .. N
    BY <1>1
  <2>2. v \in Seq(S) /\ w \in Seq(S) /\ u = v \o w
    BY <1>1, <1>7, <2>1
  <2> HIDE DEF v, w, u
  <2>3. V \in Nat /\ W \in Nat
    BY <2>2, LenProperties
  <2>4. Len(u) = V + W /\ \A i \in 1 .. V + W : u[i] = IF i <= V THEN v[i] ELSE w[i - V]
    BY <2>2, ConcatProperties
  <2> HIDE DEF V, W
  <2>5. \A i \in 1 .. V : u[i] = v[i]
    BY <2>3, <2>4
  <2>6. ASSUME NEW m \in 1 .. W PROVE u[V + m] = w[m]
    <3>1. V + m \in 1 .. V + W /\ ~(V + m <= V) /\ (V + m) - V = m
      BY <2>3
    <3> QED BY <2>4, <3>1
  <2> QED BY <2>1, <2>3, <2>4, <2>5, <2>6 DEF V, W, v, w, u
<1>15. ASSUME NEW k \in 0 .. N
       PROVE  \A n \in 1 .. N : k <= n =>
                Len(f[k]) <= Len(f[n]) /\ \A i \in 1 .. Len(f[k]) : f[n][i] = f[k][i]
  <2> DEFINE B == Len(f[k])
             Kept(n) == B <= Len(f[n]) /\ \A i \in 1 .. B : f[n][i] = f[k][i]
             Good == {n \in 1 .. N : k <= n => Kept(n)}
  <2>1. B \in Nat
    BY <1>7, LenProperties
  <2>2. Kept(k)
    BY <2>1
  <2> HIDE DEF B
  <2>3. ASSUME NEW n \in 1 .. N, Kept(n - 1) PROVE Kept(n)
    <3> DEFINE P == Len(f[n - 1])
               Q == Len(f[n])
               M == Len(pieces[n])
    <3>1. P \in Nat /\ M \in Nat /\ Q = P + M /\ \A i \in 1 .. P : f[n][i] = f[n - 1][i]
      BY <1>14
    <3>2. B <= P /\ \A i \in 1 .. B : f[n - 1][i] = f[k][i]
      BY <2>3
    <3> HIDE DEF P, Q, M
    <3>3. B <= Q /\ \A i \in 1 .. B : i \in 1 .. P
      BY <2>1, <3>1, <3>2
    <3> QED BY <3>1, <3>2, <3>3 DEF Q
  <2>4. \A n \in 1 .. N : (\A j \in 1 .. n - 1 : j \in Good) => n \in Good
    <3> SUFFICES ASSUME NEW n \in 1 .. N, \A j \in 1 .. n - 1 : j \in Good, k <= n PROVE Kept(n)
      OBVIOUS
    <3> HIDE DEF Kept
    <3>1. CASE k = n
      BY <2>2, <3>1
    <3>2. CASE k # n
      <4>1. CASE k = n - 1
        BY <2>2, <2>3, <4>1
      <4>2. CASE k # n - 1
        <5>1. n - 1 \in 1 .. n - 1 /\ k <= n - 1
          BY <3>2, <4>2
        <5>2. Kept(n - 1)
          BY <5>1
        <5> QED BY <2>3, <5>2
      <4> QED BY <4>1, <4>2
    <3> QED BY <3>1, <3>2
  <2>5. \A n \in 1 .. N : n \in Good
    <3> HIDE DEF Good
    <3> QED BY <1>1, <2>4, InductionUpTo
  <2> QED BY <2>5 DEF B
<1>16. off \in [0 .. N -> Nat] /\ off[0] = 0 /\ off[N] = Len(FlattenSeq(pieces))
  <2>1. \A n \in 0 .. N : Len(f[n]) \in Nat
    BY <1>7, LenProperties
  <2>2. off \in [0 .. N -> Nat]
    BY <2>1
  <2>3. 0 \in 0 .. N /\ N \in 0 .. N
    BY <1>1
  <2> QED BY <1>5, <1>7, <1>13, <2>2, <2>3
<1>17. ASSUME NEW k \in 1 .. N
       PROVE  /\ off[k] = off[k - 1] + Len(pieces[k])
              /\ off[k] <= Len(f[N])
              /\ \A m \in 1 .. Len(pieces[k]) : f[N][off[k - 1] + m] = pieces[k][m]
  <2> DEFINE A == Len(f[k - 1])
             M == Len(pieces[k])
             B == Len(f[k])
  <2>1. /\ k - 1 \in 0 .. N /\ k \in 0 .. N /\ A \in Nat /\ M \in Nat /\ B = A + M
        /\ \A m \in 1 .. M : f[k][A + m] = pieces[k][m]
    BY <1>14
  <2>2. off[k] = B /\ off[k - 1] = A
    BY <2>1
  <2>3. N \in 1 .. N /\ k <= N
    BY <1>1
  <2>4. B <= Len(f[N]) /\ \A i \in 1 .. B : f[N][i] = f[k][i]
    BY <1>15, <2>1, <2>3
  <2> HIDE DEF A, B, M, off
  <2>5. \A m \in 1 .. M : A + m \in 1 .. B
    BY <2>1
  <2>6. \A m \in 1 .. M : f[N][A + m] = pieces[k][m]
    BY <2>1, <2>4, <2>5
  <2> QED BY <2>1, <2>2, <2>4, <2>6 DEF M
<1> HIDE DEF off
<1>18. \A k \in 1 .. N :
         /\ off[k] = off[k - 1] + Len(pieces[k])
         /\ off[k] <= Len(FlattenSeq(pieces))
         /\ \A m \in 1 .. Len(pieces[k]) : FlattenSeq(pieces)[off[k - 1] + m] = pieces[k][m]
  BY <1>13, <1>17
<1>19. FlattenSeq(pieces) \in Seq(S)
  <2>1. N \in 0 .. N
    BY <1>1
  <2> QED BY <1>7, <1>13, <2>1
<1> QED
  BY <1>16, <1>18, <1>19 DEF N

-----------------------------------------------------------------------------
(* What the operators of SmtStrings return, for every string. *)

Text == Seq(Int)

-----------------------------------------------------------------------------
(* Parts of a string. *)

(* Length and characters of a string are integers. *)
LEMMA TextFacts ==
  ASSUME NEW s \in Text
  PROVE  /\ Len(s) \in Nat /\ Len(s) \in Int /\ DOMAIN s = 1 .. Len(s)
         /\ \A i \in 1 .. Len(s) : s[i] \in Int
         /\ s = <<>> <=> Len(s) = 0
<1>1. Len(s) \in Nat /\ DOMAIN s = 1 .. Len(s)
  BY LenProperties DEF Text
<1>2. \A i \in 1 .. Len(s) : s[i] \in Int
  BY ElementOfSeq DEF Text
<1>3. s # <<>> => Len(s) \in Nat \ {0}
  BY EmptySeq DEF Text
<1>4. s = <<>> => Len(s) = 0
  BY EmptySeq
<1> QED
  BY <1>1, <1>2, <1>3, <1>4

LEMMA SubstrProperties ==
  ASSUME NEW s \in Text, NEW i \in Int, NEW n \in Int
  PROVE  /\ Substr(s, i, n) \in Text
         /\ 0 <= i /\ i < Len(s) /\ 0 < n =>
              /\ Len(Substr(s, i, n)) = Least(i + n, Len(s)) - i
              /\ \A k \in 1 .. Least(i + n, Len(s)) - i : Substr(s, i, n)[k] = s[i + k]
         /\ ~(0 <= i /\ i < Len(s) /\ 0 < n) => Substr(s, i, n) = <<>>
<1> DEFINE L == Len(s)
           e == Least(i + n, L)
<1>1. L \in Nat /\ \A k \in 1 .. L : s[k] \in Int
  BY TextFacts
<1>2. Substr(s, i, n) = IF i < 0 \/ i >= L \/ n <= 0 THEN <<>> ELSE SubSeq(s, i + 1, e)
  BY DEF Substr
<1> HIDE DEF L
<1>3. CASE i < 0 \/ i >= L \/ n <= 0
  <2>1. Substr(s, i, n) = <<>> /\ <<>> \in Text
    BY <1>2, <1>3 DEF Text
  <2> QED BY <1>1, <1>3, <2>1 DEF L
<1>4. CASE 0 <= i /\ i < L /\ 0 < n
  <2>1. Substr(s, i, n) = SubSeq(s, i + 1, e) /\ e \in Int /\ i + 1 <= e /\ e <= L
    BY <1>1, <1>2, <1>4 DEF Least
  <2>2. \A k \in i + 1 .. e : s[k] \in Int
    BY <1>1, <1>4, <2>1
  <2> HIDE DEF e
  <2>3. /\ SubSeq(s, i + 1, e) \in Seq(Int)
        /\ Len(SubSeq(s, i + 1, e)) = IF i + 1 <= e THEN e - (i + 1) + 1 ELSE 0
        /\ \A k \in 1 .. e - (i + 1) + 1 : SubSeq(s, i + 1, e)[k] = s[i + 1 + k - 1]
    BY <2>1, <2>2, SubSeqProperties
  <2>4. /\ e - (i + 1) + 1 = e - i
        /\ \A k \in 1 .. e - i : i + 1 + k - 1 = i + k
    BY <2>1
  <2>5. /\ Substr(s, i, n) \in Text /\ Len(Substr(s, i, n)) = e - i
        /\ \A k \in 1 .. e - i : Substr(s, i, n)[k] = s[i + k]
    BY <2>1, <2>3, <2>4 DEF Text
  <2> QED BY <1>4, <2>5 DEF e, L
<1> QED
  BY <1>1, <1>3, <1>4 DEF L

(* A string occurs where the characters are its own. *)
LEMMA OccursProperties ==
  ASSUME NEW s \in Text, NEW t \in Text, NEW i \in Nat
  PROVE  OccursAt(s, t, i) <=>
           i + Len(t) <= Len(s) /\ \A k \in 1 .. Len(t) : s[i + k] = t[k]
<1> DEFINE L == Len(s)
           M == Len(t)
           u == SubSeq(s, i + 1, i + M)
<1>1. L \in Nat /\ M \in Nat /\ \A k \in 1 .. L : s[k] \in Int
  BY TextFacts
<1>2. OccursAt(s, t, i) <=> i + M <= L /\ u = t
  BY DEF OccursAt
<1> HIDE DEF L
<1>3. ASSUME i + M <= L
      PROVE  /\ u \in Text /\ Len(u) = M
             /\ \A k \in 1 .. M : u[k] = s[i + k]
  <2> HIDE DEF M
  <2>1. \A k \in i + 1 .. i + M : s[k] \in Int
    BY <1>1, <1>3
  <2>2. /\ u \in Seq(Int) /\ Len(u) = IF i + 1 <= i + M THEN i + M - (i + 1) + 1 ELSE 0
        /\ \A k \in 1 .. i + M - (i + 1) + 1 : u[k] = s[i + 1 + k - 1]
    BY <1>1, <2>1, SubSeqProperties
  <2>3. i + M - (i + 1) + 1 = M /\ \A k \in 1 .. M : i + 1 + k - 1 = i + k
    BY <1>1
  <2>4. Len(u) = M
    BY <1>1, <2>2
  <2> HIDE DEF u
  <2> QED BY <2>2, <2>3, <2>4 DEF Text
<1>4. ASSUME i + M <= L, \A k \in 1 .. M : s[i + k] = t[k]
      PROVE  u = t
  <2>1. \A k \in 1 .. Len(u) : u[k] = t[k]
    BY <1>3, <1>4
  <2> HIDE DEF u
  <2> QED BY <1>3, <1>4, <2>1, SeqEqual DEF Text
<1> QED
  BY <1>2, <1>3, <1>4 DEF L

(* The least number of a set. *)
LEMMA MinProperties ==
  ASSUME NEW S \in SUBSET Nat, S # {}
  PROVE  Min(S) \in S /\ \A x \in S : Min(S) <= x
  BY LeastNatural DEF Min

(* Where a string occurs first. *)
LEMMA IndexOfProperties ==
  ASSUME NEW s \in Text, NEW t \in Text, NEW i \in Nat
  PROVE  /\ IndexOf(s, t, i) \in Int
         /\ IndexOf(s, t, i) = -1 <=> Occurrences(s, t, i) = {}
         /\ IndexOf(s, t, i) # -1 =>
              /\ IndexOf(s, t, i) \in Occurrences(s, t, i)
              /\ \A j \in Occurrences(s, t, i) : IndexOf(s, t, i) <= j
<1> DEFINE S == Occurrences(s, t, i)
<1>1. S \in SUBSET Nat
  BY TextFacts DEF Occurrences
<1>2. IndexOf(s, t, i) = IF S = {} THEN -1 ELSE Min(S)
  BY DEF IndexOf
<1> HIDE DEF S
<1>3. S # {} => Min(S) \in S /\ Min(S) \in Nat /\ \A x \in S : Min(S) <= x
  BY <1>1, MinProperties
<1>4. CASE S = {}
  BY <1>2, <1>4 DEF S
<1>5. CASE S # {}
  BY <1>2, <1>3, <1>5 DEF S
<1> QED
  BY <1>4, <1>5

-----------------------------------------------------------------------------
(* Replacing. *)

(* What becomes of s from each position on. *)
ReplacedFrom(from, s, t, u) ==
    /\ from \in [0 .. Len(s) -> Text]
    /\ \A i \in 0 .. Len(s) :
         from[i] = IF i = Len(s) THEN <<>>
                   ELSE IF OccursAt(s, t, i) THEN u \o from[i + Len(t)]
                   ELSE <<s[i + 1]>> \o from[i + 1]

LEMMA ReplaceEachFrom ==
  ASSUME NEW s \in Text, NEW t \in Text, NEW u \in Text, t # <<>>
  PROVE  \E from : ReplacedFrom(from, s, t, u) /\ ReplaceEach(s, t, u) = from[0]
<1> DEFINE L == Len(s)
           M == Len(t)
           F == [0 .. L -> Text]
           value(i, g) == IF i = L THEN <<>>
                          ELSE IF OccursAt(s, t, i) THEN u \o g[i + M]
                          ELSE <<s[i + 1]>> \o g[i + 1]
           step == [i \in 0 .. L |-> [g \in F |-> value(i, g)]]
           Is(f) == f = [i \in 0 .. L |-> value(i, f)]
           from == CHOOSE f : Is(f)
<1>1. /\ L \in Nat /\ M \in Nat /\ M # 0 /\ <<>> \in Text
      /\ \A i \in 0 .. L : i # L => <<s[i + 1]>> \in Text
  <2>1. \A k \in 1 .. L : <<s[k]>> \in Seq(Int)
    BY TextFacts
  <2> QED BY <2>1, TextFacts DEF Text
<1>2. \A i \in 0 .. L : i # L /\ OccursAt(s, t, i) => i + M \in i + 1 .. L
  BY <1>1 DEF OccursAt
<1> HIDE DEF L, M
<1>3. \A i \in 0 .. L : \A g \in F : value(i, g) \in Text
  <2>1. SUFFICES ASSUME NEW i \in 0 .. L, NEW g \in F PROVE value(i, g) \in Text
    BY Zenon
  <2>2. \A v, w \in Text : v \o w \in Text
    BY ConcatProperties DEF Text
  <2>3. i # L /\ OccursAt(s, t, i) => g[i + M] \in Text
    BY <1>1, <1>2, <2>1
  <2>4. i # L => g[i + 1] \in Text
    BY <1>1, <2>1
  <2> QED BY <1>1, <2>2, <2>3, <2>4
<1>4. \A i \in 0 .. L : \A g, h \in F :
        (\A j \in i + 1 .. L : g[j] = h[j]) => value(i, g) = value(i, h)
  <2>1. SUFFICES ASSUME NEW i \in 0 .. L, NEW g \in F, NEW h \in F, \A j \in i + 1 .. L : g[j] = h[j]
                 PROVE  value(i, g) = value(i, h)
    BY Zenon
  <2>2. i # L /\ OccursAt(s, t, i) => g[i + M] = h[i + M]
    BY <1>2, <2>1
  <2>3. i # L => g[i + 1] = h[i + 1]
    BY <1>1, <2>1
  <2> QED BY <2>2, <2>3
<1> HIDE DEF value
<1>5. StepsFrom(step, Text, L)
  <2>1. step \in [0 .. L -> [F -> Text]]
    BY <1>3
  <2>2. \A i \in 0 .. L : \A g, h \in F :
          (\A j \in i + 1 .. L : g[j] = h[j]) => step[i][g] = step[i][h]
    BY <1>4
  <2> HIDE DEF step
  <2> QED BY <2>1, <2>2 DEF StepsFrom
<1>6. PICK f : FollowsFrom(f, Text, L, step)
  <2> HIDE DEF step
  <2> QED BY <1>1, <1>5, RecursionFrom, Zenon
<1>7. f \in F /\ \A i \in 0 .. L : f[i] = value(i, f)
  BY <1>6 DEF FollowsFrom
<1>8. Is(f)
  BY <1>7
<1>9. Is(from)
  <2> HIDE DEF Is
  <2> QED BY <1>8, Zenon
<1> HIDE DEF from
<1>10. \A i \in 0 .. L : from[i] = value(i, from)
  BY <1>9
<1> DEFINE Good == {n \in 1 .. L + 1 : from[L + 1 - n] = f[L + 1 - n]}
<1>11. \A n \in 1 .. L + 1 : (\A k \in 1 .. n - 1 : k \in Good) => n \in Good
  <2> SUFFICES ASSUME NEW n \in 1 .. L + 1, \A k \in 1 .. n - 1 : k \in Good PROVE n \in Good
    OBVIOUS
  <2> DEFINE i == L + 1 - n
  <2>1. i \in 0 .. L
    BY <1>1
  <2>2. \A j \in i + 1 .. L : from[j] = f[j]
    <3> SUFFICES ASSUME NEW j \in i + 1 .. L PROVE from[j] = f[j]
      OBVIOUS
    <3>1. L + 1 - j \in 1 .. n - 1
      BY <1>1
    <3>2. L + 1 - j \in Good
      BY <3>1
    <3>3. L + 1 - (L + 1 - j) = j
      BY <1>1
    <3> QED BY <3>2, <3>3
  <2>3. i # L /\ OccursAt(s, t, i) => from[i + M] = f[i + M]
    BY <1>2, <2>1, <2>2
  <2>4. i # L => from[i + 1] = f[i + 1]
    BY <1>1, <2>1, <2>2
  <2>5. value(i, from) = value(i, f)
    BY <2>3, <2>4 DEF value
  <2>6. from[i] = f[i]
    BY <1>7, <1>10, <2>1, <2>5
  <2> QED BY <2>6
<1>12. \A n \in 1 .. L + 1 : n \in Good
  <2>1. L + 1 \in Nat
    BY <1>1
  <2> HIDE DEF Good
  <2> QED BY <1>11, <2>1, InductionUpTo
<1>13. \A i \in 0 .. L : from[i] = f[i]
  <2> SUFFICES ASSUME NEW i \in 0 .. L PROVE from[i] = f[i]
    OBVIOUS
  <2>1. L + 1 - i \in 1 .. L + 1 /\ L + 1 - (L + 1 - i) = i
    BY <1>1
  <2>2. L + 1 - i \in Good
    BY <1>12, <2>1
  <2> QED BY <2>1, <2>2
<1>14. ReplaceEach(s, t, u) = from[0]
  BY Zenon DEF ReplaceEach, L, M, value, from
<1>15. 0 \in 0 .. L
  BY <1>1
<1>16. ReplacedFrom(f, s, t, u)
  BY <1>7, Zenon DEF ReplacedFrom, L, M, value
<1> QED
  BY <1>13, <1>14, <1>15, <1>16

(* The replaced string is a string; an empty string is not replaced. *)
LEMMA ReplaceEachType ==
  ASSUME NEW s \in Text, NEW t \in Text, NEW u \in Text
  PROVE  ReplaceEach(s, t, u) \in Text /\ (t = <<>> => ReplaceEach(s, t, u) = s)
<1>1. CASE t = <<>>
  BY <1>1 DEF ReplaceEach
<1>2. CASE t # <<>>
  <2>1. PICK from : ReplacedFrom(from, s, t, u) /\ ReplaceEach(s, t, u) = from[0]
    BY <1>2, ReplaceEachFrom, Zenon
  <2>2. 0 \in 0 .. Len(s) /\ from \in [0 .. Len(s) -> Text]
    BY <2>1, TextFacts DEF ReplacedFrom
  <2>3. from[0] \in Text
    BY <2>2
  <2> QED BY <1>2, <2>1, <2>3
<1> QED BY <1>1, <1>2

LEMMA Prefixed ==
  ASSUME NEW c \in Int, NEW w \in Text
  PROVE  /\ <<c>> \o w \in Text
         /\ Len(<<c>> \o w) = 1 + Len(w)
         /\ (<<c>> \o w)[1] = c
         /\ \A j \in 1 .. Len(w) : (<<c>> \o w)[1 + j] = w[j]
<1> DEFINE M == Len(w)
           u == <<c>> \o w
<1>1. M \in Nat /\ <<c>> \in Seq(Int) /\ Len(<<c>>) = 1 /\ <<c>>[1] = c
  BY TextFacts
<1>2. /\ u \in Text
      /\ Len(u) = Len(<<c>>) + Len(w)
      /\ \A i \in 1 .. Len(<<c>>) + Len(w) :
           u[i] = IF i <= Len(<<c>>) THEN <<c>>[i] ELSE w[i - Len(<<c>>)]
  BY <1>1, ConcatProperties DEF Text
<1>3. /\ Len(u) = 1 + M
      /\ \A i \in 1 .. 1 + M : u[i] = IF i <= 1 THEN <<c>>[i] ELSE w[i - 1]
  BY <1>1, <1>2
<1> HIDE DEF u, M
<1>4. u[1] = c
  BY <1>1, <1>3
<1>5. ASSUME NEW j \in 1 .. M PROVE u[1 + j] = w[j]
  <2>1. 1 + j \in 1 .. 1 + M /\ ~(1 + j <= 1) /\ (1 + j) - 1 = j
    BY <1>1
  <2> QED BY <1>3, <2>1
<1> QED
  BY <1>2, <1>3, <1>4, <1>5 DEF u, M

(* A string written from its end, a character at a time. *)
LEMMA Unrolled ==
  ASSUME NEW s \in Text, NEW g, g[Len(s)] = <<>>,
         \A k \in 1 .. Len(s) : g[k - 1] = <<s[k]>> \o g[k]
  PROVE  g[0] = s
<1> DEFINE L == Len(s)
           Right(k) == /\ g[k] \in Text /\ Len(g[k]) = L - k
                       /\ \A j \in 1 .. L - k : g[k][j] = s[k + j]
           Good == {n \in 1 .. L : Right(L - n)}
<1>1. L \in Nat /\ \A k \in 1 .. L : s[k] \in Int
  BY TextFacts
<1>2. g[L] = <<>> /\ \A k \in 1 .. L : g[k - 1] = <<s[k]>> \o g[k]
  OBVIOUS
<1> HIDE DEF L
<1>3. Right(L)
  <2>1. <<>> \in Text /\ Len(<<>>) = 0
    BY DEF Text
  <2> QED BY <1>1, <1>2, <2>1
<1>4. ASSUME NEW k \in 1 .. L, Right(k) PROVE Right(k - 1)
  <2> DEFINE w == g[k]
             u == g[k - 1]
  <2>1. u = <<s[k]>> \o w /\ s[k] \in Int /\ w \in Text
    BY <1>1, <1>2, <1>4
  <2>2. u \in Text /\ Len(u) = 1 + Len(w) /\ u[1] = s[k] /\ \A j \in 1 .. Len(w) : u[1 + j] = w[j]
    BY <2>1, Prefixed
  <2>3. Len(w) = L - k /\ \A j \in 1 .. L - k : w[j] = s[k + j]
    BY <1>4
  <2> HIDE DEF u, w
  <2>4. Len(u) = L - (k - 1)
    BY <1>1, <2>2, <2>3
  <2>5. ASSUME NEW j \in 1 .. L - (k - 1) PROVE u[j] = s[(k - 1) + j]
    <3>1. CASE j = 1
      <4>1. (k - 1) + j = k
        BY <3>1
      <4> QED BY <2>2, <3>1, <4>1
    <3>2. CASE j # 1
      <4>1. j - 1 \in 1 .. L - k /\ 1 + (j - 1) = j /\ k + (j - 1) = (k - 1) + j
        BY <1>1, <3>2
      <4>2. u[1 + (j - 1)] = w[j - 1] /\ w[j - 1] = s[k + (j - 1)]
        BY <2>2, <2>3, <4>1
      <4> QED BY <4>1, <4>2
    <3> QED BY <3>1, <3>2
  <2> QED BY <2>2, <2>4, <2>5 DEF u
<1>5. \A n \in 1 .. L : (\A k \in 1 .. n - 1 : k \in Good) => n \in Good
  <2> SUFFICES ASSUME NEW n \in 1 .. L, \A k \in 1 .. n - 1 : k \in Good PROVE n \in Good
    OBVIOUS
  <2> HIDE DEF Right
  <2>1. n - 1 = 0 \/ n - 1 \in 1 .. n - 1
    OBVIOUS
  <2>2. Right(L - (n - 1))
    <3>1. CASE n - 1 = 0
      <4>1. L - (n - 1) = L
        BY <1>1, <3>1
      <4> QED BY <1>3, <4>1
    <3>2. CASE n - 1 \in 1 .. n - 1
      BY <3>2
    <3> QED BY <2>1, <3>1, <3>2
  <2>3. L - (n - 1) \in 1 .. L /\ (L - (n - 1)) - 1 = L - n
    BY <1>1
  <2>4. Right((L - (n - 1)) - 1)
    BY <1>4, <2>2, <2>3
  <2> QED BY <2>3, <2>4
<1>6. \A n \in 1 .. L : n \in Good
  <2> HIDE DEF Good
  <2> QED BY <1>1, <1>5, InductionUpTo
<1>7. Right(0)
  <2> HIDE DEF Right
  <2>1. CASE L = 0
    BY <1>3, <2>1
  <2>2. CASE L # 0
    <3>1. L \in 1 .. L /\ L - L = 0
      BY <1>1, <2>2
    <3>2. Right(L - L)
      BY <1>6, <3>1
    <3> QED BY <3>1, <3>2
  <2> QED BY <2>1, <2>2
<1>8. g[0] \in Text /\ Len(g[0]) = L /\ \A j \in 1 .. L : g[0][j] = s[j]
  <2>1. L - 0 = L /\ \A j \in 1 .. L : 0 + j = j
    BY <1>1
  <2> QED BY <1>7, <2>1
<1> QED
  BY <1>8, SeqEqual DEF Text, L

(* Where nothing occurs nothing is replaced. *)
LEMMA NotReplaced ==
  ASSUME NEW s \in Text, NEW t \in Text, NEW u \in Text, t # <<>>,
         \A i \in 0 .. Len(s) : i # Len(s) => ~OccursAt(s, t, i)
  PROVE  ReplaceEach(s, t, u) = s
<1> DEFINE L == Len(s)
<1>1. PICK from : ReplacedFrom(from, s, t, u) /\ ReplaceEach(s, t, u) = from[0]
  BY ReplaceEachFrom
<1>2. L \in Nat
  BY TextFacts
<1>3. \A i \in 0 .. L : from[i] = IF i = L THEN <<>> ELSE <<s[i + 1]>> \o from[i + 1]
  BY <1>1 DEF ReplacedFrom
<1> HIDE DEF L
<1>4. from[L] = <<>>
  <2>1. L \in 0 .. L
    BY <1>2
  <2> QED BY <1>3, <2>1
<1>5. ASSUME NEW k \in 1 .. L PROVE from[k - 1] = <<s[k]>> \o from[k]
  <2>1. k - 1 \in 0 .. L /\ k - 1 # L /\ (k - 1) + 1 = k
    BY <1>2
  <2>2. from[k - 1] = <<s[(k - 1) + 1]>> \o from[(k - 1) + 1]
    BY <1>3, <2>1
  <2> QED BY <2>1, <2>2
<1>6. from[0] = s
  BY <1>4, <1>5, Unrolled DEF L
<1> QED
  BY <1>1, <1>6

-----------------------------------------------------------------------------
(* Numbers. *)

LEMMA NumberType ==
  ASSUME NEW s \in Text
  PROVE  Number(s) \in Int /\ StrToInt(s) \in Int
<1> DEFINE N == Len(s)
           step == [n \in 1 .. N |-> [v \in Int |-> 10 * v + (s[n] - 48)]]
           Is(f) == f = [n \in 0 .. N |-> IF n = 0 THEN 0 ELSE 10 * f[n - 1] + (s[n] - 48)]
           upTo == CHOOSE f : Is(f)
<1>1. N \in Nat /\ \A n \in 1 .. N : s[n] \in Int
  BY TextFacts
<1>2. step \in [1 .. N -> [Int -> Int]]
  BY <1>1
<1> HIDE DEF N
<1>3. PICK f : Follows(f, Int, N, 0, step)
  <2>1. 0 \in Int
    OBVIOUS
  <2> HIDE DEF step
  <2> QED BY <1>1, <1>2, <2>1, RecursionUpTo, Zenon DEF Steps
<1>4. Is(f)
  <2>1. \A n \in 1 .. N : n - 1 \in 0 .. N /\ n \in 0 .. N /\ n # 0
    BY <1>1
  <2>2. \A n \in 1 .. N : f[n] = 10 * f[n - 1] + (s[n] - 48)
    BY <1>3, <2>1 DEF Follows
  <2>3. \A n \in 0 .. N : n = 0 \/ n \in 1 .. N
    BY <1>1
  <2> QED BY <1>3, <2>2, <2>3 DEF Follows
<1>5. Is(upTo)
  <2> HIDE DEF Is
  <2> QED BY <1>4, Zenon
<1>6. Number(s) = upTo[N]
  BY Zenon DEF Number, N
<1> HIDE DEF upTo
<1>7. upTo \in [0 .. N -> Int]
  <2>1. upTo = [n \in 0 .. N |-> upTo[n]] /\ upTo[0] \in Int
    BY <1>1, <1>5
  <2>2. ASSUME NEW n \in 1 .. N, upTo[n - 1] \in Int PROVE upTo[n] \in Int
    <3>1. n \in 0 .. N /\ n # 0
      BY <1>1
    <3>2. upTo[n] = 10 * upTo[n - 1] + (s[n] - 48)
      BY <1>5, <3>1
    <3> QED BY <1>1, <2>2, <3>2
  <2> HIDE DEF Is
  <2> QED BY <1>1, <2>1, <2>2, StaysUpTo, Zenon
<1>8. Number(s) \in Int
  BY <1>1, <1>6, <1>7
<1> QED
  BY <1>8 DEF StrToInt

(* Lower and upper case of a string are strings of the same length. *)
LEMMA CaseType ==
  ASSUME NEW s \in Text
  PROVE  Lower(s) \in Text /\ Upper(s) \in Text
<1>1. Len(s) \in Nat /\ \A i \in 1 .. Len(s) : s[i] \in Int
  BY TextFacts
<1>2. Lower(s) \in Text
  <2>1. \A i \in 1 .. Len(s) : (IF s[i] \in UpperLetter THEN s[i] + 32 ELSE s[i]) \in Int
    BY <1>1
  <2> QED BY <1>1, <2>1, IsASeq DEF Lower, Text
<1>3. Upper(s) \in Text
  <2>1. \A i \in 1 .. Len(s) : (IF s[i] \in LowerLetter THEN s[i] - 32 ELSE s[i]) \in Int
    BY <1>1
  <2> QED BY <1>1, <2>1, IsASeq DEF Upper, Text
<1> QED BY <1>2, <1>3

LEMMA ReverseType ==
  ASSUME NEW s \in Text
  PROVE  Reverse(s) \in Text /\ Len(Reverse(s)) = Len(s)
         /\ \A i \in 1 .. Len(s) : Reverse(s)[i] = s[Len(s) - i + 1]
<1> DEFINE N == Len(s)
           r == [i \in 1 .. N |-> s[(N - i) + 1]]
<1>1. N \in Nat /\ \A i \in 1 .. N : s[i] \in Int
  BY TextFacts
<1>2. Reverse(s) = r
  BY DEF Reverse
<1> HIDE DEF N
<1>3. r \in Text
  <2>1. \A i \in 1 .. N : s[(N - i) + 1] \in Int
    BY <1>1
  <2> QED BY <1>1, <2>1, IsASeq DEF Text
<1>4. \A i \in 1 .. N : r[i] = s[(N - i) + 1]
  OBVIOUS
<1>5. DOMAIN r = 1 .. N
  OBVIOUS
<1> HIDE DEF r
<1>6. Len(r) \in Nat /\ DOMAIN r = 1 .. Len(r)
  BY <1>3, TextFacts
<1>7. Len(r) = N
  <2> DEFINE M == Len(r)
  <2>1. M \in Nat /\ 1 .. M = 1 .. N
    BY <1>5, <1>6
  <2> HIDE DEF M
  <2>2. M = N
    BY <1>1, <2>1
  <2> QED BY <2>2 DEF M
<1> QED BY <1>2, <1>3, <1>4, <1>7 DEF N

-----------------------------------------------------------------------------
(* What the operators of PythonStrings return for every string. *)

\* A slice is the substring from the one clamped position to the other.
LEMMA SliceProperties ==
    ASSUME NEW s \in Text, NEW a \in Int, NEW b \in Int
    PROVE  /\ Slice(s, a, b) \in Text
           /\ Slice(s, a, b) = Substr(s, Clamp(a, Len(s)), Clamp(b, Len(s)) - Clamp(a, Len(s)))
           /\ Clamp(a, Len(s)) = 0 /\ Clamp(b, Len(s)) = Len(s) => Slice(s, a, b) = s
  <1> DEFINE L == Len(s)
             from == Clamp(a, L)
             end == Clamp(b, L)
             to == Least(end, L)
  <1>1. L \in Nat /\ (s = <<>> <=> L = 0)
    BY TextFacts
  <1>2. Slice(s, a, b) = Substr(s, from, to - from)
    BY DEF Slice
  <1>3. \A i, n \in Int : Substr(s, i, n) = IF i < 0 \/ i >= L \/ n <= 0 THEN <<>>
                                            ELSE SubSeq(s, i + 1, Least(i + n, L))
    BY DEF Substr
  <1>4. SubSeq(s, 1, L) = s
    BY SubSeqFull DEF Text
  <1> HIDE DEF L
  <1>5. from \in Int /\ end \in Int /\ to \in Int
    BY <1>1 DEF Clamp, Least
  <1>6. /\ to - from <= 0 <=> end - from <= 0 \/ L - from <= 0
        /\ from + (to - from) = to /\ from + (end - from) = end
        /\ to <= L /\ to <= end /\ (to = end \/ to = L) /\ Least(to, L) = to /\ to = Least(end, L)
    BY <1>1, <1>5 DEF Least
  <1>7. Substr(s, from, to - from) \in Text
    <2>1. to - from \in Int
      BY <1>5
    <2>. QED BY <1>5, <2>1, SubstrProperties
  <1> HIDE DEF from, end, to
  <1>8. Substr(s, from, to - from) = Substr(s, from, end - from)
    <2>1. to - from \in Int /\ end - from \in Int
      BY <1>5
    <2>2. /\ Substr(s, from, to - from) = IF from < 0 \/ from >= L \/ to - from <= 0 THEN <<>>
                                          ELSE SubSeq(s, from + 1, Least(from + (to - from), L))
          /\ Substr(s, from, end - from) = IF from < 0 \/ from >= L \/ end - from <= 0 THEN <<>>
                                           ELSE SubSeq(s, from + 1, Least(from + (end - from), L))
      BY <1>3, <1>5, <2>1, Zenon
    <2>3. from < 0 \/ from >= L \/ to - from <= 0 <=> from < 0 \/ from >= L \/ end - from <= 0
      BY <1>1, <1>5, <1>6
    <2>4. SubSeq(s, from + 1, Least(from + (to - from), L))
            = SubSeq(s, from + 1, Least(from + (end - from), L))
      BY <1>6
    <2>5. CASE from < 0 \/ from >= L \/ to - from <= 0
      BY <2>2, <2>3, <2>5, Zenon
    <2>6. CASE ~(from < 0 \/ from >= L \/ to - from <= 0)
      BY <2>2, <2>3, <2>4, <2>6, Zenon
    <2>. QED BY <2>5, <2>6
  <1>9. ASSUME from = 0, end = L PROVE Substr(s, from, end - from) = s
    <2>1. /\ end - from = L /\ from + (end - from) = L /\ from + 1 = 1 /\ Least(L, L) = L
          /\ end - from \in Int
      BY <1>1, <1>5, <1>9 DEF Least
    <2>2. Substr(s, from, end - from) = IF from < 0 \/ from >= L \/ end - from <= 0 THEN <<>>
                                        ELSE SubSeq(s, from + 1, Least(from + (end - from), L))
      BY <1>3, <1>5, <2>1, Zenon
    <2>3. SubSeq(s, from + 1, Least(from + (end - from), L)) = s
      BY <1>4, <2>1
    <2>. QED BY <1>1, <1>9, <2>1, <2>2, <2>3
  <1>. QED BY <1>2, <1>7, <1>8, <1>9 DEF from, end, to, L

\* The occurrences Python finds between two positions are those SMT-LIB finds in the
\* region cut out there, moved by its start.
LEMMA FoundInRegion ==
    ASSUME NEW s \in Text, NEW t \in Text, NEW a \in Int, NEW b \in Int,
           NEW i, i = Clamp(a, Len(s))
    PROVE  /\ Found(s, t, a, b) \in SUBSET Nat
           /\ Found(s, t, a, b) # {} => i <= Least(Clamp(b, Len(s)), Len(s))
           /\ i <= Least(Clamp(b, Len(s)), Len(s)) =>
                Found(s, t, a, b) = {j \in Nat : j >= i /\ j - i \in Occurrences(Slice(s, a, b), t, 0)}
  <1> DEFINE L == Len(s)
             M == Len(t)
             end == Clamp(b, L)
             to == Least(end, L)
             R == Slice(s, a, b)
             N == to - i
  <1>1. L \in Nat /\ M \in Nat
    BY TextFacts
  <1>2. Found(s, t, a, b) = {j \in i..(to - M) : OccursAt(s, t, j)}
    BY DEF Found
  <1>3. R \in Text /\ R = Substr(s, i, end - i)
    BY SliceProperties
  <1> HIDE DEF L, M, R
  <1>4. i \in Nat /\ end \in Nat /\ to \in Nat /\ to <= L /\ to <= end
        /\ (to = L \/ to = end)
    BY <1>1 DEF Clamp, Least, L
  <1> HIDE DEF end, to
  <1>5. ASSUME i <= to
        PROVE  Len(R) = N /\ \A k \in 1..N : R[k] = s[i + k]
    <2>1. CASE i < L /\ 0 < end - i
      <3>1. i + (end - i) = end /\ 0 <= i
        BY <1>4
      <3>2. /\ Len(R) = Least(end, L) - i
            /\ \A k \in 1 .. Least(end, L) - i : R[k] = s[i + k]
        <4>1. i \in Int /\ end - i \in Int
          BY <1>4
        <4>. QED BY <1>3, <2>1, <3>1, <4>1, SubstrProperties DEF L
      <3>. QED BY <3>2 DEF to
    <2>2. CASE ~(i < L /\ 0 < end - i)
      <3>1. R = <<>>
        <4>1. i \in Int /\ end - i \in Int
          BY <1>4
        <4>. QED BY <1>3, <2>2, <4>1, SubstrProperties DEF L
      <3>2. N = 0
        BY <1>1, <1>4, <1>5, <2>2
      <3>3. Len(R) = 0
        BY <3>1
      <3>. QED BY <3>2, <3>3
    <2>. QED BY <2>1, <2>2
  <1>6. ASSUME i <= to, NEW j \in Nat, j >= i
        PROVE  j \in Found(s, t, a, b) <=> j - i \in Occurrences(R, t, 0)
    <2> DEFINE d == j - i
    <2>1. d \in Nat /\ N \in Nat /\ j = i + d
      BY <1>4, <1>6
    <2>2. j \in Found(s, t, a, b) <=> j <= to - M /\ OccursAt(s, t, j)
      BY <1>1, <1>2, <1>4, <1>6
    <2>3. OccursAt(s, t, j) <=> j + M <= L /\ \A k \in 1..M : s[j + k] = t[k]
      BY OccursProperties DEF L, M
    <2>4. OccursAt(R, t, d) <=> d + M <= Len(R) /\ \A k \in 1..M : R[d + k] = t[k]
      BY <1>3, <2>1, OccursProperties DEF M
    <2>5. d \in Occurrences(R, t, 0) <=> d <= N /\ OccursAt(R, t, d)
      BY <1>5, <1>6, <2>1 DEF Occurrences
    <2> HIDE DEF d
    <2>6. ASSUME d + M <= N
          PROVE  \A k \in 1..M : R[d + k] = s[j + k]
      <3> SUFFICES ASSUME NEW k \in 1..M PROVE R[d + k] = s[j + k]
        OBVIOUS
      <3>1. d + k \in 1..N /\ i + (d + k) = j + k
        BY <1>1, <1>4, <2>1, <2>6
      <3>. QED BY <1>5, <1>6, <3>1
    <2>7. j <= to - M <=> d + M <= N
      BY <1>1, <1>4, <2>1
    <2>8. d + M <= N => d <= N /\ j + M <= L
      BY <1>1, <1>4, <2>1
    <2>9. OccursAt(R, t, d) <=> d + M <= N /\ \A k \in 1..M : R[d + k] = t[k]
      BY <1>5, <1>6, <2>4, Zenon
    <2>10. d + M <= N => (OccursAt(R, t, d) <=> OccursAt(s, t, j))
      <3>1. ASSUME d + M <= N PROVE OccursAt(R, t, d) <=> OccursAt(s, t, j)
        <4>1. (\A k \in 1..M : R[d + k] = t[k]) <=> (\A k \in 1..M : s[j + k] = t[k])
          BY <2>6, <3>1
        <4>. QED BY <2>3, <2>8, <2>9, <3>1, <4>1, Zenon
      <3>. QED BY <3>1
    <2>11. j \in Found(s, t, a, b) <=> d \in Occurrences(R, t, 0)
      BY <2>2, <2>5, <2>7, <2>8, <2>9, <2>10, Zenon
    <2>. QED BY <2>11 DEF d
  <1>7. Found(s, t, a, b) \in SUBSET Nat /\ \A j \in Found(s, t, a, b) : i <= j /\ j <= to - M
    BY <1>1, <1>2, <1>4
  <1>8. Found(s, t, a, b) # {} => i <= to
    BY <1>1, <1>4, <1>7
  <1>9. ASSUME i <= to
        PROVE  Found(s, t, a, b) = {j \in Nat : j >= i /\ j - i \in Occurrences(R, t, 0)}
    BY <1>6, <1>7, <1>9
  <1>. QED BY <1>7, <1>8, <1>9 DEF to, end, L, R

\* The first occurrence is the one IndexOf finds in the region.
LEMMA FirstInRegion ==
    ASSUME NEW s \in Text, NEW t \in Text, NEW a \in Int, NEW b \in Int,
           NEW i, i = Clamp(a, Len(s)), i <= Least(Clamp(b, Len(s)), Len(s))
    PROVE  IndexOf(Slice(s, a, b), t, 0) =
             IF Found(s, t, a, b) = {} THEN -1 ELSE Min(Found(s, t, a, b)) - i
  <1> DEFINE F == Found(s, t, a, b)
             O == Occurrences(Slice(s, a, b), t, 0)
             x == IndexOf(Slice(s, a, b), t, 0)
  <1>1. F \in SUBSET Nat /\ F = {j \in Nat : j >= i /\ j - i \in O}
    BY FoundInRegion
  <1>2. i \in Nat
    <2>1. Len(s) \in Nat
      BY TextFacts
    <2>. QED BY <2>1 DEF Clamp
  <1>3. Slice(s, a, b) \in Text
    BY SliceProperties
  <1>4. x \in Int /\ (x = -1 <=> O = {}) /\ (x # -1 => x \in O /\ \A j \in O : x <= j)
    BY <1>3, IndexOfProperties
  <1>5. O \in SUBSET Nat
    BY <1>3, TextFacts DEF Occurrences
  <1>6. F # {} => Min(F) \in F /\ \A y \in F : Min(F) <= y
    BY <1>1, MinProperties
  <1> HIDE DEF F, O, x
  <1>7. \A j \in O : j + i \in F
    BY <1>1, <1>2, <1>5
  <1>8. \A j \in F : j - i \in O
    BY <1>1
  <1>9. CASE F = {}
    BY <1>4, <1>7, <1>9 DEF F, x
  <1>10. CASE F # {}
    <2> DEFINE m == Min(F)
    <2>1. m \in Nat /\ m - i \in O /\ \A y \in F : m <= y
      BY <1>1, <1>6, <1>8, <1>10
    <2>2. x # -1 /\ x \in O /\ x + i \in F /\ x <= m - i
      BY <1>4, <1>7, <2>1
    <2> HIDE DEF m
    <2>3. m <= x + i
      BY <2>1, <2>2
    <2>4. x = m - i
      BY <1>2, <1>4, <2>1, <2>2, <2>3
    <2>. QED BY <1>10, <2>4 DEF m, F, x
  <1>. QED BY <1>9, <1>10

\* How many characters of a class a string begins with.
Leads(s, chars, m) ==
    /\ m \in 0..Len(s)
    /\ \A k \in 1..m : s[k] \in chars
    /\ m < Len(s) => s[m + 1] \notin chars

LEMMA StripLeftProperties ==
    ASSUME NEW s \in Text, NEW chars
    PROVE  \E m : /\ Leads(s, chars, m)
                  /\ StripLeft(s, chars) = SubSeq(s, m + 1, Len(s))
                  /\ StripLeft(s, chars) \in Text
                  /\ Len(StripLeft(s, chars)) = Len(s) - m
  <1> DEFINE L == Len(s)
             kept == {i \in DOMAIN s : s[i] \notin chars}
             m == IF kept = {} THEN L ELSE Min(kept) - 1
  <1>1. L \in Nat /\ DOMAIN s = 1..L /\ \A i \in 1..L : s[i] \in Int
    BY TextFacts
  <1>2. StripLeft(s, chars) = IF kept = {} THEN <<>> ELSE SubSeq(s, Min(kept), L)
    BY DEF StripLeft
  <1>3. kept \in SUBSET Nat /\ kept \subseteq 1..L
    BY <1>1
  <1>4. \A i \in 1..L : i \notin kept => s[i] \in chars
    BY <1>1
  <1>5. \A i \in kept : s[i] \notin chars
    OBVIOUS
  <1>6. kept # {} => Min(kept) \in kept /\ \A x \in kept : Min(kept) <= x
    BY <1>3, MinProperties
  <1> HIDE DEF L, kept
  <1>7. /\ m \in 0..L
        /\ \A k \in 1..m : k \in 1..L /\ k \notin kept
        /\ m < L => m + 1 \in kept
        /\ kept # {} => m + 1 = Min(kept)
    <2>1. CASE kept = {}
      BY <1>1, <2>1
    <2>2. CASE kept # {}
      <3> DEFINE q == Min(kept)
      <3>1. q \in kept /\ q \in 1..L /\ (\A x \in kept : q <= x) /\ m = q - 1
        BY <1>3, <1>6, <2>2
      <3> HIDE DEF q, m
      <3>2. m \in 0..L /\ m + 1 = q /\ \A k \in 1..m : k \in 1..L /\ k < q
        BY <1>1, <3>1
      <3>3. \A k \in 1..m : k \notin kept
        BY <3>1, <3>2
      <3>. QED BY <3>1, <3>2, <3>3 DEF q
    <2>. QED BY <2>1, <2>2
  <1> HIDE DEF m
  <1>8. \A k \in 1..m : s[k] \in chars
    BY <1>4, <1>7
  <1>9. m < L => s[m + 1] \notin chars
    BY <1>5, <1>7
  <1>10. StripLeft(s, chars) = SubSeq(s, m + 1, L)
    <2>1. CASE kept = {}
      <3>1. L < L + 1 /\ L + 1 \in Int /\ m = L
        BY <1>1, <2>1 DEF m
      <3>2. SubSeq(s, L + 1, L) = <<>>
        BY <1>1, <3>1, SubSeqEmpty
      <3>. QED BY <1>2, <2>1, <3>1, <3>2
    <2>2. CASE kept # {}
      BY <1>2, <1>7, <2>2
    <2>. QED BY <2>1, <2>2
  <1>11. SubSeq(s, m + 1, L) \in Text /\ Len(SubSeq(s, m + 1, L)) = L - m
    <2>1. m + 1 \in Int /\ L \in Int /\ \A i \in m + 1 .. L : s[i] \in Int
      BY <1>1, <1>7
    <2>2. /\ SubSeq(s, m + 1, L) \in Seq(Int)
          /\ Len(SubSeq(s, m + 1, L)) = IF m + 1 <= L THEN L - (m + 1) + 1 ELSE 0
      BY <2>1, SubSeqProperties
    <2>3. (IF m + 1 <= L THEN L - (m + 1) + 1 ELSE 0) = L - m
      BY <1>1, <1>7
    <2>. QED BY <2>2, <2>3 DEF Text
  <1>12. Leads(s, chars, m)
    BY <1>7, <1>8, <1>9 DEF Leads, L
  <1>. QED BY <1>10, <1>11, <1>12, Zenon DEF L

\* A string without a character of the class is left as it is.
LEMMA StripLeftNothing ==
    ASSUME NEW s \in Text, NEW chars, \A k \in 1..Len(s) : s[k] \notin chars
    PROVE  StripLeft(s, chars) = s
  <1>1. PICK m : Leads(s, chars, m) /\ StripLeft(s, chars) = SubSeq(s, m + 1, Len(s))
    BY StripLeftProperties, Zenon
  <1>2. Len(s) \in Nat
    BY TextFacts
  <1>3. m = 0
    <2>1. m \in Nat /\ m <= Len(s) /\ \A k \in 1..m : s[k] \in chars
      BY <1>1, <1>2 DEF Leads
    <2>2. m # 0 => m \in 1..m /\ m \in 1..Len(s)
      BY <1>2, <2>1
    <2>. QED BY <2>1, <2>2
  <1>4. SubSeq(s, m + 1, Len(s)) = SubSeq(s, 1, Len(s))
    BY <1>3
  <1>. QED BY <1>1, <1>4, SubSeqFull DEF Text

LEMMA ReverseTwice ==
    ASSUME NEW s \in Text
    PROVE  Reverse(Reverse(s)) = s
  <1> DEFINE r == Reverse(s)
             L == Len(s)
  <1>1. r \in Text /\ Len(r) = L /\ \A i \in 1..L : r[i] = s[L - i + 1]
    BY ReverseType
  <1> HIDE DEF r
  <1>2. Reverse(r) \in Text /\ Len(Reverse(r)) = L /\ \A i \in 1..L : Reverse(r)[i] = r[L - i + 1]
    BY <1>1, ReverseType
  <1>3. L \in Nat
    BY TextFacts
  <1> HIDE DEF L
  <1>4. \A i \in 1..L : Reverse(r)[i] = s[i]
    <2> SUFFICES ASSUME NEW i \in 1..L PROVE Reverse(r)[i] = s[i]
      OBVIOUS
    <2>1. L - i + 1 \in 1..L /\ L - (L - i + 1) + 1 = i
      BY <1>3
    <2>. QED BY <1>1, <1>2, <2>1
  <1>. QED BY <1>2, <1>4, SeqEqual DEF Text, L, r

LEMMA UnsignedProperties ==
    ASSUME NEW s \in Text
    PROVE  /\ Unsigned(s) \in Text
           /\ \A k \in 1..Len(s) : s[k] = Minus \/ s[k] \in ToSet(Unsigned(s))
           /\ ToSet(Unsigned(s)) \subseteq ToSet(s)
  <1>1. /\ Len(s) \in Nat /\ DOMAIN s = 1..Len(s)
        /\ s = <<>> <=> Len(s) = 0
    BY TextFacts
  <1>2. CASE ~StartsWith(s, <<Minus>>)
    BY <1>1, <1>2 DEF Unsigned, ToSet
  <1>3. CASE StartsWith(s, <<Minus>>)
    <2>1. <<Minus>> \in Text /\ Len(<<Minus>>) = 1 /\ <<Minus>>[1] = Minus
      BY DEF Text, Minus
    <2>2. 0 + 1 <= Len(s) /\ s[0 + 1] = Minus
      <3>1. 0 + Len(<<Minus>>) <= Len(s) /\ \A k \in 1..Len(<<Minus>>) : s[0 + k] = <<Minus>>[k]
        BY <1>3, <2>1, OccursProperties DEF StartsWith
      <3>. QED BY <2>1, <3>1
    <2>3. s # <<>> /\ s[1] = Minus
      BY <1>1, <2>2
    <2>4. /\ Tail(s) \in Text /\ Len(Tail(s)) = Len(s) - 1
          /\ \A i \in 1..Len(Tail(s)) : Tail(s)[i] = s[i + 1]
      BY <2>3, HeadTailProperties DEF Text
    <2>5. DOMAIN Tail(s) = 1..Len(Tail(s))
      BY <2>4, TextFacts
    <2>6. ASSUME NEW k \in 1..Len(s), k # 1
          PROVE  s[k] \in ToSet(Tail(s))
      <3>1. k - 1 \in 1..Len(Tail(s)) /\ k - 1 + 1 = k
        BY <1>1, <2>4, <2>6
      <3>2. Tail(s)[k - 1] = s[k]
        BY <2>4, <3>1
      <3>. QED BY <2>5, <3>1, <3>2 DEF ToSet
    <2>7. Unsigned(s) = Tail(s)
      BY <1>3 DEF Unsigned
    <2>8. ToSet(Tail(s)) \subseteq ToSet(s)
      <3>1. \A i \in 1..Len(Tail(s)) : i + 1 \in 1..Len(s) /\ Tail(s)[i] = s[i + 1]
        BY <1>1, <2>4
      <3>. QED BY <1>1, <2>5, <3>1 DEF ToSet
    <2>. QED BY <2>3, <2>4, <2>6, <2>7, <2>8
  <1>. QED BY <1>2, <1>3

\* A string without a character has the character nowhere.
LEMMA NowhereReplaced ==
    ASSUME NEW s \in Text, NEW c \in Int, \A k \in 1..Len(s) : s[k] # c
    PROVE  ReplaceEach(s, <<c>>, <<>>) = s
  <1>1. /\ <<c>> \in Text /\ <<c>> # <<>> /\ <<>> \in Text
        /\ Len(<<c>>) = 1 /\ <<c>>[1] = c /\ Len(s) \in Nat
    BY TextFacts DEF Text
  <1>2. ASSUME NEW i \in 0..Len(s), i # Len(s), OccursAt(s, <<c>>, i)
        PROVE  FALSE
    <2>1. i + Len(<<c>>) <= Len(s) /\ \A k \in 1..Len(<<c>>) : s[i + k] = <<c>>[k]
      <3> DEFINE t == <<c>>
      <3>1. t \in Text /\ i \in Nat /\ OccursAt(s, t, i)
        BY <1>1, <1>2
      <3> HIDE DEF t
      <3>2. i + Len(t) <= Len(s) /\ \A k \in 1..Len(t) : s[i + k] = t[k]
        BY <3>1, OccursProperties
      <3>. QED BY <3>2 DEF t
    <2>2. s[i + 1] = c /\ i + 1 \in 1..Len(s)
      BY <1>1, <1>2, <2>1
    <2>. QED BY <2>2
  <1>. QED BY <1>1, <1>2, NotReplaced

LEMMA TextsJoin ==
    ASSUME NEW s \in Text, NEW t \in Text
    PROVE  s \o t \in Text
  BY ConcatProperties DEF Text

LEMMA TextsAssociate ==
    ASSUME NEW s \in Text, NEW t \in Text, NEW u \in Text
    PROVE  (s \o t) \o u = s \o (t \o u)
  <1>1. s \in Seq(Int) /\ t \in Seq(Int) /\ u \in Seq(Int)
    BY DEF Text
  <1>. QED BY <1>1, ConcatAssociative

LEMMA OneCharacter ==
    ASSUME NEW s \in Text, NEW n \in 1..Len(s)
    PROVE  <<s[n]>> \in Text
  <1>1. s[n] \in Int
    BY TextFacts
  <1>. QED BY <1>1 DEF Text

\* Replacing the empty string by itself changes nothing.
LEMMA WithBetweenProperties ==
    ASSUME NEW s \in Text, NEW u \in Text
    PROVE  WithBetween(s, u) \in Text /\ (u = <<>> => WithBetween(s, u) = s)
  <1> DEFINE N == Len(s)
             next(v, n) == v \o <<s[n]>> \o u
             step == [n \in 1..N |-> [v \in Text |-> next(v, n)]]
             Is(f) == f = [n \in 0..N |-> IF n = 0 THEN u ELSE next(f[n - 1], n)]
             upTo == CHOOSE f : Is(f)
  <1>1. N \in Nat
    BY TextFacts
  <1>2. ASSUME NEW n \in 1..N, NEW v \in Text
        PROVE  next(v, n) \in Text /\ (u = <<>> => next(v, n) = v \o <<s[n]>>)
    <2>1. <<s[n]>> \in Text
      BY OneCharacter
    <2>2. v \o <<s[n]>> \in Text
      BY <2>1, TextsJoin
    <2>3. v \o <<s[n]>> \o u \in Text
      BY <2>2, TextsJoin
    <2>4. v \o <<s[n]>> \o <<>> = v \o <<s[n]>>
      BY <2>2, ConcatEmptySeq DEF Text
    <2>. QED BY <2>3, <2>4
  <1>3. WithBetween(s, u) = upTo[N]
    BY Zenon DEF WithBetween
  <1> HIDE DEF next, N
  <1>4. Steps(step, Text, N)
    BY <1>2 DEF Steps
  <1>5. PICK f : Follows(f, Text, N, u, step)
    <2> HIDE DEF step
    <2>. QED BY <1>1, <1>4, RecursionUpTo, Zenon
  <1>6. Is(f)
    <2>1. \A n \in 1..N : n - 1 \in 0..N /\ n \in 0..N /\ n # 0
      BY <1>1
    <2>2. \A n \in 1..N : f[n - 1] \in Text
      BY <1>5, <2>1 DEF Follows
    <2>3. \A n \in 1..N : f[n] = next(f[n - 1], n)
      BY <1>5, <2>2 DEF Follows
    <2>4. \A n \in 0..N : n = 0 \/ n \in 1..N
      BY <1>1
    <2>. QED BY <1>5, <2>3, <2>4 DEF Follows
  <1>7. Is(upTo)
    <2> HIDE DEF Is
    <2>. QED BY <1>6, Zenon
  <1> HIDE DEF upTo
  <1>8. upTo = [n \in 0..N |-> upTo[n]] /\ upTo[0] = u
    <2>1. 0 \in 0..N
      BY <1>1
    <2>2. upTo[0] = u
      BY <1>7, <2>1
    <2>3. upTo = [n \in 0..N |-> upTo[n]]
      BY <1>7
    <2>. QED BY <2>2, <2>3
  <1>9. \A n \in 1..N : upTo[n] = next(upTo[n - 1], n)
    <2>1. \A n \in 1..N : n \in 0..N /\ n # 0
      BY <1>1
    <2>. QED BY <1>7, <2>1
  <1> HIDE DEF Is
  <1>10. upTo \in [0..N -> Text]
    <2>1. ASSUME NEW n \in 1..N, upTo[n - 1] \in Text PROVE upTo[n] \in Text
      BY <1>2, <1>9, <2>1
    <2>2. upTo[0] \in Text
      BY <1>8
    <2>. QED BY <1>1, <1>8, <2>1, <2>2, StaysUpTo, Zenon
  <1>11. N \in 0..N
    BY <1>1
  <1>12. ASSUME u = <<>> PROVE upTo[N] = s
    <2> DEFINE Good == {n \in 1..N : upTo[n] = SubSeq(s, 1, n)}
    <2>1. \A n \in 1..N : (\A k \in 1..n - 1 : k \in Good) => n \in Good
      <3> SUFFICES ASSUME NEW n \in 1..N, \A k \in 1..n - 1 : k \in Good PROVE n \in Good
        OBVIOUS
      <3>1. upTo[n - 1] = SubSeq(s, 1, n - 1) /\ upTo[n - 1] \in Text
        <4>1. CASE n = 1
          <5>1. n - 1 = 0 /\ 0 < 1
            BY <4>1
          <5>2. SubSeq(s, 1, 0) = <<>>
            BY SubSeqEmpty
          <5>. QED BY <1>8, <1>12, <5>1, <5>2
        <4>2. CASE n # 1
          <5>1. n - 1 \in 1..n - 1 /\ n - 1 \in 0..N
            BY <4>2
          <5>2. n - 1 \in Good
            BY <5>1
          <5>. QED BY <1>10, <5>1, <5>2
        <4>. QED BY <4>1, <4>2
      <3>2. upTo[n] = SubSeq(s, 1, n - 1) \o <<s[n]>>
        BY <1>2, <1>9, <1>12, <3>1
      <3>3. SubSeq(s, 1, n) = SubSeq(s, 1, n - 1) \o <<s[n]>>
        <4>1. 1 \in 1..N /\ n \in 1..N
          BY <1>1
        <4>. QED BY <4>1, SubSeqRecursiveSecond DEF Text, N
      <3>. QED BY <3>2, <3>3
    <2>2. \A n \in 1..N : n \in Good
      <3> HIDE DEF Good
      <3>. QED BY <1>1, <2>1, InductionUpTo
    <2>3. CASE N = 0
      <3>1. s = <<>>
        BY <2>3, TextFacts DEF N
      <3>. QED BY <1>8, <1>12, <2>3, <3>1
    <2>4. CASE N # 0
      <3>1. N \in 1..N
        BY <1>1, <2>4
      <3>2. upTo[N] = SubSeq(s, 1, N)
        BY <2>2, <3>1
      <3>. QED BY <3>2, SubSeqFull DEF Text, N
    <2>. QED BY <2>3, <2>4
  <1>. QED BY <1>3, <1>10, <1>11, <1>12

LEMMA PyReplaceType ==
    ASSUME NEW s \in Text, NEW t \in Text, NEW u \in Text
    PROVE  PyReplace(s, t, u) \in Text
  BY WithBetweenProperties, ReplaceEachType DEF PyReplace

LEMMA ReplaceFirstType ==
    ASSUME NEW s \in Text, NEW t \in Text, NEW u \in Text, NEW n \in Nat
    PROVE  ReplaceFirst(s, t, u, n) \in Text
  <1> DEFINE L == Len(s)
             V == [0..n -> Text]
             F == [0..L -> V]
             hit(i, k) == k > 0 /\ OccursAt(s, t, i)
             next(i, k) == IF hit(i, k) /\ t # <<>> THEN i + Len(t) ELSE i + 1
             value(i, g, k) ==
                (IF hit(i, k) THEN u ELSE <<>>)
                \o (IF hit(i, k) /\ t # <<>> THEN <<>> ELSE Substr(s, i, 1))
                \o (IF next(i, k) > L THEN <<>> ELSE g[next(i, k)][IF hit(i, k) THEN k - 1 ELSE k])
             row(i, g) == [k \in 0..n |-> value(i, g, k)]
             step == [i \in 0..L |-> [g \in F |-> row(i, g)]]
             Is(f) == f = [i \in 0..L |-> row(i, f)]
             from == CHOOSE f : Is(f)
  <1>1. L \in Nat /\ Len(t) \in Nat /\ (t = <<>> <=> Len(t) = 0) /\ <<>> \in Text
    BY TextFacts DEF Text
  <1>2. ReplaceFirst(s, t, u, n) = from[0][n]
    BY Zenon DEF ReplaceFirst
  <1> HIDE DEF L
  <1>3. \A i \in 0..L : \A k \in 0..n : next(i, k) \in Nat /\ next(i, k) > i
    BY <1>1
  <1>4. \A i \in 0..L : \A k \in 0..n : (IF hit(i, k) THEN k - 1 ELSE k) \in 0..n
    OBVIOUS
  <1>5. \A i \in 0..L : Substr(s, i, 1) \in Text
    BY SubstrProperties
  <1> HIDE DEF next, hit
  <1>6. ASSUME NEW i \in 0..L, NEW g \in F, NEW k \in 0..n
        PROVE  value(i, g, k) \in Text
    <2> DEFINE j == next(i, k)
               c == IF hit(i, k) THEN k - 1 ELSE k
               x == IF hit(i, k) THEN u ELSE <<>>
               y == IF hit(i, k) /\ t # <<>> THEN <<>> ELSE Substr(s, i, 1)
               z == IF j > L THEN <<>> ELSE g[j][c]
    <2>1. x \in Text /\ y \in Text
      BY <1>1, <1>5
    <2>2. z \in Text
      <3>1. j \in Nat /\ c \in 0..n
        BY <1>3, <1>4
      <3> HIDE DEF j, c
      <3>2. CASE j > L
        BY <1>1, <3>2
      <3>3. CASE ~(j > L)
        <4>1. j \in 0..L
          BY <1>1, <3>1, <3>3
        <4>2. g[j] \in V
          BY <4>1
        <4>. QED BY <3>1, <3>3, <4>2
      <3>. QED BY <3>2, <3>3
    <2>3. value(i, g, k) = x \o y \o z
      OBVIOUS
    <2> HIDE DEF x, y, z, value
    <2>4. x \o y \in Text
      BY <2>1, TextsJoin
    <2>. QED BY <2>2, <2>3, <2>4, TextsJoin
  <1>7. \A i \in 0..L : \A g, h \in F : (\A j \in i + 1..L : g[j] = h[j]) => row(i, g) = row(i, h)
    <2> SUFFICES ASSUME NEW i \in 0..L, NEW g \in F, NEW h \in F, \A j \in i + 1..L : g[j] = h[j]
                 PROVE  row(i, g) = row(i, h)
      BY Zenon
    <2>1. ASSUME NEW k \in 0..n PROVE value(i, g, k) = value(i, h, k)
      <3> DEFINE j == next(i, k)
      <3>1. ~(j > L) => g[j] = h[j]
        <4>1. j \in Nat /\ j > i
          BY <1>3
        <4> HIDE DEF j
        <4>2. ~(j > L) => j \in i + 1..L
          BY <1>1, <4>1
        <4>. QED BY <4>2
      <3>2. (IF j > L THEN <<>> ELSE g[j][IF hit(i, k) THEN k - 1 ELSE k])
              = (IF j > L THEN <<>> ELSE h[j][IF hit(i, k) THEN k - 1 ELSE k])
        BY <3>1
      <3>. QED BY <3>2, Zenon
    <2> HIDE DEF value
    <2>. QED BY <2>1
  <1> HIDE DEF value
  <1>8. \A i \in 0..L : \A g \in F : row(i, g) \in V
    BY <1>6
  <1> DEFINE base == [k \in 0..n |-> <<>>]
  <1>9. base \in V
    BY <1>1
  <1>10. ASSUME NEW f, f = [i \in 0..L |-> f[i]], \A i \in 0..L : f[i] = row(i, f)
         PROVE  Is(f)
    BY <1>10
  <1> HIDE DEF row, base
  <1>11. StepsFrom(step, V, L)
    <2>1. step \in [0..L -> [F -> V]]
      BY <1>8
    <2>2. \A i \in 0..L : \A g, h \in F : (\A j \in i + 1..L : g[j] = h[j]) => step[i][g] = step[i][h]
      BY <1>7
    <2> HIDE DEF step, V
    <2>. QED BY <2>1, <2>2 DEF StepsFrom
  <1>12. PICK f : FollowsFrom(f, V, L, step)
    <2> HIDE DEF step, V
    <2>. QED BY <1>1, <1>9, <1>11, RecursionFrom, Zenon
  <1>13. f \in F /\ \A i \in 0..L : f[i] = row(i, f)
    <2> HIDE DEF V
    <2>. QED BY <1>12 DEF FollowsFrom
  <1>14. Is(f)
    <2> HIDE DEF V
    <2>. QED BY <1>10, <1>13
  <1>15. Is(from)
    <2> HIDE DEF Is
    <2>. QED BY <1>14, Zenon
  <1> HIDE DEF from
  <1>16. \A i \in 0..L : from[i] = row(i, from)
    BY <1>15
  <1> DEFINE Good == {m \in 1..L + 1 : from[L + 1 - m] = f[L + 1 - m]}
  <1>17. \A m \in 1..L + 1 : (\A k \in 1..m - 1 : k \in Good) => m \in Good
    <2> SUFFICES ASSUME NEW m \in 1..L + 1, \A k \in 1..m - 1 : k \in Good PROVE m \in Good
      OBVIOUS
    <2> DEFINE i == L + 1 - m
    <2>1. i \in 0..L
      BY <1>1
    <2>2. \A j \in i + 1..L : from[j] = f[j]
      <3> SUFFICES ASSUME NEW j \in i + 1..L PROVE from[j] = f[j]
        OBVIOUS
      <3>1. L + 1 - j \in 1..m - 1 /\ L + 1 - (L + 1 - j) = j
        BY <1>1
      <3>2. L + 1 - j \in Good
        BY <3>1
      <3>. QED BY <3>1, <3>2
    <2>3. row(i, from) = row(i, f)
      <3>1. ASSUME NEW k \in 0..n PROVE value(i, from, k) = value(i, f, k)
        <4> DEFINE j == next(i, k)
        <4>1. ~(j > L) => from[j] = f[j]
          <5>1. j \in Nat /\ j > i
            BY <1>3, <2>1
          <5> HIDE DEF j
          <5>2. ~(j > L) => j \in i + 1..L
            BY <1>1, <2>1, <5>1
          <5>. QED BY <2>2, <5>2
        <4>2. (IF j > L THEN <<>> ELSE from[j][IF hit(i, k) THEN k - 1 ELSE k])
                = (IF j > L THEN <<>> ELSE f[j][IF hit(i, k) THEN k - 1 ELSE k])
          BY <4>1
        <4>. QED BY <4>2, Zenon DEF value
      <3>. QED BY <3>1 DEF row
    <2>4. from[i] = f[i]
      BY <1>13, <1>16, <2>1, <2>3
    <2>. QED BY <2>4
  <1>18. \A m \in 1..L + 1 : m \in Good
    <2>1. L + 1 \in Nat
      BY <1>1
    <2> HIDE DEF Good
    <2>. QED BY <1>17, <2>1, InductionUpTo
  <1>19. from[0] = f[0]
    <2>1. L + 1 \in 1..L + 1 /\ L + 1 - (L + 1) = 0
      BY <1>1
    <2>2. L + 1 \in Good
      BY <1>18, <2>1
    <2>. QED BY <2>1, <2>2
  <1>20. f[0] \in V /\ n \in 0..n
    BY <1>1, <1>13
  <1>21. f[0][n] \in Text
    BY <1>20
  <1>. QED BY <1>2, <1>19, <1>21

\* What is joined up to each of the strings.
JoinedUpTo(f, q) ==
    /\ f \in [1..Len(q) -> Text]
    /\ f[1] = q[1]
    /\ \A i \in 2..Len(q) : f[i] = f[i - 1] \o q[i]

JoinsOn(f, q, N) == \A i \in 2..N : f[i] = f[i - 1] \o q[i]

LEMMA JoinedSame ==
    ASSUME NEW N \in Nat, NEW q, NEW f, NEW g, f[1] = g[1], JoinsOn(f, q, N), JoinsOn(g, q, N)
    PROVE  \A i \in 1..N : f[i] = g[i]
  <1> DEFINE Good == {i \in 1..N : f[i] = g[i]}
  <1>1. \A n \in 1..N : (\A k \in 1..n - 1 : k \in Good) => n \in Good
    <2> SUFFICES ASSUME NEW n \in 1..N, \A k \in 1..n - 1 : k \in Good PROVE n \in Good
      OBVIOUS
    <2>1. CASE n = 1
      BY <2>1
    <2>2. CASE n # 1
      <3>1. n - 1 \in 1..n - 1 /\ n \in 2..N
        BY <2>2
      <3>2. n - 1 \in Good
        BY <3>1
      <3>3. f[n - 1] = g[n - 1]
        BY <3>2
      <3>4. f[n] = f[n - 1] \o q[n] /\ g[n] = g[n - 1] \o q[n]
        BY <3>1 DEF JoinsOn
      <3>5. f[n] = g[n]
        BY <3>3, <3>4, Zenon
      <3>. QED BY <3>5
    <2>. QED BY <2>1, <2>2
  <1>2. \A n \in 1..N : n \in Good
    <2> HIDE DEF Good
    <2>. QED BY <1>1, InductionUpTo
  <1>. QED BY <1>2

LEMMA FlattenJoins ==
    ASSUME NEW q \in Seq(Text), q # <<>>
    PROVE  \E f : JoinedUpTo(f, q) /\ FlattenSeq(q) = f[Len(q)]
  <1> DEFINE L == Len(q)
             N == L - 1
             step == [n \in 1..N |-> [v \in Text |-> v \o q[n + 1]]]
             Is(f) == f = [i \in 1..L |-> IF i = 1 THEN q[i] ELSE f[i - 1] \o q[i]]
             flatten == CHOOSE f : Is(f)
  <1>1. L \in Nat /\ L # 0 /\ \A i \in 1..L : q[i] \in Text
    <2>1. L \in Nat /\ L # 0
      BY EmptySeq, LenProperties
    <2>. QED BY <2>1, ElementOfSeq
  <1>2. FlattenSeq(q) = IF L = 0 THEN q ELSE flatten[L]
    BY Zenon DEF FlattenSeq
  <1> HIDE DEF L
  <1>3. N \in Nat /\ \A n \in 1..N : n + 1 \in 1..L
    BY <1>1
  <1>4. q[1] \in Text
    BY <1>1
  <1>5. Steps(step, Text, N)
    <2>1. \A n \in 1..N : \A v \in Text : v \o q[n + 1] \in Text
      BY <1>1, <1>3, TextsJoin
    <2> HIDE DEF N
    <2>. QED BY <2>1 DEF Steps
  <1>6. PICK g : Follows(g, Text, N, q[1], step)
    <2> HIDE DEF step, N
    <2>. QED BY <1>3, <1>4, <1>5, RecursionUpTo, Zenon
  <1> DEFINE h == [i \in 1..L |-> g[i - 1]]
  <1>7. JoinedUpTo(h, q)
    <2>1. g \in [0..N -> Text] /\ g[0] = q[1] /\ \A n \in 1..N : g[n] = step[n][g[n - 1]]
      BY <1>6 DEF Follows
    <2>2. h \in [1..L -> Text]
      <3>1. \A i \in 1..L : i - 1 \in 0..N
        BY <1>1
      <3>. QED BY <2>1, <3>1
    <2>3. h[1] = q[1]
      <3>1. 1 \in 1..L /\ 1 - 1 = 0
        BY <1>1
      <3>. QED BY <2>1, <3>1
    <2>4. ASSUME NEW i \in 2..L PROVE h[i] = h[i - 1] \o q[i]
      <3>1. i - 1 \in 1..N /\ i \in 1..L /\ i - 1 \in 1..L /\ i - 1 + 1 = i /\ i - 1 - 1 \in 0..N
        BY <1>1
      <3>2. h[i] = g[i - 1] /\ h[i - 1] = g[i - 1 - 1] /\ g[i - 1 - 1] \in Text
        BY <2>1, <3>1
      <3>3. g[i - 1] = step[i - 1][g[i - 1 - 1]]
        BY <2>1, <3>1
      <3>4. step[i - 1] = [v \in Text |-> v \o q[i - 1 + 1]]
        BY <3>1
      <3>5. g[i - 1] = g[i - 1 - 1] \o q[i - 1 + 1]
        BY <3>2, <3>3, <3>4
      <3>. QED BY <3>1, <3>2, <3>5
    <2> HIDE DEF h
    <2>. QED BY <2>2, <2>3, <2>4 DEF JoinedUpTo, L
  <1>8. \A i \in 1..L : i = 1 \/ i \in 2..L
    BY <1>1
  <1>9. Is(h)
    <2>1. /\ h[1] = q[1] /\ \A i \in 2..L : h[i] = h[i - 1] \o q[i]
      BY <1>7 DEF JoinedUpTo, L
    <2>2. h = [i \in 1..L |-> h[i]]
      OBVIOUS
    <2>3. \A i \in 2..L : i # 1
      BY <1>1
    <2> HIDE DEF h
    <2>4. \A i \in 1..L : h[i] = IF i = 1 THEN q[i] ELSE h[i - 1] \o q[i]
      BY <1>8, <2>1, <2>3, Zenon
    <2>. QED BY <2>2, <2>4
  <1>10. Is(flatten)
    <2> HIDE DEF Is
    <2>. QED BY <1>9, Zenon
  <1> HIDE DEF flatten
  <1>11. flatten[1] = q[1] /\ \A i \in 2..L : flatten[i] = flatten[i - 1] \o q[i]
    <2>1. 1 \in 1..L /\ \A i \in 2..L : i \in 1..L /\ i # 1
      BY <1>1
    <2>. QED BY <1>10, <2>1
  <1> HIDE DEF Is, h
  <1>12. \A i \in 1..L : flatten[i] = h[i]
    <2>1. h[1] = q[1] /\ \A i \in 2..L : h[i] = h[i - 1] \o q[i]
      BY <1>7 DEF JoinedUpTo, L
    <2>2. flatten[1] = h[1]
      BY <1>11, <2>1
    <2>3. JoinsOn(h, q, L) /\ JoinsOn(flatten, q, L)
      BY <1>11, <2>1 DEF JoinsOn
    <2>4. L \in Nat /\ JoinsOn(h, q, L) /\ JoinsOn(flatten, q, L) /\ flatten[1] = h[1]
      BY <1>1, <2>2, <2>3
    <2>. QED BY <2>4, JoinedSame
  <1>13. flatten[L] = h[L]
    <2>1. L \in 1..L
      BY <1>1
    <2>. QED BY <1>12, <2>1
  <1>. QED BY <1>1, <1>2, <1>7, <1>13 DEF L

LEMMA FlattenType ==
    ASSUME NEW q \in Seq(Text)
    PROVE  FlattenSeq(q) \in Text
  <1>1. CASE q = <<>>
    <2>1. FlattenSeq(q) = <<>>
      BY <1>1 DEF FlattenSeq
    <2>. QED BY <2>1 DEF Text
  <1>2. CASE q # <<>>
    <2>1. PICK f : JoinedUpTo(f, q) /\ FlattenSeq(q) = f[Len(q)]
      BY <1>2, FlattenJoins, Zenon
    <2>2. Len(q) \in 1..Len(q)
      BY <1>2, EmptySeq
    <2>. QED BY <2>1, <2>2 DEF JoinedUpTo
  <1>. QED BY <1>1, <1>2

\* The case mappings of Python give strings.
LEMMA PyCaseType ==
    ASSUME NEW s \in Text
    PROVE  PyLower(s) \in Text /\ PyUpper(s) \in Text
  <1>1. Len(s) \in Nat /\ \A i \in 1..Len(s) : s[i] \in Int
    BY TextFacts
  <1>2. \A c \in DOMAIN Unicode : Unicode[c].lower \in Text /\ Unicode[c].upper \in Text
    <2>1. Seq(Nat) \subseteq Seq(Int)
      BY SeqMonotonic
    <2>. QED BY <2>1, UnicodeAssumption DEF Character, Text
  <1>3. \A i \in 1..Len(s) : Lower(<<s[i]>>) \in Text /\ Upper(<<s[i]>>) \in Text
    <2>1. \A i \in 1..Len(s) : <<s[i]>> \in Text
      BY <1>1 DEF Text
    <2>. QED BY <2>1, CaseType
  <1> DEFINE low(i) == IF s[i] \in DOMAIN Unicode THEN Unicode[s[i]].lower ELSE Lower(<<s[i]>>)
             up(i)  == IF s[i] \in DOMAIN Unicode THEN Unicode[s[i]].upper ELSE Upper(<<s[i]>>)
  <1>4. \A i \in 1..Len(s) : low(i) \in Text /\ up(i) \in Text
    BY <1>2, <1>3
  <1>5. /\ PyLower(s) = IF Ascii(s) THEN Lower(s) ELSE FlattenSeq([i \in 1..Len(s) |-> low(i)])
        /\ PyUpper(s) = IF Ascii(s) THEN Upper(s) ELSE FlattenSeq([i \in 1..Len(s) |-> up(i)])
    BY DEF PyLower, PyUpper
  <1> HIDE DEF low, up
  <1>6. [i \in 1..Len(s) |-> low(i)] \in Seq(Text) /\ [i \in 1..Len(s) |-> up(i)] \in Seq(Text)
    BY <1>1, <1>4, IsASeq
  <1>. QED BY <1>5, <1>6, FlattenType, CaseType

=============================================================================
