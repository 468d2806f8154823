--------------------------- MODULE BindingProofs ---------------------------
(***************************************************************************)
(* Theorems about Binding: containers that records show and containers that *)
(* the target can write are never the same; a model's values are at their  *)
(* leaves in the input made from it, although copies are cut and shared    *)
(* containers are copied once; and the target is shown that input.         *)
(***************************************************************************)
EXTENDS Binding, ProofFacts, FiniteSetTheorems

-----------------------------------------------------------------------------
(* What is reached. *)

\* Containers that hold no others.
Closed(h, S) ==
    /\ S \subseteq DOMAIN h
    /\ \A id \in S : \A c \in DOMAIN h[id].cells :
         IsRef(h[id].cells[c]) => h[id].cells[c].val \in S

LEMMA HeapFacts ==
  ASSUME NEW h \in Heaps
  PROVE  /\ h \in Seq(Containers) /\ Len(h) \in Nat /\ DOMAIN h = 1..Len(h)
         /\ \A id \in DOMAIN h : /\ h[id] \in Containers
                                 /\ h[id].cells \in Seq(Values)
                                 /\ DOMAIN h[id].cells = 1..Len(h[id].cells)
                                 /\ Len(h[id].cells) \in Nat
                                 /\ \A c \in DOMAIN h[id].cells : /\ h[id].cells[c] \in Values
                                                                  /\ In(h, h[id].cells[c])
<1>1. h \in Seq(Containers) /\ \A id \in DOMAIN h : \A c \in DOMAIN h[id].cells : In(h, h[id].cells[c])
  BY DEF Heaps
<1>2. Len(h) \in Nat /\ DOMAIN h = 1..Len(h)
  BY <1>1, LenProperties
<1>3. \A id \in 1..Len(h) : h[id] \in Containers
  BY <1>1, ElementOfSeq
<1>4. ASSUME NEW o \in Containers
      PROVE  /\ o.cells \in Seq(Values) /\ DOMAIN o.cells = 1..Len(o.cells) /\ Len(o.cells) \in Nat
             /\ \A c \in DOMAIN o.cells : o.cells[c] \in Values
  <2>1. o.cells \in Seq(Values)
    BY DEF Containers
  <2>2. DOMAIN o.cells = 1..Len(o.cells) /\ Len(o.cells) \in Nat
    BY <2>1, LenProperties
  <2>3. \A c \in 1..Len(o.cells) : o.cells[c] \in Values
    BY <2>1, ElementOfSeq
  <2> QED BY <2>1, <2>2, <2>3
<1> QED
  BY <1>1, <1>2, <1>3, <1>4

LEMMA HeldByFacts ==
  ASSUME NEW h \in Heaps, NEW S \in SUBSET DOMAIN h
  PROVE  /\ HeldBy(h, S) \subseteq DOMAIN h
         /\ HeldBy(h, S) \subseteq S <=> Closed(h, S)
<1>1. \A x : x \in HeldBy(h, S)
               <=> \E i \in S : \E c \in DOMAIN h[i].cells :
                     IsRef(h[i].cells[c]) /\ x = h[i].cells[c].val
  BY DEF HeldBy, ToSet
<1>2. \A i \in S : \A c \in DOMAIN h[i].cells : IsRef(h[i].cells[c]) => h[i].cells[c].val \in DOMAIN h
  BY HeapFacts DEF In
<1> QED
  BY <1>1, <1>2 DEF Closed

LEMMA ReachUnrolled ==
  ASSUME NEW h \in Heaps, NEW ids \in SUBSET DOMAIN h
  PROVE  \E f \in [0..Len(h) -> SUBSET DOMAIN h] :
           /\ f[0] = ids
           /\ \A n \in 1..Len(h) : f[n] = f[n - 1] \cup HeldBy(h, f[n - 1])
           /\ ReachFrom(h, ids) = f[Len(h)]
<1> DEFINE N == Len(h)
           V == SUBSET DOMAIN h
           step == [n \in 1..N |-> [S \in V |-> S \cup HeldBy(h, S)]]
           Is(f) == f = [n \in 0..N |-> IF n = 0 THEN ids
                                        ELSE LET closer == f[n - 1] IN closer \cup HeldBy(h, closer)]
           w == CHOOSE f : Is(f)
<1>1. N \in Nat
  BY HeapFacts
<1>2. \A S \in V : S \cup HeldBy(h, S) \in V
  BY HeldByFacts
<1>3. Steps(step, V, N)
  BY <1>2 DEF Steps
<1>4. ReachFrom(h, ids) = w[N]
  BY Zenon DEF ReachFrom
<1> HIDE DEF N
<1>5. PICK f : Follows(f, V, N, ids, step)
  <2> HIDE DEF step, V
  <2>1. ids \in V
    BY DEF V
  <2> QED BY <1>1, <1>3, <2>1, RecursionUpTo, Zenon
<1>6. f \in [0..N -> V] /\ f[0] = ids /\ \A n \in 1..N : f[n] = f[n - 1] \cup HeldBy(h, f[n - 1])
  <2>1. f \in [0..N -> V] /\ f[0] = ids /\ \A n \in 1..N : f[n] = step[n][f[n - 1]]
    BY <1>5, Zenon DEF Follows
  <2>2. \A n \in 1..N : n - 1 \in 0..N
    BY <1>1
  <2> HIDE DEF V
  <2>3. \A n \in 1..N : f[n - 1] \in V
    BY <2>1, <2>2
  <2> QED BY <2>1, <2>3
<1> HIDE DEF step, V
<1>7. Is([n \in 0..N |-> f[n]])
  <2> DEFINE g == [n \in 0..N |-> f[n]]
  <2>1. \A n \in 0..N : g[n] = f[n]
    OBVIOUS
  <2>2. ASSUME NEW n \in 0..N
        PROVE  g[n] = IF n = 0 THEN ids ELSE LET closer == g[n - 1] IN closer \cup HeldBy(h, closer)
    <3>1. n # 0 => n \in 1..N /\ n - 1 \in 0..N
      BY <1>1
    <3> HIDE DEF g
    <3> QED BY <1>6, <2>1, <3>1
  <2>3. g = [n \in 0..N |-> g[n]]
    OBVIOUS
  <2> HIDE DEF g
  <2>4. g = [n \in 0..N |-> IF n = 0 THEN ids ELSE LET closer == g[n - 1] IN closer \cup HeldBy(h, closer)]
    BY <2>2, <2>3
  <2> QED BY <2>4 DEF g
<1>8. Is(w)
  <2> HIDE DEF Is
  <2> QED BY <1>7
<1> HIDE DEF w
<1>9. w[0] = ids /\ \A n \in 1..N : w[n] = w[n - 1] \cup HeldBy(h, w[n - 1])
  <2>1. \A n \in 1..N : n # 0 /\ n \in 0..N
    BY <1>1
  <2>2. 0 \in 0..N
    BY <1>1
  <2> QED BY <1>8, <2>1, <2>2
<1>10. w \in [0..N -> V]
  <2>1. w = [n \in 0..N |-> w[n]]
    BY <1>8
  <2>2. w[0] \in V
    BY <1>9 DEF V
  <2>3. \A n \in 1..N : w[n - 1] \in V => w[n] \in V
    BY <1>2, <1>9
  <2> HIDE DEF Is
  <2> QED BY <1>1, <2>1, <2>2, <2>3, StaysUpTo
<1> QED
  BY <1>4, <1>9, <1>10 DEF N, V

LEMMA ReachFromFacts ==
  ASSUME NEW h \in Heaps, NEW ids \in SUBSET DOMAIN h, ids # {}
  PROVE  /\ Closed(h, ReachFrom(h, ids))
         /\ ids \subseteq ReachFrom(h, ids)
         /\ \A S : Closed(h, S) /\ ids \subseteq S => ReachFrom(h, ids) \subseteq S
<1> DEFINE N == Len(h)
<1>1. N \in Nat /\ DOMAIN h = 1..N
  BY HeapFacts
<1>2. PICK f \in [0..N -> SUBSET DOMAIN h] :
        /\ f[0] = ids
        /\ \A n \in 1..N : f[n] = f[n - 1] \cup HeldBy(h, f[n - 1])
        /\ ReachFrom(h, ids) = f[N]
  BY ReachUnrolled
<1>3. \A n \in 0..N : f[n] \in SUBSET DOMAIN h
  BY <1>2
<1>4. IsFiniteSet(1..N) /\ Cardinality(1..N) = N
  <2> HIDE DEF N
  <2>1. 1 \in Int /\ N \in Int
    BY <1>1
  <2>2. IsFiniteSet(1..N) /\ Cardinality(1..N) = IF 1 > N THEN 0 ELSE N - 1 + 1
    BY <2>1, FS_Interval, Zenon
  <2> QED BY <1>1, <2>2
<1>5. \A T \in SUBSET DOMAIN h : IsFiniteSet(T) /\ Cardinality(T) \in Nat /\ Cardinality(T) <= N
  BY <1>1, <1>4, FS_Subset, FS_CardinalityType
<1> HIDE DEF N
<1>6. ids \subseteq f[N]
  <2> DEFINE Good == {n \in 0..N : ids \subseteq f[n]}
  <2>1. 0 \in Good
    BY <1>1, <1>2
  <2>2. \A n \in 1..N : n - 1 \in Good => n \in Good
    BY <1>1, <1>2
  <2> HIDE DEF Good
  <2>3. \A n \in 0..N : n \in Good
    BY <1>1, <2>1, <2>2, InductionFromZero
  <2> QED BY <1>1, <2>3 DEF Good
<1>7. Closed(h, f[N])
  <2> DEFINE P(n) == Closed(h, f[n]) \/ n + 1 <= Cardinality(f[n])
             Good == {n \in 0..N : P(n)}
  <2>1. 0 \in Good
    <3>1. ids \in SUBSET DOMAIN h /\ Cardinality(ids) \in Nat
      BY <1>5
    <3>2. Cardinality(ids) # 0
      BY <1>5, FS_EmptySet
    <3>3. 0 + 1 <= Cardinality(f[0])
      BY <1>2, <3>1, <3>2
    <3> QED BY <1>1, <3>3
  <2>2. ASSUME NEW n \in 1..N, n - 1 \in Good PROVE n \in Good
    <3> DEFINE T == f[n - 1]
    <3>1. T \in SUBSET DOMAIN h /\ f[n] = T \cup HeldBy(h, T) /\ f[n] \in SUBSET DOMAIN h
      BY <1>1, <1>2, <1>3
    <3>2. Closed(h, T) \/ (n - 1) + 1 <= Cardinality(T)
      BY <2>2
    <3> HIDE DEF T
    <3>3. CASE Closed(h, T)
      <4>1. f[n] = T
        BY <3>1, <3>3, HeldByFacts
      <4> QED BY <1>1, <3>3, <4>1
    <3>4. CASE ~Closed(h, T)
      <4>1. f[n] # T /\ T \in SUBSET f[n]
        BY <3>1, <3>4, HeldByFacts
      <4>2. IsFiniteSet(f[n]) /\ Cardinality(f[n]) \in Nat /\ Cardinality(T) \in Nat
        BY <1>5, <3>1
      <4>3. Cardinality(T) <= Cardinality(f[n]) /\ Cardinality(f[n]) # Cardinality(T)
        BY <4>1, <4>2, FS_Subset
      <4>4. n <= Cardinality(T)
        BY <1>1, <3>2, <3>4
      <4>5. n + 1 <= Cardinality(f[n])
        BY <1>1, <4>2, <4>3, <4>4
      <4> QED BY <1>1, <4>5
    <3> QED BY <3>3, <3>4
  <2> HIDE DEF Good
  <2>3. \A n \in 0..N : n \in Good
    BY <1>1, <2>1, <2>2, InductionFromZero
  <2>4. P(N)
    BY <1>1, <2>3 DEF Good
  <2>5. ~(N + 1 <= Cardinality(f[N]))
    BY <1>1, <1>3, <1>5
  <2> QED BY <2>4, <2>5
<1>8. ASSUME NEW S, Closed(h, S), ids \subseteq S PROVE f[N] \subseteq S
  <2> DEFINE Good == {n \in 0..N : f[n] \subseteq S}
  <2>1. 0 \in Good
    BY <1>1, <1>2, <1>8
  <2>2. ASSUME NEW n \in 1..N, n - 1 \in Good PROVE n \in Good
    <3> DEFINE T == f[n - 1]
    <3>1. f[n] = T \cup HeldBy(h, T) /\ T \subseteq S
      BY <1>2, <2>2
    <3>2. S \in SUBSET DOMAIN h
      BY <1>8 DEF Closed
    <3>3. HeldBy(h, S) \subseteq S
      BY <1>8, <3>2, HeldByFacts
    <3> HIDE DEF T
    <3>4. HeldBy(h, T) \subseteq HeldBy(h, S)
      BY <3>1 DEF HeldBy
    <3> QED BY <1>1, <3>1, <3>3, <3>4
  <2> HIDE DEF Good
  <2>3. \A n \in 0..N : n \in Good
    BY <1>1, <2>1, <2>2, InductionFromZero
  <2> QED BY <1>1, <2>3 DEF Good
<1> QED
  BY <1>2, <1>6, <1>7, <1>8 DEF N

(* What a value reaches is what it stands for and all that holds, and no more. *)
LEMMA ReachFacts ==
  ASSUME NEW h \in Heaps, NEW v, In(h, v)
  PROVE  /\ Closed(h, Reach(h, v))
         /\ IsRef(v) => v.val \in Reach(h, v)
         /\ \A S : Closed(h, S) /\ (IsRef(v) => v.val \in S) => Reach(h, v) \subseteq S
<1>1. CASE IsRef(v)
  <2>1. {v.val} \in SUBSET DOMAIN h /\ {v.val} # {} /\ Reach(h, v) = ReachFrom(h, {v.val})
    BY <1>1 DEF In, Reach
  <2> QED BY <1>1, <2>1, ReachFromFacts
<1>2. CASE ~IsRef(v)
  <2>1. Reach(h, v) = {}
    BY <1>2 DEF Reach
  <2> QED BY <1>2, <2>1 DEF Closed
<1> QED BY <1>1, <1>2

-----------------------------------------------------------------------------
(* Heaps that grow. *)

New(h, g) == Len(h) + 1..Len(g)

\* g has the containers of h and others, which hold only one another.
Extends(h, g) ==
    /\ g \in Heaps
    /\ Len(h) <= Len(g)
    /\ \A id \in 1..Len(h) : g[id] = h[id]
    /\ \A id \in New(h, g) : \A c \in DOMAIN g[id].cells :
         IsRef(g[id].cells[c]) => g[id].cells[c].val \in New(h, g)

\* A value in new containers only.
Fresh(h, g, v) == v \in Values /\ (IsRef(v) => v.val \in New(h, g))

\* What a value becomes when containers are exchanged.
Renamed(to, v) == IF IsRef(v) THEN Ref(to[v.val]) ELSE v

(* A finite set is listed without repetition. *)
LEMMA Listed ==
  ASSUME NEW S, IsFiniteSet(S)
  PROVE  /\ SetToSeq(S) \in Seq(S)
         /\ \A x \in S : \E k \in 1..Len(SetToSeq(S)) : SetToSeq(S)[k] = x
<1> DEFINE n == Cardinality(S)
           f == SetToSeq(S)
<1>1. n \in Nat /\ ExistsBijection(1..n, S)
  BY FS_CardinalityType
<1>2. PICK b : b \in Bijection(1..n, S)
  BY <1>1 DEF ExistsBijection
<1>3. \A g : g \in Injection(1..n, S) <=> g \in [1..n -> S] /\ IsInjective(g)
  BY DEF Injection
<1>4. b \in [1..n -> S] /\ IsInjective(b)
  BY <1>2, <1>3 DEF Bijection
<1> HIDE DEF n
<1>5. f \in [1..n -> S] /\ IsInjective(f)
  <2>1. f = CHOOSE g \in [1..n -> S] : IsInjective(g)
    BY Zenon DEF SetToSeq, n
  <2> HIDE DEF f
  <2> QED BY <1>4, <2>1, Zenon
<1> HIDE DEF f
<1>6. f \in Injection(1..n, S)
  BY <1>3, <1>5
<1>7. f \in Seq(S) /\ Len(f) = n
  BY <1>1, <1>5
<1>8. Cardinality(1..n) = Cardinality(S)
  <2>1. 1 \in Int /\ n \in Int
    BY <1>1
  <2>2. Cardinality(1..n) = IF 1 > n THEN 0 ELSE n - 1 + 1
    BY <2>1, FS_Interval, Zenon
  <2> QED BY <1>1, <2>2 DEF n
<1>9. f \in Surjection(1..n, S)
  BY <1>6, <1>8, FS_Injection
<1>10. \A x \in S : \E k \in 1..n : f[k] = x
  BY <1>9 DEF Surjection
<1> QED
  BY <1>7, <1>10 DEF f

LEMMA ValueFacts ==
  ASSUME NEW sort \in Sorts \cup {"None", "function", "ref", "default", "raised"}, NEW val \in Int
  PROVE  /\ Value(sort, val) \in Values /\ Value(sort, val).val = val /\ Value(sort, val).sort = sort
         /\ IsRef(Value(sort, val)) <=> sort = "ref"
<1>1. 0 \in Nat
  OBVIOUS
<1> QED
  BY <1>1 DEF Value, Values, IsRef, NoSymbol

LEMMA RefFacts ==
  ASSUME NEW val \in Int
  PROVE  Ref(val) \in Values /\ IsRef(Ref(val)) /\ Ref(val).val = val
BY ValueFacts DEF Ref

(* A copy is made of new containers, one for each one reached. *)
LEMMA DeepCopyFacts ==
  ASSUME NEW h \in Heaps, NEW v \in Values, In(h, v)
  PROVE  LET g == DeepCopy(h, v).heap
         IN  /\ Extends(h, g)
             /\ Fresh(h, g, DeepCopy(h, v).value)
             /\ \E to \in [Reach(h, v) -> New(h, g)] :
                  /\ \A i, j \in Reach(h, v) : to[i] = to[j] => i = j
                  /\ \A i \in Reach(h, v) :
                       /\ g[to[i]].kind = h[i].kind
                       /\ DOMAIN g[to[i]].cells = DOMAIN h[i].cells
                       /\ \A c \in DOMAIN h[i].cells : g[to[i]].cells[c] = Renamed(to, h[i].cells[c])
                  /\ DeepCopy(h, v).value = Renamed(to, v)
<1> DEFINE N == Len(h)
           R == Reach(h, v)
           old == SetToSeq(R)
           M == Len(old)
           Place(i) == CHOOSE k \in DOMAIN old : old[k] = i
           Moved(w) == IF IsRef(w) THEN Ref(N + CHOOSE k \in DOMAIN old : old[k] = w.val) ELSE w
           news == [k \in DOMAIN old |-> [h[old[k]] EXCEPT !.cells = [c \in DOMAIN @ |-> Moved(@[c])]]]
           g == h \o news
           to == [i \in R |-> N + Place(i)]
<1>1. DeepCopy(h, v) = [heap |-> g, value |-> Moved(v)]
  BY Zenon DEF DeepCopy
<1>2. /\ N \in Nat /\ DOMAIN h = 1..N /\ h \in Seq(Containers)
      /\ Closed(h, R) /\ R \in SUBSET (1..N) /\ (IsRef(v) => v.val \in R)
  BY HeapFacts, ReachFacts DEF Closed
<1>3. IsFiniteSet(R)
  <2>1. 1 \in Int /\ N \in Int
    BY <1>2
  <2> HIDE DEF N, R
  <2>2. IsFiniteSet(1..N)
    BY <2>1, FS_Interval, Zenon
  <2> QED BY <1>2, <2>2, FS_Subset
<1>4. old \in Seq(R) /\ \A x \in R : \E k \in 1..M : old[k] = x
  <2> HIDE DEF R
  <2> QED BY <1>3, Listed
<1> HIDE DEF old, R, N
<1>5. M \in Nat /\ DOMAIN old = 1..M /\ \A k \in 1..M : old[k] \in R
  BY <1>4, LenProperties, ElementOfSeq
<1> HIDE DEF M
<1>6. \A i \in R : Place(i) \in 1..M /\ old[Place(i)] = i
  <2> SUFFICES ASSUME NEW i \in R PROVE Place(i) \in 1..M /\ old[Place(i)] = i
    OBVIOUS
  <2>1. \E k \in DOMAIN old : old[k] = i
    BY <1>4, <1>5
  <2> QED BY <1>5, <2>1, Zenon
<1>7. \A w : Moved(w) = IF IsRef(w) THEN Ref(N + Place(w.val)) ELSE w
  OBVIOUS
<1> HIDE DEF Moved, Place
<1>8. ASSUME NEW w \in Values, IsRef(w) => w.val \in R
      PROVE  /\ Moved(w) \in Values /\ Moved(w) = Renamed(to, w)
             /\ IsRef(w) <=> IsRef(Moved(w))
             /\ IsRef(Moved(w)) => Moved(w).val \in N + 1..N + M
  <2>1. CASE IsRef(w)
    <3>1. Place(w.val) \in 1..M /\ to[w.val] = N + Place(w.val)
      BY <1>6, <1>8, <2>1
    <3>2. N + Place(w.val) \in Int /\ N + Place(w.val) \in N + 1..N + M
      BY <1>2, <1>5, <3>1
    <3>3. Moved(w) = Ref(N + Place(w.val))
      BY <1>7, <2>1
    <3>4. Ref(N + Place(w.val)) \in Values /\ IsRef(Ref(N + Place(w.val))) /\ Ref(N + Place(w.val)).val = N + Place(w.val)
      BY <3>2, RefFacts
    <3> HIDE DEF to
    <3> QED BY <2>1, <3>1, <3>2, <3>3, <3>4 DEF Renamed
  <2>2. CASE ~IsRef(w)
    BY <1>7, <2>2 DEF Renamed
  <2> QED BY <2>1, <2>2
<1>9. ASSUME NEW k \in 1..M
      PROVE  /\ news[k] \in Containers
             /\ news[k].kind = h[old[k]].kind
             /\ DOMAIN news[k].cells = DOMAIN h[old[k]].cells
             /\ \A c \in DOMAIN h[old[k]].cells :
                  /\ news[k].cells[c] = Moved(h[old[k]].cells[c])
                  /\ h[old[k]].cells[c] \in Values
                  /\ IsRef(h[old[k]].cells[c]) => h[old[k]].cells[c].val \in R
  <2> DEFINE o == h[old[k]]
             cells == [c \in DOMAIN o.cells |-> Moved(o.cells[c])]
             L == Len(o.cells)
  <2>1. old[k] \in R /\ old[k] \in DOMAIN h
    BY <1>2, <1>5
  <2>2. /\ o \in Containers /\ DOMAIN o.cells = 1..L /\ L \in Nat
        /\ \A c \in DOMAIN o.cells : o.cells[c] \in Values
    BY <2>1, HeapFacts
  <2>3. \A c \in DOMAIN o.cells : IsRef(o.cells[c]) => o.cells[c].val \in R
    BY <1>2, <2>1 DEF Closed
  <2>4. news[k] = [o EXCEPT !.cells = cells]
    BY <1>5
  <2> HIDE DEF L, o
  <2>5. \A c \in 1..L : cells[c] \in Values
    BY <1>8, <2>2, <2>3
  <2>6. cells = [c \in 1..L |-> cells[c]] /\ DOMAIN cells = DOMAIN o.cells
    BY <2>2
  <2>7. \A c \in DOMAIN o.cells : cells[c] = Moved(o.cells[c])
    OBVIOUS
  <2> HIDE DEF cells, news
  <2>8. cells \in Seq(Values)
    BY <2>2, <2>5, <2>6
  <2>9. /\ news[k] \in Containers /\ news[k].kind = o.kind /\ news[k].cells = cells
    BY <2>2, <2>4, <2>8 DEF Containers
  <2> QED BY <2>2, <2>3, <2>6, <2>7, <2>9 DEF o
<1>10. news \in Seq(Containers) /\ Len(news) = M
  <2>1. news = [k \in 1..M |-> news[k]]
    BY <1>5
  <2> HIDE DEF news
  <2> QED BY <1>5, <1>9, <2>1
<1> HIDE DEF news
<1>11. /\ g \in Seq(Containers) /\ Len(g) = N + M
       /\ \A id \in 1..N : g[id] = h[id]
       /\ \A k \in 1..M : g[N + k] = news[k]
  <2>1. /\ g \in Seq(Containers) /\ Len(g) = Len(h) + M
        /\ \A id \in 1..Len(h) + M : g[id] = IF id <= Len(h) THEN h[id] ELSE news[id - Len(h)]
    BY <1>2, <1>10, ConcatProperties
  <2> HIDE DEF g
  <2>2. \A id \in 1..N : id \in 1..N + M /\ id <= N
    BY <1>2, <1>5
  <2>3. \A k \in 1..M : N + k \in 1..N + M /\ ~(N + k <= N) /\ (N + k) - N = k
    BY <1>2, <1>5
  <2> QED BY <2>1, <2>2, <2>3 DEF N
<1> HIDE DEF g
<1>12. DOMAIN g = 1..N + M /\ New(h, g) = N + 1..N + M
  BY <1>11, LenProperties DEF New, N
<1>13. \A id \in N + 1..N + M : id - N \in 1..M /\ N + (id - N) = id
  BY <1>2, <1>5
<1>14. ASSUME NEW id \in N + 1..N + M, NEW c \in DOMAIN g[id].cells, IsRef(g[id].cells[c])
       PROVE  g[id].cells[c].val \in N + 1..N + M
  <2>1. PICK k \in 1..M : id = N + k
    BY <1>13
  <2>2. g[id] = news[k] /\ DOMAIN news[k].cells = DOMAIN h[old[k]].cells
    BY <1>9, <1>11, <2>1
  <2> DEFINE w == h[old[k]].cells[c]
  <2>3. g[id].cells[c] = Moved(w) /\ w \in Values /\ (IsRef(w) => w.val \in R)
    BY <1>9, <1>14, <2>2
  <2> HIDE DEF w
  <2> QED BY <1>8, <1>14, <2>3
<1>15. Extends(h, g)
  <2>1. ASSUME NEW id \in DOMAIN g, NEW c \in DOMAIN g[id].cells PROVE In(g, g[id].cells[c])
    <3>1. CASE id \in 1..N
      <4>1. g[id] = h[id] /\ In(h, h[id].cells[c])
        BY <1>2, <1>11, <2>1, <3>1, HeapFacts
      <4>2. 1..N \subseteq DOMAIN g
        BY <1>2, <1>5, <1>12
      <4> QED BY <1>2, <4>1, <4>2 DEF In
    <3>2. CASE id \in N + 1..N + M
      <4>1. N + 1..N + M \subseteq DOMAIN g
        BY <1>2, <1>5, <1>12
      <4> QED BY <1>14, <3>2, <4>1 DEF In
    <3>3. id \in 1..N \/ id \in N + 1..N + M
      BY <1>2, <1>5, <1>12
    <3> QED BY <3>1, <3>2, <3>3
  <2>2. g \in Heaps
    BY <1>11, <2>1 DEF Heaps
  <2>3. Len(h) <= Len(g)
    BY <1>2, <1>5, <1>11 DEF N
  <2> QED BY <1>11, <1>12, <1>14, <2>2, <2>3 DEF Extends, N
<1>16. Fresh(h, g, Moved(v))
  BY <1>2, <1>8, <1>12 DEF Fresh
<1>17. /\ to \in [R -> New(h, g)]
       /\ \A i, j \in R : to[i] = to[j] => i = j
       /\ Moved(v) = Renamed(to, v)
  <2>1. \A i \in R : N + Place(i) \in N + 1..N + M
    BY <1>2, <1>5, <1>6
  <2>2. \A i, j \in R : N + Place(i) = N + Place(j) => Place(i) = Place(j)
    BY <1>2, <1>5, <1>6
  <2>3. \A i, j \in R : to[i] = to[j] => i = j
    BY <1>6, <2>2
  <2> QED BY <1>2, <1>8, <1>12, <2>1, <2>3
<1>18. ASSUME NEW i \in R
       PROVE  /\ g[to[i]].kind = h[i].kind
              /\ DOMAIN g[to[i]].cells = DOMAIN h[i].cells
              /\ \A c \in DOMAIN h[i].cells : g[to[i]].cells[c] = Renamed(to, h[i].cells[c])
  <2>1. Place(i) \in 1..M /\ old[Place(i)] = i /\ to[i] = N + Place(i)
    BY <1>6
  <2>2. g[to[i]] = news[Place(i)]
    BY <1>11, <2>1
  <2> HIDE DEF to
  <2>3. \A c \in DOMAIN h[i].cells : h[i].cells[c] \in Values /\ (IsRef(h[i].cells[c]) => h[i].cells[c].val \in R)
    BY <1>9, <2>1
  <2>4. \A c \in DOMAIN h[i].cells : Moved(h[i].cells[c]) = Renamed(to, h[i].cells[c])
    BY <1>8, <2>3 DEF to
  <2> QED BY <1>9, <2>1, <2>2, <2>4
<1> QED
  <2> HIDE DEF to
  <2>1. DeepCopy(h, v).heap = g /\ DeepCopy(h, v).value = Moved(v)
    BY <1>1
  <2> QED BY <1>15, <1>16, <1>17, <1>18, <2>1 DEF R

-----------------------------------------------------------------------------
(* Routes. *)

\* Values that stand for containers of S, if for any.
Holding(S) == {v \in Values : IsRef(v) => v.val \in S}

LEMMA RaisedFacts ==
  /\ Raised \in Values /\ ~IsRef(Raised) /\ Raised.sort = "raised"
  /\ \A S : Raised \in Holding(S)
BY ValueFacts DEF Raised, Holding

LEMMA StepStays ==
  ASSUME NEW h \in Heaps, NEW S, Closed(h, S), NEW v \in Holding(S), NEW segment
  PROVE  Step(h, v, segment) \in Holding(S)
<1>1. CASE Step(h, v, segment) = Raised
  BY <1>1, RaisedFacts
<1>2. CASE Step(h, v, segment) # Raised
  <2>1. IsRef(v) /\ v.val \in S /\ v.val \in DOMAIN h
    BY <1>2 DEF Step, Holding, Closed
  <2>2. segment.at \in DOMAIN h[v.val].cells /\ Step(h, v, segment) = h[v.val].cells[segment.at]
    BY <1>2, <2>1 DEF Step, Object
  <2> QED BY <2>1, <2>2, HeapFacts DEF Closed, Holding
<1> QED BY <1>1, <1>2

(* The values met on a route. *)
LEMMA DescendUnrolled ==
  ASSUME NEW h \in Heaps, NEW S, Closed(h, S), NEW v \in Holding(S), NEW route, Len(route) \in Nat
  PROVE  \E f \in [0..Len(route) -> Holding(S)] :
           /\ f[0] = v
           /\ \A n \in 1..Len(route) : f[n] = Step(h, f[n - 1], route[n])
           /\ Descend(h, v, route) = f[Len(route)]
<1> DEFINE N == Len(route)
           V == Holding(S)
           step == [n \in 1..N |-> [w \in V |-> Step(h, w, route[n])]]
           Is(f) == f = [n \in 0..N |-> IF n = 0 THEN v ELSE Step(h, f[n - 1], route[n])]
           at == CHOOSE f : Is(f)
<1>1. N \in Nat
  OBVIOUS
<1>2. \A w \in V : \A n \in 1..N : Step(h, w, route[n]) \in V
  BY StepStays
<1>3. Steps(step, V, N)
  BY <1>2 DEF Steps
<1>4. Descend(h, v, route) = at[N]
  BY Zenon DEF Descend
<1>5. v \in V
  OBVIOUS
<1> HIDE DEF N, V
<1>6. PICK f : Follows(f, V, N, v, step)
  <2> HIDE DEF step
  <2> QED BY <1>1, <1>3, <1>5, RecursionUpTo, Zenon
<1>7. f \in [0..N -> V] /\ f[0] = v /\ \A n \in 1..N : f[n] = Step(h, f[n - 1], route[n])
  <2>1. f \in [0..N -> V] /\ f[0] = v /\ \A n \in 1..N : f[n] = step[n][f[n - 1]]
    BY <1>6, Zenon DEF Follows
  <2>2. \A n \in 1..N : f[n - 1] \in V
    BY <1>1, <2>1
  <2> QED BY <2>1, <2>2
<1> HIDE DEF step
<1>8. Is([n \in 0..N |-> f[n]])
  <2> DEFINE g == [n \in 0..N |-> f[n]]
  <2>1. \A n \in 0..N : g[n] = f[n]
    OBVIOUS
  <2>2. g = [n \in 0..N |-> g[n]]
    OBVIOUS
  <2> HIDE DEF g
  <2>3. ASSUME NEW n \in 0..N PROVE g[n] = IF n = 0 THEN v ELSE Step(h, g[n - 1], route[n])
    <3>1. n # 0 => n \in 1..N /\ n - 1 \in 0..N
      BY <1>1
    <3> QED BY <1>7, <2>1, <3>1
  <2>4. g = [n \in 0..N |-> IF n = 0 THEN v ELSE Step(h, g[n - 1], route[n])]
    BY <2>2, <2>3
  <2> QED BY <2>4 DEF g
<1>9. Is(at)
  <2> HIDE DEF Is
  <2> QED BY <1>8
<1> HIDE DEF at
<1>10. at[0] = v /\ \A n \in 1..N : at[n] = Step(h, at[n - 1], route[n])
  <2>1. 0 \in 0..N /\ \A n \in 1..N : n # 0 /\ n \in 0..N
    BY <1>1
  <2> QED BY <1>9, <2>1
<1>11. at \in [0..N -> V]
  <2>1. at = [n \in 0..N |-> at[n]]
    BY <1>9
  <2>2. at[0] \in V /\ \A n \in 1..N : at[n - 1] \in V => at[n] \in V
    BY <1>2, <1>5, <1>10
  <2> HIDE DEF Is
  <2> QED BY <1>1, <2>1, <2>2, StaysUpTo
<1> QED
  BY <1>4, <1>10, <1>11 DEF N, V

(* A descent stays among the containers it started in, and ends one step further *)
(* for one segment more.                                                          *)
LEMMA DescendFacts ==
  ASSUME NEW h \in Heaps, NEW S, Closed(h, S), NEW v \in Holding(S), NEW route \in Seq(Segments)
  PROVE  /\ Descend(h, v, route) \in Holding(S)
         /\ Descend(h, v, <<>>) = v
         /\ \A segment \in Segments :
              Descend(h, v, Append(route, segment)) = Step(h, Descend(h, v, route), segment)
<1> DEFINE N == Len(route)
<1>1. N \in Nat
  BY LenProperties
<1>2. PICK f \in [0..N -> Holding(S)] :
        /\ f[0] = v
        /\ \A n \in 1..N : f[n] = Step(h, f[n - 1], route[n])
        /\ Descend(h, v, route) = f[N]
  BY <1>1, DescendUnrolled
<1>3. Descend(h, v, <<>>) = v
  <2>1. Len(<<>>) = 0
    OBVIOUS
  <2> QED BY <2>1, DescendUnrolled
<1>4. ASSUME NEW segment \in Segments
      PROVE  Descend(h, v, Append(route, segment)) = Step(h, Descend(h, v, route), segment)
  <2> DEFINE longer == Append(route, segment)
  <2>1. /\ Len(longer) = N + 1 /\ longer[N + 1] = segment
        /\ \A n \in 1..N : longer[n] = route[n]
    BY AppendProperties
  <2> HIDE DEF longer, N
  <2>2. N + 1 \in Nat
    BY <1>1
  <2>3. PICK g \in [0..N + 1 -> Holding(S)] :
          /\ g[0] = v
          /\ \A n \in 1..N + 1 : g[n] = Step(h, g[n - 1], longer[n])
          /\ Descend(h, v, longer) = g[N + 1]
    BY <2>1, <2>2, DescendUnrolled
  <2> DEFINE Good == {n \in 0..N : f[n] = g[n]}
  <2>4. 0 \in Good
    BY <1>1, <1>2, <2>3
  <2>5. ASSUME NEW n \in 1..N, n - 1 \in Good PROVE n \in Good
    <3>1. f[n - 1] = g[n - 1] /\ n \in 1..N + 1 /\ n \in 0..N
      BY <1>1, <2>5
    <3>2. f[n] = Step(h, f[n - 1], route[n]) /\ g[n] = Step(h, g[n - 1], longer[n]) /\ longer[n] = route[n]
      BY <1>2, <2>1, <2>3, <3>1
    <3> QED BY <3>1, <3>2
  <2> HIDE DEF Good
  <2>6. \A n \in 0..N : n \in Good
    BY <1>1, <2>4, <2>5, InductionFromZero
  <2>7. f[N] = g[N]
    BY <1>1, <2>6 DEF Good
  <2>8. g[N + 1] = Step(h, g[N], segment)
    <3>1. N + 1 \in 1..N + 1 /\ (N + 1) - 1 = N
      BY <1>1
    <3>2. g[N + 1] = Step(h, g[(N + 1) - 1], longer[N + 1])
      BY <2>3, <3>1
    <3> QED BY <2>1, <3>1, <3>2
  <2> QED BY <1>2, <2>3, <2>7, <2>8 DEF longer, N
<1>5. f[N] \in Holding(S)
  BY <1>1, <1>2
<1> QED
  BY <1>2, <1>3, <1>4, <1>5

(* A route that is not empty ends with a segment after its front. *)
LEMMA FrontFacts ==
  ASSUME NEW S, NEW s \in Seq(S), s # <<>>
  PROVE  /\ Front(s) \in Seq(S) /\ Len(Front(s)) = Len(s) - 1
         /\ \A i \in 1..Len(s) - 1 : Front(s)[i] = s[i]
<1> DEFINE N == Len(s)
<1>1. N \in Nat \ {0} /\ \A n \in 1..N : s[n] \in S
  BY EmptySeq, ElementOfSeq
<1>2. Front(s) = SubSeq(s, 1, N - 1)
  BY DEF Front
<1> HIDE DEF N
<1>3. 1 \in Int /\ N - 1 \in Int /\ \A i \in 1..N - 1 : s[i] \in S
  BY <1>1
<1>4. /\ SubSeq(s, 1, N - 1) \in Seq(S)
      /\ Len(SubSeq(s, 1, N - 1)) = IF 1 <= N - 1 THEN (N - 1) - 1 + 1 ELSE 0
      /\ \A i \in 1..(N - 1) - 1 + 1 : SubSeq(s, 1, N - 1)[i] = s[1 + i - 1]
  BY <1>3, SubSeqProperties
<1>5. (N - 1) - 1 + 1 = N - 1 /\ \A i \in 1..N - 1 : 1 + i - 1 = i
  BY <1>1
<1> QED BY <1>1, <1>2, <1>4, <1>5 DEF N

LEMMA RouteParts ==
  ASSUME NEW route \in Seq(Segments), route # <<>>
  PROVE  /\ Front(route) \in Seq(Segments) /\ Last(route) \in Segments
         /\ route = Append(Front(route), Last(route))
<1> DEFINE N == Len(route)
<1>1. N \in Nat \ {0} /\ \A n \in 1..N : route[n] \in Segments
  BY EmptySeq, ElementOfSeq
<1>2. Last(route) = route[N]
  BY DEF Last
<1>3. /\ Front(route) \in Seq(Segments) /\ Len(Front(route)) = N - 1
      /\ \A i \in 1..N - 1 : Front(route)[i] = route[i]
  BY FrontFacts
<1> HIDE DEF N
<1>4. Last(route) \in Segments
  BY <1>1, <1>2
<1>5. /\ Append(Front(route), Last(route)) \in Seq(Segments)
      /\ Len(Append(Front(route), Last(route))) = N
      /\ \A i \in 1..N : Append(Front(route), Last(route))[i] = route[i]
  <2>1. /\ Append(Front(route), Last(route)) \in Seq(Segments)
        /\ Len(Append(Front(route), Last(route))) = (N - 1) + 1
        /\ \A i \in 1..N - 1 : Append(Front(route), Last(route))[i] = Front(route)[i]
    BY <1>3, <1>4, AppendProperties
  <2>2. Append(Front(route), Last(route))[(N - 1) + 1] = Last(route)
    BY <1>3, <1>4
  <2>3. (N - 1) + 1 = N /\ \A i \in 1..N : i = N \/ i \in 1..N - 1
    BY <1>1
  <2> QED BY <1>2, <1>3, <2>1, <2>2, <2>3
<1> QED
  BY <1>3, <1>4, <1>5, SeqEqual DEF N

-----------------------------------------------------------------------------
(* The table. *)

\* What a walk of h comes to.
Items(h) == [value : Holding(DOMAIN h), route : Seq(Segments), seen : SUBSET DOMAIN h]

\* What a walk from v has come to after n turns: containers n deep, and primitives.
ItemsAt(h, v, n) ==
    {found \in Items(h) : /\ Descend(h, v, found.route) = found.value
                          /\ found.value.sort \in Sorts \/ Cardinality(found.seen) = n}

LEMMA WholeHeap ==
  ASSUME NEW h \in Heaps
  PROVE  /\ Closed(h, DOMAIN h)
         /\ \A v \in Values : v \in Holding(DOMAIN h) <=> In(h, v)
         /\ \A S \in SUBSET DOMAIN h : IsFiniteSet(S) /\ Cardinality(S) \in Nat /\ Cardinality(S) <= Len(h)
<1>1. Closed(h, DOMAIN h) /\ \A v \in Values : v \in Holding(DOMAIN h) <=> In(h, v)
  BY HeapFacts DEF Closed, Holding, In
<1> DEFINE N == Len(h)
<1>2. N \in Nat /\ DOMAIN h = 1..N
  BY HeapFacts
<1> HIDE DEF N
<1>3. 1 \in Int /\ N \in Int
  BY <1>2
<1>4. IsFiniteSet(1..N) /\ Cardinality(1..N) = IF 1 > N THEN 0 ELSE N - 1 + 1
  BY <1>3, FS_Interval, Zenon
<1>5. Cardinality(1..N) = N
  BY <1>2, <1>4
<1>6. \A S \in SUBSET (1..N) : IsFiniteSet(S) /\ Cardinality(S) \in Nat /\ Cardinality(S) <= N
  BY <1>4, <1>5, FS_Subset, FS_CardinalityType
<1> QED
  BY <1>1, <1>2, <1>6 DEF N

LEMMA EnteredItems ==
  ASSUME NEW h \in Heaps, NEW found \in Items(h)
  PROVE  Entered(h, found) \in Seq(Items(h))
<1> DEFINE x == found.value
<1>1. x \in Values /\ (IsRef(x) => x.val \in DOMAIN h) /\ found.route \in Seq(Segments) /\ found.seen \in SUBSET DOMAIN h
  BY DEF Items, Holding
<1>2. CASE x.sort \in Sorts
  BY <1>2 DEF Entered
<1>3. CASE x.sort \notin Sorts /\ (~IsRef(x) \/ x.val \in found.seen)
  BY <1>3 DEF Entered
<1>4. CASE x.sort \notin Sorts /\ IsRef(x) /\ x.val \notin found.seen
  <2> DEFINE o == h[x.val]
             L == Len(o.cells)
             Child(c) == [value |-> o.cells[c],
                          route |-> Append(found.route, [by |-> Access(o.kind), at |-> c]),
                          seen  |-> found.seen \cup {x.val}]
  <2>1. Entered(h, found) = [c \in DOMAIN o.cells |-> Child(c)]
    BY <1>4 DEF Entered, Children, Object
  <2>2. DOMAIN o.cells = 1..L /\ L \in Nat /\ \A c \in 1..L : o.cells[c] \in Values /\ In(h, o.cells[c])
    BY <1>1, <1>4, HeapFacts
  <2>3. x.val \in DOMAIN h
    BY <1>1, <1>4
  <2> HIDE DEF L, o
  <2>4. ASSUME NEW c \in 1..L PROVE Child(c) \in Items(h)
    <3>1. o.cells[c] \in Holding(DOMAIN h)
      BY <2>2, WholeHeap
    <3>2. [by |-> Access(o.kind), at |-> c] \in Segments
      BY <2>2 DEF Segments, Access
    <3>3. Append(found.route, [by |-> Access(o.kind), at |-> c]) \in Seq(Segments)
      BY <1>1, <3>2, AppendProperties
    <3>4. found.seen \cup {x.val} \in SUBSET DOMAIN h
      BY <1>1, <2>3
    <3> QED BY <3>1, <3>3, <3>4 DEF Items
  <2> HIDE DEF Child
  <2>5. [c \in 1..L |-> Child(c)] \in Seq(Items(h))
    BY <2>2, <2>4
  <2> QED BY <2>1, <2>2, <2>5
<1> QED BY <1>2, <1>3, <1>4

LEMMA EnteredOnRoute ==
  ASSUME NEW h \in Heaps, NEW v \in Values, In(h, v), IsCopyable(h, v),
         NEW n \in Nat, NEW found \in ItemsAt(h, v, n)
  PROVE  Entered(h, found) \in Seq(ItemsAt(h, v, n + 1))
<1> DEFINE x == found.value
<1>1. found \in Items(h) /\ Descend(h, v, found.route) = x
  BY DEF ItemsAt
<1>2. x \in Values /\ (IsRef(x) => x.val \in DOMAIN h) /\ found.route \in Seq(Segments) /\ found.seen \in SUBSET DOMAIN h
  BY <1>1 DEF Items, Holding
<1>3. CASE x.sort \in Sorts
  <2>1. Entered(h, found) = <<found>> /\ found \in ItemsAt(h, v, n + 1)
    BY <1>3 DEF Entered, ItemsAt
  <2> QED BY <2>1
<1>4. CASE x.sort \notin Sorts /\ (~IsRef(x) \/ x.val \in found.seen)
  <2>1. Entered(h, found) = <<>>
    BY <1>4 DEF Entered
  <2> QED BY <2>1
<1>5. CASE x.sort \notin Sorts /\ IsRef(x) /\ x.val \notin found.seen
  <2> DEFINE o == h[x.val]
             L == Len(o.cells)
  <2>1. Entered(h, found) \in Seq(Items(h))
    BY <1>1, EnteredItems
  <2>2. /\ DOMAIN Entered(h, found) = DOMAIN o.cells
        /\ \A c \in DOMAIN o.cells :
             /\ Entered(h, found)[c].value = o.cells[c]
             /\ Entered(h, found)[c].route = Append(found.route, [by |-> Access(o.kind), at |-> c])
             /\ Entered(h, found)[c].seen = found.seen \cup {x.val}
    BY <1>5 DEF Entered, Children, Object
  <2>3. DOMAIN o.cells = 1..L /\ L \in Nat
    BY <1>2, <1>5, HeapFacts
  <2>4. Closed(h, Reach(h, v)) /\ v \in Holding(Reach(h, v))
    BY ReachFacts DEF Holding
  <2>5. x \in Holding(Reach(h, v))
    BY <1>1, <1>2, <2>4, DescendFacts
  <2>6. o.kind # "opaque"
    BY <1>5, <2>5 DEF Holding, IsCopyable
  <2>7. Cardinality(found.seen \cup {x.val}) = n + 1
    <3>1. Cardinality(found.seen) = n /\ IsFiniteSet(found.seen)
      BY <1>2, <1>5, WholeHeap DEF ItemsAt
    <3> QED BY <1>5, <3>1, FS_AddElement
  <2>8. ASSUME NEW c \in 1..L PROVE Entered(h, found)[c] \in ItemsAt(h, v, n + 1)
    <3> DEFINE segment == [by |-> Access(o.kind), at |-> c]
               child == Entered(h, found)[c]
    <3>1. child \in Items(h) /\ child.value = o.cells[c] /\ child.route = Append(found.route, segment)
          /\ child.seen = found.seen \cup {x.val}
      <4>1. Len(Entered(h, found)) = L
        BY <2>1, <2>2, <2>3, LenProperties
      <4>2. Entered(h, found)[c] \in Items(h)
        BY <2>1, <4>1, ElementOfSeq
      <4> QED BY <2>2, <2>3, <4>2
    <3>2. segment \in Segments
      BY <2>3 DEF Segments, Access
    <3>3. Step(h, x, segment) = o.cells[c]
      BY <1>5, <2>3, <2>6 DEF Step, Object
    <3>4. Descend(h, v, Append(found.route, segment)) = Step(h, Descend(h, v, found.route), segment)
      BY <1>2, <2>4, <3>2, DescendFacts
    <3> HIDE DEF child, segment
    <3> QED BY <1>1, <2>7, <3>1, <3>3, <3>4 DEF ItemsAt, child
  <2>9. Len(Entered(h, found)) = L /\ Entered(h, found) = [c \in 1..L |-> Entered(h, found)[c]]
    BY <2>1, <2>2, <2>3, LenProperties
  <2> QED BY <2>3, <2>8, <2>9
<1> QED BY <1>3, <1>4, <1>5

LEMMA WalkUnrolled ==
  ASSUME NEW h \in Heaps, NEW v \in Values, In(h, v)
  PROVE  \E f \in [0..Len(h) + 1 -> Seq(Items(h))] :
           /\ f[0] = << [value |-> v, route |-> <<>>, seen |-> {}] >>
           /\ \A n \in 1..Len(h) + 1 :
                f[n] = FlattenSeq([i \in DOMAIN f[n - 1] |-> Entered(h, f[n - 1][i])])
           /\ Walk(h, v) = f[Len(h) + 1]
<1> DEFINE N == Len(h) + 1
           V == Seq(Items(h))
           Next1(s) == FlattenSeq([i \in DOMAIN s |-> Entered(h, s[i])])
           start == << [value |-> v, route |-> <<>>, seen |-> {}] >>
           step == [n \in 1..N |-> [s \in V |-> Next1(s)]]
           Is(f) == f = [n \in 0..N |-> IF n = 0 THEN start
                                        ELSE LET before == f[n - 1]
                                             IN  FlattenSeq([i \in DOMAIN before |-> Entered(h, before[i])])]
           walked == CHOOSE f : Is(f)
<1>1. N \in Nat
  BY HeapFacts
<1>2. ASSUME NEW s \in V PROVE Next1(s) \in V
  <2>1. DOMAIN s = 1..Len(s) /\ Len(s) \in Nat /\ \A i \in 1..Len(s) : s[i] \in Items(h)
    BY LenProperties, ElementOfSeq
  <2>2. \A i \in 1..Len(s) : Entered(h, s[i]) \in Seq(Items(h))
    BY <2>1, EnteredItems
  <2>3. [i \in 1..Len(s) |-> Entered(h, s[i])] \in Seq(Seq(Items(h)))
    BY <2>1, <2>2
  <2> QED BY <2>1, <2>3, Flattened
<1>3. start \in V
  <2>1. v \in Holding(DOMAIN h)
    BY WholeHeap
  <2>2. [value |-> v, route |-> <<>>, seen |-> {}] \in Items(h)
    BY <2>1 DEF Items
  <2> QED BY <2>2
<1>4. Walk(h, v) = walked[N]
  BY Zenon DEF Walk
<1> HIDE DEF N, start, V, Next1
<1>5. Steps(step, V, N)
  BY <1>2 DEF Steps
<1>6. PICK f : Follows(f, V, N, start, step)
  <2> HIDE DEF step
  <2> QED BY <1>1, <1>3, <1>5, RecursionUpTo, Zenon
<1>7. f \in [0..N -> V] /\ f[0] = start /\ \A n \in 1..N : f[n] = Next1(f[n - 1])
  <2>1. f \in [0..N -> V] /\ f[0] = start /\ \A n \in 1..N : f[n] = step[n][f[n - 1]]
    BY <1>6, Zenon DEF Follows
  <2>2. \A n \in 1..N : f[n - 1] \in V
    BY <1>1, <2>1
  <2> QED BY <2>1, <2>2
<1> HIDE DEF step
<1>8. \A f1 : Is(f1) <=> f1 = [n \in 0..N |-> IF n = 0 THEN start ELSE Next1(f1[n - 1])]
  BY DEF Next1
<1> HIDE DEF Is
<1>9. Is([n \in 0..N |-> f[n]])
  <2> DEFINE g == [n \in 0..N |-> f[n]]
  <2>1. \A n \in 0..N : g[n] = f[n]
    OBVIOUS
  <2>2. g = [n \in 0..N |-> g[n]]
    OBVIOUS
  <2> HIDE DEF g
  <2>3. ASSUME NEW n \in 0..N PROVE g[n] = IF n = 0 THEN start ELSE Next1(g[n - 1])
    <3>1. n # 0 => n \in 1..N /\ n - 1 \in 0..N
      BY <1>1
    <3> QED BY <1>7, <2>1, <3>1
  <2>4. g = [n \in 0..N |-> IF n = 0 THEN start ELSE Next1(g[n - 1])]
    BY <2>2, <2>3
  <2> QED BY <1>8, <2>4 DEF g
<1>10. walked = [n \in 0..N |-> IF n = 0 THEN start ELSE Next1(walked[n - 1])]
  BY <1>8, <1>9
<1> HIDE DEF walked
<1>11. walked[0] = start /\ \A n \in 1..N : walked[n] = Next1(walked[n - 1])
  <2>1. 0 \in 0..N /\ \A n \in 1..N : n # 0 /\ n \in 0..N
    BY <1>1
  <2> QED BY <1>10, <2>1
<1>12. walked \in [0..N -> V]
  <2>1. walked = [n \in 0..N |-> walked[n]]
    BY <1>10
  <2>2. walked[0] \in V /\ \A n \in 1..N : walked[n - 1] \in V => walked[n] \in V
    BY <1>2, <1>3, <1>11
  <2> QED BY <1>1, <2>1, <2>2, StaysUpTo
<1> QED
  BY <1>4, <1>11, <1>12 DEF N, V, start, Next1

(* A walk comes to primitives, each at the end of its route. *)
LEMMA WalkFacts ==
  ASSUME NEW h \in Heaps, NEW v \in Values, In(h, v), IsCopyable(h, v)
  PROVE  /\ Walk(h, v) \in Seq(Items(h))
         /\ \A i \in 1..Len(Walk(h, v)) :
              LET found == Walk(h, v)[i]
              IN  /\ found.route \in Seq(Segments)
                  /\ found.value.sort \in Sorts
                  /\ Descend(h, v, found.route) = found.value
<1> DEFINE N == Len(h) + 1
<1>1. N \in Nat /\ Len(h) \in Nat
  BY HeapFacts
<1>2. PICK f \in [0..N -> Seq(Items(h))] :
        /\ f[0] = << [value |-> v, route |-> <<>>, seen |-> {}] >>
        /\ \A n \in 1..N : f[n] = FlattenSeq([i \in DOMAIN f[n - 1] |-> Entered(h, f[n - 1][i])])
        /\ Walk(h, v) = f[N]
  BY WalkUnrolled
<1> HIDE DEF N
<1> DEFINE Good == {n \in 0..N : f[n] \in Seq(ItemsAt(h, v, n))}
<1>3. 0 \in Good
  <2> DEFINE start == [value |-> v, route |-> <<>>, seen |-> {}]
  <2>1. v \in Holding(DOMAIN h) /\ Closed(h, DOMAIN h)
    BY WholeHeap
  <2>2. Descend(h, v, <<>>) = v
    <3>1. <<>> \in Seq(Segments)
      OBVIOUS
    <3> QED BY <2>1, <3>1, DescendFacts
  <2>3. Cardinality({}) = 0
    BY FS_EmptySet
  <2>4. start \in ItemsAt(h, v, 0)
    BY <2>1, <2>2, <2>3 DEF Items, ItemsAt
  <2> HIDE DEF start
  <2>5. <<start>> \in Seq(ItemsAt(h, v, 0))
    BY <2>4
  <2>6. f[0] \in Seq(ItemsAt(h, v, 0))
    BY <1>2, <2>5 DEF start
  <2>7. 0 \in 0..N
    BY <1>1
  <2> QED BY <2>6, <2>7
<1>4. ASSUME NEW n \in 1..N, n - 1 \in Good PROVE n \in Good
  <2> DEFINE s == f[n - 1]
             T == ItemsAt(h, v, n)
  <2>1. s \in Seq(ItemsAt(h, v, n - 1)) /\ n - 1 \in Nat /\ (n - 1) + 1 = n
    BY <1>1, <1>4
  <2>2. f[n] = FlattenSeq([i \in DOMAIN s |-> Entered(h, s[i])])
    BY <1>2
  <2> HIDE DEF s
  <2>3. DOMAIN s = 1..Len(s) /\ Len(s) \in Nat /\ \A i \in 1..Len(s) : s[i] \in ItemsAt(h, v, n - 1)
    BY <2>1, LenProperties, ElementOfSeq
  <2>4. \A i \in 1..Len(s) : Entered(h, s[i]) \in Seq(T)
    BY <2>1, <2>3, EnteredOnRoute
  <2> HIDE DEF T
  <2>5. [i \in 1..Len(s) |-> Entered(h, s[i])] \in Seq(Seq(T))
    BY <2>3, <2>4
  <2>6. f[n] \in Seq(T)
    <3>1. FlattenSeq([i \in 1..Len(s) |-> Entered(h, s[i])]) \in Seq(T)
      BY <2>5, Flattened
    <3> QED BY <2>2, <2>3, <3>1
  <2> QED BY <1>1, <2>6 DEF T
<1> HIDE DEF Good
<1>5. \A n \in 0..N : n \in Good
  BY <1>1, <1>3, <1>4, InductionFromZero
<1>6. f[N] \in Seq(ItemsAt(h, v, N))
  BY <1>1, <1>5 DEF Good
<1>7. ASSUME NEW i \in 1..Len(f[N])
      PROVE  /\ f[N][i].route \in Seq(Segments)
             /\ f[N][i].value.sort \in Sorts
             /\ Descend(h, v, f[N][i].route) = f[N][i].value
  <2> DEFINE found == f[N][i]
  <2>1. found \in ItemsAt(h, v, N)
    BY <1>6, ElementOfSeq
  <2> HIDE DEF found
  <2>2. found.seen \in SUBSET DOMAIN h /\ found.route \in Seq(Segments)
    BY <2>1 DEF ItemsAt, Items
  <2>3. Cardinality(found.seen) # N
    BY <1>1, <2>2, WholeHeap DEF N
  <2> QED BY <2>1, <2>2, <2>3 DEF ItemsAt, found
<1>8. f[N] \in Seq(Items(h))
  BY <1>1, <1>2
<1> QED
  BY <1>2, <1>7, <1>8

\* Nothing is wrapped.
Unnamed(h, args) ==
    /\ \A id \in DOMAIN h : \A c \in DOMAIN h[id].cells : h[id].cells[c].sym = NoSymbol
    /\ \A p \in DOMAIN args : args[p].sym = NoSymbol

\* Then nothing is wrapped wherever a route comes to.
LEMMA DescendUnnamed ==
  ASSUME NEW h \in Heaps, NEW args, GivenIn(h, args), Unnamed(h, args), NEW p \in DOMAIN args,
         NEW route \in Seq(Segments)
  PROVE  Descend(h, args[p], route).sym = NoSymbol
<1> DEFINE N == Len(route)
           v == args[p]
<1>1. Closed(h, DOMAIN h) /\ v \in Holding(DOMAIN h) /\ v.sym = NoSymbol /\ N \in Nat
  BY WholeHeap, LenProperties DEF GivenIn, Unnamed
<1> HIDE DEF v
<1>2. PICK f \in [0..N -> Holding(DOMAIN h)] :
        /\ f[0] = v
        /\ \A n \in 1..N : f[n] = Step(h, f[n - 1], route[n])
        /\ Descend(h, v, route) = f[N]
  BY <1>1, DescendUnrolled
<1> DEFINE Good == {n \in 0..N : f[n].sym = NoSymbol}
<1>3. 0 \in Good
  BY <1>1, <1>2
<1>4. ASSUME NEW n \in 1..N, n - 1 \in Good PROVE n \in Good
  <2>1. n \in 0..N /\ n - 1 \in 0..N /\ f[n - 1] \in Holding(DOMAIN h)
    BY <1>1, <1>2
  <2> DEFINE u == f[n - 1]
             segment == route[n]
  <2>2. f[n] = Step(h, u, segment) /\ u \in Holding(DOMAIN h)
    BY <1>2, <2>1
  <2> HIDE DEF u, segment
  <2>3. Step(h, u, segment).sym = NoSymbol
    <3>1. Raised.sym = NoSymbol
      BY DEF Raised, Value
    <3>2. CASE Step(h, u, segment) = Raised
      BY <3>1, <3>2
    <3>3. CASE Step(h, u, segment) # Raised
      BY <2>2, <3>3 DEF Step, Object, Holding, Unnamed
    <3> QED BY <3>2, <3>3
  <2> QED BY <2>1, <2>2, <2>3
<1> HIDE DEF Good, N
<1>5. \A n \in 0..N : n \in Good
  BY <1>1, <1>3, <1>4, InductionFromZero
<1>6. N \in Good
  BY <1>1, <1>5
<1> QED BY <1>2, <1>6 DEF Good, N, v

\* Places of primitives in args that can be written on a copy.
Leaves(h, args) ==
    {leaf \in [param : Names, route : Seq(Segments), sort : Sorts] :
       /\ leaf.param \in DOMAIN args
       /\ \E i \in 1..Len(Signature) : Signature[i].name = leaf.param
       /\ IsCopyable(h, args[leaf.param])
       /\ Descend(h, args[leaf.param], leaf.route).sort = leaf.sort
       /\ Descend(h, args[leaf.param], leaf.route).sym = NoSymbol}

LEMMA SignatureFacts ==
  /\ Len(Signature) \in Nat
  /\ \A i \in 1..Len(Signature) : Signature[i].name \in Names
  /\ \A i, j \in 1..Len(Signature) : Signature[i].name = Signature[j].name => i = j
BY BindingAssumption

LEMMA LeavesOfFacts ==
  ASSUME NEW h \in Heaps, NEW args, GivenIn(h, args), Unnamed(h, args),
         NEW p \in DOMAIN args, NEW i \in 1..Len(Signature), Signature[i].name = p,
         IsCopyable(h, args[p])
  PROVE  LeavesOf(h, p, args[p]) \in Seq(Leaves(h, args))
<1> DEFINE v == args[p]
           found == Walk(h, v)
           N == Len(found)
           Leaf1(k) == [param |-> p, route |-> found[k].route, sort |-> found[k].value.sort]
<1>1. p \in Names /\ v \in Values /\ In(h, v)
  BY SignatureFacts DEF GivenIn
<1>2. found \in Seq(Items(h)) /\ DOMAIN found = 1..N /\ N \in Nat
  BY <1>1, WalkFacts, LenProperties
<1>3. \A k \in 1..N : /\ found[k].route \in Seq(Segments)
                       /\ found[k].value.sort \in Sorts
                       /\ Descend(h, v, found[k].route) = found[k].value
  BY <1>1, WalkFacts
<1>4. LeavesOf(h, p, v) = [k \in 1..N |-> Leaf1(k)]
  BY <1>2 DEF LeavesOf
<1>5. p \in DOMAIN args
  OBVIOUS
<1> HIDE DEF found, N, v
<1>6. ASSUME NEW k \in 1..N PROVE Leaf1(k) \in Leaves(h, args)
  <2> DEFINE l == Leaf1(k)
  <2>1. l.param = p /\ l.route = found[k].route /\ l.sort = found[k].value.sort
    OBVIOUS
  <2>2. l \in [param : Names, route : Seq(Segments), sort : Sorts]
    BY <1>1, <1>3
  <2>3. Descend(h, args[l.param], l.route).sort = l.sort
    BY <1>3, <2>1 DEF v
  <2>4. \E j \in 1..Len(Signature) : Signature[j].name = l.param
    BY <2>1
  <2>5. IsCopyable(h, args[l.param])
    BY <2>1
  <2>6. Descend(h, args[l.param], l.route).sym = NoSymbol
    BY <1>3, <2>1, DescendUnnamed
  <2> HIDE DEF l
  <2>7. l \in Leaves(h, args)
    BY <1>5, <2>1, <2>2, <2>3, <2>4, <2>5, <2>6 DEF Leaves
  <2> QED BY <2>7 DEF l
<1> HIDE DEF Leaf1
<1>7. [k \in 1..N |-> Leaf1(k)] \in Seq(Leaves(h, args))
  BY <1>2, <1>6
<1> QED BY <1>4, <1>7 DEF v

\* The names of args, in some order.
Ordered(args, order) ==
    /\ Len(order) \in Nat /\ DOMAIN order = 1..Len(order)
    /\ \A n \in 1..Len(order) :
         order[n] \in DOMAIN args /\ \E i \in 1..Len(Signature) : Signature[i].name = order[n]

(* Every place in the table is one of a primitive of its sort. *)
LEMMA BindingFacts ==
  ASSUME NEW h \in Heaps, NEW args, GivenIn(h, args), Unnamed(h, args),
         NEW order, Ordered(args, order)
  PROVE  BuildBinding(h, args, order) \in Seq(Leaves(h, args))
<1> DEFINE N == Len(order)
           T == Leaves(h, args)
           Piece(n) == LET p == order[n]
                       IN  IF IsCopyable(h, args[p]) THEN LeavesOf(h, p, args[p]) ELSE <<>>
<1>1. N \in Nat
  BY DEF Ordered
<1>2. ASSUME NEW n \in 1..N PROVE Piece(n) \in Seq(T)
  <2>1. order[n] \in DOMAIN args /\ \E i \in 1..Len(Signature) : Signature[i].name = order[n]
    BY DEF Ordered
  <2>2. CASE IsCopyable(h, args[order[n]])
    BY <2>1, <2>2, LeavesOfFacts
  <2>3. CASE ~IsCopyable(h, args[order[n]])
    <3>1. Piece(n) = <<>>
      BY <2>3
    <3>2. <<>> \in Seq(T)
      OBVIOUS
    <3> HIDE DEF Piece, T
    <3> QED BY <3>1, <3>2, Zenon
  <2> QED BY <2>2, <2>3
<1>3. BuildBinding(h, args, order) = FlattenSeq([n \in 1..N |-> Piece(n)])
  BY DEF BuildBinding
<1> HIDE DEF N, T, Piece
<1>4. [n \in 1..N |-> Piece(n)] \in Seq(Seq(T))
  BY <1>1, <1>2
<1>5. FlattenSeq([n \in 1..N |-> Piece(n)]) \in Seq(T)
  BY <1>4, Flattened
<1> QED BY <1>3, <1>5 DEF T

-----------------------------------------------------------------------------
(* Copies of the parameters with leaves. *)

LEMMA ExtendsFacts ==
  ASSUME NEW h \in Heaps, NEW g, Extends(h, g)
  PROVE  /\ g \in Heaps /\ Len(h) \in Nat /\ Len(g) \in Nat /\ Len(h) <= Len(g)
         /\ DOMAIN h = 1..Len(h) /\ DOMAIN g = 1..Len(g)
         /\ \A i \in DOMAIN h : i \in DOMAIN g /\ g[i] = h[i]
         /\ \A i \in New(h, g) : i \in DOMAIN g /\ i \notin DOMAIN h
         /\ \A i \in DOMAIN g : i \in DOMAIN h \/ i \in New(h, g)
         /\ Closed(g, New(h, g))
         /\ \A v : In(h, v) => In(g, v)
<1>1. /\ g \in Heaps /\ Len(h) \in Nat /\ Len(g) \in Nat /\ Len(h) <= Len(g)
      /\ DOMAIN h = 1..Len(h) /\ DOMAIN g = 1..Len(g)
  BY HeapFacts DEF Extends
<1>2. /\ \A i \in DOMAIN h : i \in DOMAIN g /\ g[i] = h[i]
      /\ \A i \in New(h, g) : i \in DOMAIN g /\ i \notin DOMAIN h
      /\ \A i \in DOMAIN g : i \in DOMAIN h \/ i \in New(h, g)
  BY <1>1 DEF Extends, New
<1> QED
  BY <1>1, <1>2 DEF Closed, Extends, In

LEMMA ExtendsRefl ==
  ASSUME NEW h \in Heaps
  PROVE  Extends(h, h) /\ New(h, h) = {}
BY HeapFacts DEF Extends, New

LEMMA ExtendsTrans ==
  ASSUME NEW h \in Heaps, NEW g, NEW k, Extends(h, g), Extends(g, k)
  PROVE  Extends(h, k) /\ New(h, g) \subseteq New(h, k) /\ New(g, k) \subseteq New(h, k)
                       /\ New(h, g) \cap New(g, k) = {}
<1>1. /\ g \in Heaps /\ k \in Heaps /\ Len(h) \in Nat /\ Len(g) \in Nat /\ Len(k) \in Nat
      /\ Len(h) <= Len(g) /\ Len(g) <= Len(k)
  BY HeapFacts DEF Extends
<1>2. /\ New(h, g) \subseteq New(h, k) /\ New(g, k) \subseteq New(h, k) /\ New(h, g) \cap New(g, k) = {}
      /\ \A i \in New(h, k) : i \in New(h, g) \/ i \in New(g, k)
      /\ \A i \in New(h, g) : i \in 1..Len(g)
      /\ \A i \in 1..Len(h) : i \in 1..Len(g)
  BY <1>1 DEF New
<1>3. ASSUME NEW i \in New(h, k), NEW c \in DOMAIN k[i].cells, IsRef(k[i].cells[c])
      PROVE  k[i].cells[c].val \in New(h, k)
  BY <1>2, <1>3 DEF Extends
<1>4. \A i \in 1..Len(h) : k[i] = h[i]
  BY <1>2 DEF Extends
<1> QED
  BY <1>1, <1>2, <1>3, <1>4 DEF Extends

(* What the containers of h reach is the same in a heap that has grown. *)
LEMMA ReachSame ==
  ASSUME NEW h \in Heaps, NEW g \in Heaps, NEW v, NEW S, Closed(h, S), IsRef(v) => v.val \in S,
         S \subseteq DOMAIN g, \A i \in S : g[i] = h[i]
  PROVE  Reach(g, v) = Reach(h, v) /\ In(h, v) /\ In(g, v)
<1>1. In(h, v) /\ In(g, v)
  BY DEF In, Closed
<1>2. Closed(h, Reach(h, v)) /\ Reach(h, v) \subseteq S /\ (IsRef(v) => v.val \in Reach(h, v))
  BY <1>1, ReachFacts
<1>3. Closed(g, Reach(h, v))
  BY <1>2 DEF Closed
<1>4. Reach(g, v) \subseteq Reach(h, v)
  BY <1>1, <1>2, <1>3, ReachFacts
<1>5. Closed(g, Reach(g, v)) /\ (IsRef(v) => v.val \in Reach(g, v))
  BY <1>1, ReachFacts
<1>6. Closed(h, Reach(g, v))
  BY <1>2, <1>4, <1>5 DEF Closed
<1>7. Reach(h, v) \subseteq Reach(g, v)
  BY <1>1, <1>5, <1>6, ReachFacts
<1> QED BY <1>1, <1>4, <1>7

\* A heap and arguments with containers in it.
States(ns) ==
    {at \in [heap : Heaps, args : [ns -> Values]] : \A p \in ns : In(at.heap, at.args[p])}

Places(h, args, ps) == {x \in ps \X DOMAIN h : x[2] \in Reach(h, args[x[1]])}

\* The parameter p moved by a copy.
Moved(to, p, v) == IF IsRef(v) THEN Ref(to[<<p, v.val>>]) ELSE v

\* at has copies of the parameters ps of args, none of which shares a container with
\* another.
CopiedTo(h, args, ps, at, to) ==
    /\ to \in [Places(h, args, ps) -> New(h, at.heap)]
    /\ \A x, y \in Places(h, args, ps) : to[x] = to[y] => x = y
    /\ \A x \in Places(h, args, ps) :
         /\ at.heap[to[x]].kind = h[x[2]].kind
         /\ DOMAIN at.heap[to[x]].cells = DOMAIN h[x[2]].cells
         /\ \A c \in DOMAIN h[x[2]].cells : at.heap[to[x]].cells[c] = Moved(to, x[1], h[x[2]].cells[c])
    /\ \A p \in ps : at.args[p] = Moved(to, p, args[p])

Copied(h, args, ps, at) ==
    /\ at \in States(DOMAIN args)
    /\ Extends(h, at.heap)
    /\ \A p \in DOMAIN args \ ps : at.args[p] = args[p]
    /\ \A p \in ps : Fresh(h, at.heap, at.args[p])
    /\ \E to : CopiedTo(h, args, ps, at, to)

LEMMA CopyParameterType ==
  ASSUME NEW ns, NEW at \in States(ns) \cup {Raised}, NEW p
  PROVE  CopyParameter(at, p) \in States(ns) \cup {Raised}
<1>1. CASE CopyParameter(at, p) \in {at, Raised}
  BY <1>1
<1>2. CASE CopyParameter(at, p) \notin {at, Raised}
  <2> DEFINE d == DeepCopy(at.heap, at.args[p])
             r == [heap |-> d.heap, args |-> [at.args EXCEPT ![p] = d.value]]
  <2>1. at # Raised /\ p \in DOMAIN at.args /\ CopyParameter(at, p) = r
    BY <1>2 DEF CopyParameter
  <2>2. /\ at.heap \in Heaps /\ at.args \in [ns -> Values] /\ DOMAIN at.args = ns
        /\ \A q \in ns : In(at.heap, at.args[q])
    BY <2>1 DEF States
  <2>3. at.args[p] \in Values /\ In(at.heap, at.args[p]) /\ p \in ns
    BY <2>1, <2>2
  <2>4. Extends(at.heap, d.heap) /\ Fresh(at.heap, d.heap, d.value)
    BY <2>2, <2>3, DeepCopyFacts
  <2> HIDE DEF d
  <2>5. d.heap \in Heaps /\ \A q \in ns : In(d.heap, at.args[q])
    BY <2>2, <2>4, ExtendsFacts
  <2>6. d.value \in Values /\ In(d.heap, d.value)
    BY <2>2, <2>4, ExtendsFacts DEF Fresh, In
  <2>7. r.args \in [ns -> Values] /\ \A q \in ns : r.args[q] = IF q = p THEN d.value ELSE at.args[q]
    BY <2>2, <2>6
  <2>8. r \in States(ns)
    BY <2>5, <2>6, <2>7 DEF States
  <2> QED BY <2>1, <2>8
<1> QED BY <1>1, <1>2

LEMMA CopyParameterFacts ==
  ASSUME NEW h \in Heaps, NEW args, GivenIn(h, args), NEW ps \in SUBSET DOMAIN args,
         NEW at, Copied(h, args, ps, at), NEW p, p \notin ps,
         CopyParameter(at, p) # Raised
  PROVE  Copied(h, args, ps \cup ({p} \cap Touched \cap DOMAIN args), CopyParameter(at, p))
<1>1. /\ at \in States(DOMAIN args) /\ Extends(h, at.heap)
      /\ at.heap \in Heaps /\ DOMAIN at.args = DOMAIN args
      /\ \A q \in DOMAIN args : at.args[q] \in Values /\ In(at.heap, at.args[q])
  BY DEF Copied, States
<1>2. at # Raised
  BY DEF CopyParameter
<1>3. CASE p \notin Touched \cap DOMAIN args
  <2>1. CopyParameter(at, p) = at
    BY <1>1, <1>3 DEF CopyParameter
  <2>2. ps \cup ({p} \cap Touched \cap DOMAIN args) = ps
    BY <1>3
  <2> QED BY <2>1, <2>2
<1>4. CASE p \in Touched \cap DOMAIN args
  <2> DEFINE g == at.heap
             v == args[p]
             d == DeepCopy(g, v)
             k == d.heap
             r == [heap |-> k, args |-> [at.args EXCEPT ![p] = d.value]]
             qs == ps \cup {p}
  <2>1. at.args[p] = v /\ v \in Values /\ In(h, v) /\ In(g, v)
    BY <1>1, <1>4 DEF Copied, GivenIn
  <2>2. CopyParameter(at, p) = r
    BY <1>1, <1>2, <1>4, <2>1 DEF CopyParameter
  <2>3. ps \cup ({p} \cap Touched \cap DOMAIN args) = qs
    BY <1>4
  <2>4. Extends(g, k) /\ Fresh(g, k, d.value)
    BY <1>1, <2>1, DeepCopyFacts
  <2>5. PICK own \in [Reach(g, v) -> New(g, k)] :
          /\ \A i, j \in Reach(g, v) : own[i] = own[j] => i = j
          /\ \A i \in Reach(g, v) :
               /\ k[own[i]].kind = g[i].kind
               /\ DOMAIN k[own[i]].cells = DOMAIN g[i].cells
               /\ \A c \in DOMAIN g[i].cells : k[own[i]].cells[c] = Renamed(own, g[i].cells[c])
          /\ d.value = Renamed(own, v)
    BY <1>1, <2>1, DeepCopyFacts
  <2> HIDE DEF d
  <2>6. /\ Extends(h, k) /\ New(h, g) \subseteq New(h, k) /\ New(g, k) \subseteq New(h, k)
        /\ New(h, g) \cap New(g, k) = {}
    BY <1>1, <2>4, ExtendsTrans
  <2>7. \A i \in New(h, g) : i \in DOMAIN g /\ k[i] = g[i]
    BY <1>1, <2>4, ExtendsFacts
  <2>8. \A i \in DOMAIN h : i \in DOMAIN g /\ g[i] = h[i]
    BY <1>1, ExtendsFacts
  <2>9. Reach(g, v) = Reach(h, v)
    <3>1. Closed(h, DOMAIN h) /\ (IsRef(v) => v.val \in DOMAIN h) /\ DOMAIN h \subseteq DOMAIN g
      BY <2>1, <2>8, WholeHeap DEF In
    <3> QED BY <1>1, <2>8, <3>1, ReachSame
  <2>10. Closed(h, Reach(h, v)) /\ Reach(h, v) \subseteq DOMAIN h /\ (IsRef(v) => v.val \in Reach(h, v))
    BY <2>1, ReachFacts DEF Closed
  <2>11. r \in States(DOMAIN args)
    BY <1>1, <2>2, CopyParameterType
  <2>12. /\ r.heap = k /\ r.args[p] = d.value
         /\ \A q \in DOMAIN args : q # p => r.args[q] = at.args[q]
    BY <1>1, <1>4
  <2> HIDE DEF g, k, r
  <2>13. \A q \in DOMAIN args \ qs : r.args[q] = args[q]
    BY <2>12 DEF Copied
  <2>14. \A q \in qs : Fresh(h, k, r.args[q])
    BY <2>4, <2>6, <2>12 DEF Copied, Fresh, g
  <2>15. PICK to : CopiedTo(h, args, ps, at, to)
    BY DEF Copied
  <2> DEFINE P == Places(h, args, ps)
             Q == Places(h, args, qs)
             both == [x \in Q |-> IF x[1] = p THEN own[x[2]] ELSE to[x]]
  <2>16. /\ to \in [P -> New(h, g)]
         /\ \A x, y \in P : to[x] = to[y] => x = y
         /\ \A x \in P : /\ g[to[x]].kind = h[x[2]].kind
                          /\ DOMAIN g[to[x]].cells = DOMAIN h[x[2]].cells
                          /\ \A c \in DOMAIN h[x[2]].cells : g[to[x]].cells[c] = Moved(to, x[1], h[x[2]].cells[c])
         /\ \A q \in ps : at.args[q] = Moved(to, q, args[q])
    BY <2>15 DEF CopiedTo, g
  <2>17. ASSUME NEW x \in Q
         PROVE  /\ x[1] = p => x = <<p, x[2]>> /\ x[2] \in Reach(h, v)
                /\ x[1] # p => x \in P
    <3>1. x \in qs \X DOMAIN h /\ x[2] \in Reach(h, args[x[1]])
      BY DEF Places
    <3>2. x = <<x[1], x[2]>>
      BY <3>1
    <3>3. x[1] # p => x \in ps \X DOMAIN h
      BY <3>1
    <3> QED BY <3>1, <3>2, <3>3 DEF Places
  <2>18. /\ \A i \in Reach(h, v) : <<p, i>> \in Q
         /\ \A x \in P : x \in Q /\ x[1] # p
    BY <2>10 DEF Places
  <2> HIDE DEF P, Q, v
  <2>19. /\ \A i \in Reach(h, v) : both[<<p, i>>] = own[i]
         /\ \A x \in P : both[x] = to[x]
    BY <2>18
  <2> HIDE DEF both
  <2>20. both \in [Q -> New(h, k)]
    <3>1. \A x \in Q : both[x] \in New(h, k)
      BY <2>5, <2>6, <2>9, <2>16, <2>17, <2>19
    <3>2. both = [x \in Q |-> both[x]]
      BY DEF both
    <3> QED BY <3>1, <3>2
  <2>21. ASSUME NEW x \in Q, NEW y \in Q, both[x] = both[y] PROVE x = y
    <3>1. CASE x[1] = p /\ y[1] = p
      <4>1. own[x[2]] = own[y[2]] /\ x[2] \in Reach(g, v) /\ y[2] \in Reach(g, v)
        BY <2>9, <2>17, <2>19, <2>21, <3>1
      <4> QED BY <2>5, <2>17, <3>1, <4>1
    <3>2. CASE x[1] # p /\ y[1] # p
      BY <2>16, <2>17, <2>19, <2>21, <3>2
    <3>3. ASSUME NEW a \in Q, NEW b \in Q, a[1] = p, b[1] # p PROVE both[a] # both[b]
      <4>1. both[a] \in New(g, k)
        BY <2>5, <2>9, <2>17, <2>19, <3>3
      <4>2. both[b] \in New(h, g)
        BY <2>16, <2>17, <2>19, <3>3
      <4> QED BY <2>6, <4>1, <4>2
    <3> QED BY <2>21, <3>1, <3>2, <3>3
  <2>22. ASSUME NEW x \in Q
         PROVE  /\ k[both[x]].kind = h[x[2]].kind
                /\ DOMAIN k[both[x]].cells = DOMAIN h[x[2]].cells
                /\ \A c \in DOMAIN h[x[2]].cells : k[both[x]].cells[c] = Moved(both, x[1], h[x[2]].cells[c])
    <3> DEFINE i == x[2]
    <3>1. CASE x[1] = p
      <4>1. i \in Reach(h, v) /\ both[x] = own[i] /\ g[i] = h[i]
        BY <2>8, <2>10, <2>17, <2>19, <3>1
      <4>2. /\ k[both[x]].kind = h[i].kind
            /\ DOMAIN k[both[x]].cells = DOMAIN h[i].cells
            /\ \A c \in DOMAIN h[i].cells : k[both[x]].cells[c] = Renamed(own, h[i].cells[c])
        BY <2>5, <2>9, <4>1
      <4>3. \A c \in DOMAIN h[i].cells : IsRef(h[i].cells[c]) => h[i].cells[c].val \in Reach(h, v)
        BY <2>10, <4>1 DEF Closed
      <4>4. \A c \in DOMAIN h[i].cells : Renamed(own, h[i].cells[c]) = Moved(both, p, h[i].cells[c])
        BY <2>19, <4>3 DEF Renamed, Moved
      <4> QED BY <3>1, <4>2, <4>4
    <3>2. CASE x[1] # p
      <4>1. x \in P /\ both[x] = to[x] /\ k[to[x]] = g[to[x]]
        BY <2>7, <2>16, <2>17, <2>19, <3>2
      <4>2. \A c \in DOMAIN h[i].cells : IsRef(h[i].cells[c]) => <<x[1], h[i].cells[c].val>> \in P
        <5>1. x[1] \in ps /\ i \in Reach(h, args[x[1]]) /\ i \in DOMAIN h
          BY <4>1 DEF P, Places
        <5>2. Closed(h, Reach(h, args[x[1]]))
          BY <5>1, ReachFacts DEF GivenIn
        <5> QED BY <5>1, <5>2 DEF P, Places, Closed
      <4>3. \A c \in DOMAIN h[i].cells : Moved(to, x[1], h[i].cells[c]) = Moved(both, x[1], h[i].cells[c])
        BY <2>19, <4>2 DEF Moved
      <4> QED BY <2>16, <4>1, <4>3
    <3> QED BY <3>1, <3>2
  <2>23. ASSUME NEW q \in qs PROVE r.args[q] = Moved(both, q, args[q])
    <3>1. CASE q = p
      BY <2>5, <2>10, <2>12, <2>19, <3>1 DEF Renamed, Moved, v
    <3>2. CASE q # p
      <4>1. q \in ps /\ r.args[q] = Moved(to, q, args[q])
        BY <2>12, <2>16, <3>2
      <4>2. IsRef(args[q]) => <<q, args[q].val>> \in P
        <5>1. In(h, args[q])
          BY <4>1 DEF GivenIn
        <5> QED BY <4>1, <5>1, ReachFacts DEF P, Places, In
      <4> QED BY <2>19, <4>1, <4>2 DEF Moved
    <3> QED BY <3>1, <3>2
  <2>24. CopiedTo(h, args, qs, r, both)
    BY <2>12, <2>20, <2>21, <2>22, <2>23 DEF CopiedTo, Q
  <2>25. Copied(h, args, qs, r)
    BY <2>6, <2>11, <2>12, <2>13, <2>14, <2>24 DEF Copied
  <2> QED BY <2>2, <2>3, <2>25 DEF r
<1> QED BY <1>3, <1>4

Table == binding \in Seq(Leaves(origin.heap, origin.args))

LEMMA TableFacts ==
  ASSUME Table
  PROVE  /\ Len(binding) \in Nat
         /\ \A i \in 1..Len(binding) :
              /\ binding[i].param \in Touched
              /\ binding[i].route \in Seq(Segments)
              /\ binding[i].sort \in Sorts
         /\ \A p \in Touched : \E i \in 1..Len(Signature) : Signature[i].name = p
<1>1. Len(binding) \in Nat /\ \A i \in 1..Len(binding) : binding[i] \in Leaves(origin.heap, origin.args)
  BY LenProperties, ElementOfSeq DEF Table
<1> QED
  BY <1>1 DEF Leaves, Touched

(* The parameters are copied one after another. *)
LEMMA CopyTouchedUnrolled ==
  ASSUME NEW h \in Heaps, NEW args, GivenIn(h, args)
  PROVE  \E f \in [0..Len(Signature) -> States(DOMAIN args) \cup {Raised}] :
           /\ f[0] = [heap |-> h, args |-> args]
           /\ \A n \in 1..Len(Signature) : f[n] = CopyParameter(f[n - 1], Signature[n].name)
           /\ CopyTouched(h, args) = f[Len(Signature)]
<1> DEFINE N == Len(Signature)
           V == States(DOMAIN args) \cup {Raised}
           start == [heap |-> h, args |-> args]
           step == [n \in 1..N |-> [at \in V |-> CopyParameter(at, Signature[n].name)]]
           Is(f) == f = [i \in 0..N |-> IF i = 0 THEN start ELSE CopyParameter(f[i - 1], Signature[i].name)]
           copied == CHOOSE f : Is(f)
<1>1. N \in Nat
  BY SignatureFacts
<1>2. \A at \in V : \A n \in 1..N : CopyParameter(at, Signature[n].name) \in V
  BY CopyParameterType
<1>3. start \in V
  BY DEF GivenIn, States
<1>4. CopyTouched(h, args) = copied[N]
  BY Zenon DEF CopyTouched
<1> HIDE DEF N, V, start
<1>5. Steps(step, V, N)
  BY <1>2 DEF Steps
<1>6. PICK f : Follows(f, V, N, start, step)
  <2> HIDE DEF step
  <2> QED BY <1>1, <1>3, <1>5, RecursionUpTo, Zenon
<1>7. f \in [0..N -> V] /\ f[0] = start /\ \A n \in 1..N : f[n] = CopyParameter(f[n - 1], Signature[n].name)
  <2>1. f \in [0..N -> V] /\ f[0] = start /\ \A n \in 1..N : f[n] = step[n][f[n - 1]]
    BY <1>6, Zenon DEF Follows
  <2>2. \A n \in 1..N : f[n - 1] \in V
    BY <1>1, <2>1
  <2> QED BY <2>1, <2>2
<1> HIDE DEF step
<1>8. Is([n \in 0..N |-> f[n]])
  <2> DEFINE g == [n \in 0..N |-> f[n]]
  <2>1. \A n \in 0..N : g[n] = f[n]
    OBVIOUS
  <2>2. g = [n \in 0..N |-> g[n]]
    OBVIOUS
  <2> HIDE DEF g
  <2>3. ASSUME NEW n \in 0..N PROVE g[n] = IF n = 0 THEN start ELSE CopyParameter(g[n - 1], Signature[n].name)
    <3>1. n # 0 => n \in 1..N /\ n - 1 \in 0..N
      BY <1>1
    <3> QED BY <1>7, <2>1, <3>1
  <2>4. g = [n \in 0..N |-> IF n = 0 THEN start ELSE CopyParameter(g[n - 1], Signature[n].name)]
    BY <2>2, <2>3
  <2> QED BY <2>4 DEF g
<1>9. Is(copied)
  <2> HIDE DEF Is
  <2> QED BY <1>8
<1> HIDE DEF copied
<1>10. copied[0] = start /\ \A n \in 1..N : copied[n] = CopyParameter(copied[n - 1], Signature[n].name)
  <2>1. 0 \in 0..N /\ \A n \in 1..N : n # 0 /\ n \in 0..N
    BY <1>1
  <2> QED BY <1>9, <2>1
<1>11. copied \in [0..N -> V]
  <2>1. copied = [n \in 0..N |-> copied[n]]
    BY <1>9
  <2>2. copied[0] \in V /\ \A n \in 1..N : copied[n - 1] \in V => copied[n] \in V
    BY <1>2, <1>3, <1>10
  <2> HIDE DEF Is
  <2> QED BY <1>1, <2>1, <2>2, StaysUpTo
<1> QED BY <1>4, <1>10, <1>11 DEF N, V, start

\* The parameters copied when the first n of the signature have been looked at.
CopiedUpto(args, n) == {Signature[j].name : j \in 1..n} \cap Touched \cap DOMAIN args

LEMMA CopiedUptoFacts ==
  ASSUME Table, NEW args
  PROVE  /\ CopiedUpto(args, 0) = {}
         /\ CopiedUpto(args, Len(Signature)) = Touched \cap DOMAIN args
         /\ \A n \in 1..Len(Signature) :
              /\ Signature[n].name \notin CopiedUpto(args, n - 1)
              /\ CopiedUpto(args, n) = CopiedUpto(args, n - 1) \cup ({Signature[n].name} \cap Touched \cap DOMAIN args)
<1> DEFINE N == Len(Signature)
<1>1. N \in Nat
  BY SignatureFacts
<1>2. CopiedUpto(args, 0) = {}
  BY DEF CopiedUpto
<1>3. CopiedUpto(args, N) = Touched \cap DOMAIN args
  BY TableFacts DEF CopiedUpto
<1>4. ASSUME NEW n \in 1..N
      PROVE  /\ Signature[n].name \notin CopiedUpto(args, n - 1)
             /\ CopiedUpto(args, n) = CopiedUpto(args, n - 1) \cup ({Signature[n].name} \cap Touched \cap DOMAIN args)
  <2>1. \A j \in 1..n - 1 : j \in 1..N /\ j # n
    BY <1>1
  <2>2. Signature[n].name \notin CopiedUpto(args, n - 1)
    BY <2>1, SignatureFacts DEF CopiedUpto
  <2>3. \A j \in 1..n : j \in 1..n - 1 \/ j = n
    BY <1>1
  <2>4. n \in 1..n /\ \A j \in 1..n - 1 : j \in 1..n
    BY <1>1
  <2> QED BY <2>2, <2>3, <2>4 DEF CopiedUpto
<1> QED BY <1>2, <1>3, <1>4

(* Nothing is copied at first. *)
LEMMA CopiedNothing ==
  ASSUME NEW h \in Heaps, NEW args, GivenIn(h, args)
  PROVE  Copied(h, args, {}, [heap |-> h, args |-> args])
<1> DEFINE start == [heap |-> h, args |-> args]
<1>1. start.heap = h /\ start.args = args /\ start \in States(DOMAIN args)
  BY DEF GivenIn, States
<1>2. Extends(h, h)
  BY ExtendsRefl
<1> HIDE DEF start
<1>3. CopiedTo(h, args, {}, start, [x \in {} |-> 0])
  BY DEF CopiedTo, Places
<1>4. Copied(h, args, {}, start)
  BY <1>1, <1>2, <1>3 DEF Copied
<1> QED BY <1>4 DEF start

(* Either some parameter cannot be copied, or all those with leaves are. *)
LEMMA CopyTouchedFacts ==
  ASSUME NEW h \in Heaps, NEW args, GivenIn(h, args), Table
  PROVE  /\ CopyTouched(h, args) \in States(DOMAIN args) \cup {Raised}
         /\ CopyTouched(h, args) # Raised
              => Copied(h, args, Touched \cap DOMAIN args, CopyTouched(h, args))
<1> DEFINE N == Len(Signature)
           V == States(DOMAIN args) \cup {Raised}
<1>1. N \in Nat
  BY SignatureFacts
<1>2. PICK f \in [0..N -> V] :
        /\ f[0] = [heap |-> h, args |-> args]
        /\ \A n \in 1..N : f[n] = CopyParameter(f[n - 1], Signature[n].name)
        /\ CopyTouched(h, args) = f[N]
  BY CopyTouchedUnrolled
<1> DEFINE Good == {n \in 0..N : f[n] # Raised => Copied(h, args, CopiedUpto(args, n), f[n])}
<1>3. 0 \in Good
  <2>1. Copied(h, args, {}, f[0])
    BY <1>2, CopiedNothing
  <2>2. CopiedUpto(args, 0) = {}
    BY CopiedUptoFacts
  <2>3. f[0] # Raised => Copied(h, args, CopiedUpto(args, 0), f[0])
    BY <2>1, <2>2
  <2>4. 0 \in 0..N
    BY <1>1
  <2> QED BY <2>3, <2>4, Zenon
<1>4. ASSUME NEW n \in 1..N, n - 1 \in Good PROVE n \in Good
  <2> DEFINE at == f[n - 1]
             p == Signature[n].name
             ps == CopiedUpto(args, n - 1)
  <2>1. f[n] = CopyParameter(at, p) /\ (at # Raised => Copied(h, args, ps, at))
    BY <1>2, <1>4
  <2>2. f[n] # Raised => at # Raised
    BY <2>1 DEF CopyParameter
  <2>3. p \notin ps /\ CopiedUpto(args, n) = ps \cup ({p} \cap Touched \cap DOMAIN args)
    BY CopiedUptoFacts
  <2>4. ps \in SUBSET DOMAIN args
    BY DEF CopiedUpto
  <2> HIDE DEF at, p, ps
  <2>5. f[n] # Raised => Copied(h, args, CopiedUpto(args, n), f[n])
    BY <2>1, <2>2, <2>3, <2>4, CopyParameterFacts
  <2> QED BY <1>1, <2>5
<1> HIDE DEF Good, N
<1>5. \A n \in 0..N : n \in Good
  BY <1>1, <1>3, <1>4, InductionFromZero
<1>6. N \in Good
  BY <1>1, <1>5
<1>7. f[N] # Raised => Copied(h, args, Touched \cap DOMAIN args, f[N])
  BY <1>6, CopiedUptoFacts DEF Good, N
<1>8. f[N] \in V
  BY <1>1, <1>2
<1> QED BY <1>2, <1>7, <1>8 DEF V

(* What is made of a heap and arguments is no failure. *)
LEMMA NotRaised ==
  ASSUME NEW ns, NEW at \in States(ns)
  PROVE  at # Raised
<1>1. "heap" \in DOMAIN at
  BY DEF States
<1>2. "heap" \notin DOMAIN Raised
  BY DEF Raised, Value
<1> QED BY <1>1, <1>2

(* Where every parameter with leaves can be copied, all of them are. *)
LEMMA CopyTouchedWorks ==
  ASSUME NEW h \in Heaps, NEW args, GivenIn(h, args), Table,
         \A p \in Touched \cap DOMAIN args : IsCopyable(h, args[p])
  PROVE  CopyTouched(h, args) # Raised
<1> DEFINE N == Len(Signature)
           V == States(DOMAIN args) \cup {Raised}
<1>1. N \in Nat
  BY SignatureFacts
<1>2. PICK f \in [0..N -> V] :
        /\ f[0] = [heap |-> h, args |-> args]
        /\ \A n \in 1..N : f[n] = CopyParameter(f[n - 1], Signature[n].name)
        /\ CopyTouched(h, args) = f[N]
  BY CopyTouchedUnrolled
<1> DEFINE Good == {n \in 0..N : f[n] # Raised /\ Copied(h, args, CopiedUpto(args, n), f[n])}
<1>3. 0 \in Good
  <2>1. Copied(h, args, {}, f[0])
    BY <1>2, CopiedNothing
  <2>2. f[0] # Raised
    BY <2>1, NotRaised DEF Copied
  <2> QED BY <1>1, <2>1, <2>2, CopiedUptoFacts
<1>4. ASSUME NEW n \in 1..N, n - 1 \in Good PROVE n \in Good
  <2> DEFINE at == f[n - 1]
             p == Signature[n].name
             ps == CopiedUpto(args, n - 1)
  <2>1. f[n] = CopyParameter(at, p) /\ at # Raised /\ Copied(h, args, ps, at)
    BY <1>2, <1>4
  <2>2. p \notin ps /\ CopiedUpto(args, n) = ps \cup ({p} \cap Touched \cap DOMAIN args)
    BY CopiedUptoFacts
  <2>3. ps \in SUBSET DOMAIN args
    BY DEF CopiedUpto
  <2> HIDE DEF at, p, ps
  <2>4. at \in States(DOMAIN args) /\ Extends(h, at.heap) /\ DOMAIN at.args = DOMAIN args
    BY <2>1 DEF Copied, States
  <2>5. CASE p \notin Touched \cap DOMAIN at.args
    <3>1. CopyParameter(at, p) # Raised
      BY <2>1, <2>5 DEF CopyParameter
    <3> QED BY <1>1, <2>1, <2>2, <2>3, <3>1, CopyParameterFacts
  <2>6. CASE p \in Touched \cap DOMAIN at.args
    <3> DEFINE v == args[p]
               S == Reach(h, v)
    <3>1. at.args[p] = v /\ In(h, v) /\ IsCopyable(h, v)
      BY <2>1, <2>2, <2>4, <2>6 DEF Copied, GivenIn
    <3> HIDE DEF v
    <3>2. Closed(h, S) /\ (IsRef(v) => v.val \in S)
      BY <3>1, ReachFacts
    <3>3. at.heap \in Heaps /\ S \subseteq DOMAIN at.heap /\ \A i \in S : at.heap[i] = h[i]
      BY <2>4, <3>2, ExtendsFacts DEF Closed
    <3> HIDE DEF S
    <3>4. Reach(at.heap, v) = Reach(h, v)
      BY <3>2, <3>3, ReachSame
    <3>5. IsCopyable(at.heap, at.args[p])
      BY <3>1, <3>3, <3>4 DEF IsCopyable, S
    <3>6. CopyParameter(at, p)
            = [heap |-> DeepCopy(at.heap, at.args[p]).heap,
               args |-> [at.args EXCEPT ![p] = DeepCopy(at.heap, at.args[p]).value]]
      BY <2>1, <2>6, <3>5 DEF CopyParameter
    <3>7. CopyParameter(at, p) # Raised
      <4>1. "heap" \in DOMAIN CopyParameter(at, p)
        BY <3>6
      <4>2. "heap" \notin DOMAIN Raised
        BY DEF Raised, Value
      <4> QED BY <4>1, <4>2
    <3> QED BY <1>1, <2>1, <2>2, <2>3, <3>7, CopyParameterFacts
  <2> QED BY <2>5, <2>6
<1> HIDE DEF Good, N
<1>5. \A n \in 0..N : n \in Good
  BY <1>1, <1>3, <1>4, InductionFromZero
<1>6. N \in Good
  BY <1>1, <1>5
<1> QED BY <1>2, <1>6 DEF Good

-----------------------------------------------------------------------------
(* Writing. *)

\* at has a copy of each parameter with leaves, in containers that h has not.
Grown(h, args, at) ==
    /\ at \in States(DOMAIN args)
    /\ Extends(h, at.heap)
    /\ \A p \in DOMAIN args \ Touched : at.args[p] = args[p]
    /\ \A p \in DOMAIN args \cap Touched : at.args[p] \in Holding(New(h, at.heap))

LEMMA CopiedGrown ==
  ASSUME NEW h, NEW args, NEW at, Copied(h, args, Touched \cap DOMAIN args, at)
  PROVE  Grown(h, args, at)
BY DEF Copied, Grown, Fresh, Holding

LEMMA GetFacts ==
  ASSUME NEW ns, NEW at \in States(ns), NEW leaf, leaf.route \in Seq(Segments),
         NEW S, Closed(at.heap, S), leaf.param \in ns => at.args[leaf.param] \in Holding(S)
  PROVE  Get(at.heap, at.args, leaf) \in Holding(S)
<1>1. at.heap \in Heaps /\ DOMAIN at.args = ns
  BY DEF States
<1>2. CASE leaf.param \in ns
  BY <1>1, <1>2, DescendFacts DEF Get
<1>3. CASE leaf.param \notin ns
  BY <1>1, <1>3, RaisedFacts DEF Get
<1> QED BY <1>2, <1>3

CellPut(h, id, cell, v) == [h EXCEPT ![id].cells[cell] = v]

(* A write changes one cell of one container. *)
LEMMA PutCell ==
  ASSUME NEW h \in Heaps, NEW id \in DOMAIN h, NEW cell, NEW v \in Holding(DOMAIN h),
         NEW g, g = CellPut(h, id, cell, v)
  PROVE  /\ g \in Heaps /\ Len(g) = Len(h) /\ DOMAIN g = DOMAIN h
         /\ \A i \in DOMAIN h : i # id => g[i] = h[i]
         /\ g[id].kind = h[id].kind /\ DOMAIN g[id].cells = DOMAIN h[id].cells
         /\ \A c \in DOMAIN h[id].cells : g[id].cells[c] = IF c = cell THEN v ELSE h[id].cells[c]
<1> DEFINE N == Len(h)
           cells == [h[id].cells EXCEPT ![cell] = v]
           o == [h[id] EXCEPT !.cells = cells]
           L == Len(h[id].cells)
<1>1. /\ N \in Nat /\ DOMAIN h = 1..N /\ h \in Seq(Containers)
      /\ \A i \in 1..N : h[i] \in Containers
      /\ DOMAIN h[id].cells = 1..L /\ L \in Nat
      /\ \A c \in 1..L : h[id].cells[c] \in Values
  BY HeapFacts
<1>2. /\ DOMAIN cells = 1..L /\ \A c \in 1..L : cells[c] = IF c = cell THEN v ELSE h[id].cells[c]
      /\ cells = [c \in 1..L |-> cells[c]]
  BY <1>1
<1>3. g = [h EXCEPT ![id] = o]
  BY DEF CellPut
<1>4. v \in Values
  BY DEF Holding
<1> HIDE DEF cells, L
<1>5. cells \in Seq(Values)
  <2>1. \A c \in 1..L : cells[c] \in Values
    BY <1>1, <1>2, <1>4
  <2>2. [c \in 1..L |-> cells[c]] \in Seq(Values)
    BY <1>1, <2>1
  <2> QED BY <1>2, <2>2
<1>6. o \in Containers /\ o.kind = h[id].kind /\ o.cells = cells
  BY <1>1, <1>5 DEF Containers
<1> HIDE DEF o
<1>7. DOMAIN g = 1..N /\ g[id] = o /\ \A i \in 1..N : i # id => g[i] = h[i]
  BY <1>1, <1>3
<1>8. g \in Seq(Containers) /\ Len(g) = N
  <2>1. \A i \in 1..N : g[i] \in Containers
    BY <1>1, <1>6, <1>7
  <2>2. g = [i \in 1..N |-> g[i]]
    BY <1>1, <1>3
  <2> QED BY <1>1, <2>1, <2>2
<1>9. ASSUME NEW i \in DOMAIN g, NEW c \in DOMAIN g[i].cells PROVE In(g, g[i].cells[c])
  <2>1. \A w : In(h, w) => In(g, w)
    BY <1>1, <1>7 DEF In
  <2>2. CASE i = id
    <3>1. g[i].cells[c] = cells[c] /\ c \in 1..L
      BY <1>2, <1>6, <1>7, <1>9, <2>2
    <3>2. In(h, v) /\ In(h, h[id].cells[c])
      BY <1>1, <3>1, HeapFacts DEF Holding, In
    <3> QED BY <1>2, <2>1, <3>1, <3>2
  <2>3. CASE i # id
    BY <1>1, <1>7, <1>9, <2>1, <2>3, HeapFacts
  <2> QED BY <2>2, <2>3
<1>10. g \in Heaps
  BY <1>8, <1>9 DEF Heaps
<1> QED
  BY <1>1, <1>2, <1>6, <1>7, <1>8, <1>10 DEF N

LEMMA PutFacts ==
  ASSUME NEW ns, NEW at \in States(ns), NEW leaf, leaf.route \in Seq(Segments), leaf.param \in ns,
         NEW S, Closed(at.heap, S), at.args[leaf.param] \in Holding(S),
         NEW v \in Holding(S), Put(at, leaf, v) # Raised
  PROVE  LET r == Put(at, leaf, v)
         IN  /\ r \in States(ns)
             /\ Len(r.heap) = Len(at.heap)
             /\ Closed(r.heap, S)
             /\ \A i \in DOMAIN at.heap \ S : r.heap[i] = at.heap[i]
             /\ r.args[leaf.param] \in Holding(S)
             /\ \A q \in ns \ {leaf.param} : r.args[q] = at.args[q]
<1> DEFINE h == at.heap
           p == leaf.param
           r == Put(at, leaf, v)
<1>1. /\ h \in Heaps /\ at.args \in [ns -> Values] /\ DOMAIN at.args = ns
      /\ \A q \in ns : In(h, at.args[q])
      /\ at = [heap |-> h, args |-> at.args]
  BY DEF States
<1>2. S \subseteq DOMAIN h /\ v \in Values /\ v \in Holding(DOMAIN h)
  BY DEF Closed, Holding
<1>3. CASE leaf.route = <<>>
  <2>1. r = [at EXCEPT !.args[p] = v]
    BY <1>3 DEF Put
  <2>2. r = [heap |-> h, args |-> [at.args EXCEPT ![p] = v]]
    BY <1>1, <2>1
  <2> HIDE DEF r, h
  <2>3. r.heap = h /\ \A q \in ns : r.args[q] = IF q = p THEN v ELSE at.args[q]
    BY <1>1, <2>2
  <2>4. r.args \in [ns -> Values]
    BY <1>1, <1>2, <2>2
  <2>5. In(h, v)
    BY <1>2 DEF Holding, In
  <2>6. r \in States(ns)
    BY <1>1, <2>2, <2>3, <2>4, <2>5 DEF States
  <2> QED BY <2>3, <2>6 DEF r, h
<1>4. CASE leaf.route # <<>>
  <2> DEFINE holder == Descend(h, at.args[p], Front(leaf.route))
             cell == Last(leaf.route).at
             g == [h EXCEPT ![holder.val].cells[cell] = v]
  <2>1. IsRef(holder) /\ r = [at EXCEPT !.heap[holder.val].cells[cell] = v]
    BY <1>4 DEF Put
  <2>2. holder \in Holding(S)
    BY <1>1, <1>4, RouteParts, DescendFacts
  <2> HIDE DEF holder, cell
  <2>3. holder.val \in S /\ holder.val \in DOMAIN h
    BY <1>2, <2>1, <2>2 DEF Holding
  <2>4. r = [heap |-> g, args |-> at.args]
    BY <1>1, <2>1
  <2>5. /\ g \in Heaps /\ Len(g) = Len(h) /\ DOMAIN g = DOMAIN h
        /\ \A i \in DOMAIN h : i # holder.val => g[i] = h[i]
        /\ DOMAIN g[holder.val].cells = DOMAIN h[holder.val].cells
        /\ \A c \in DOMAIN h[holder.val].cells :
             g[holder.val].cells[c] = IF c = cell THEN v ELSE h[holder.val].cells[c]
    <3> DEFINE id == holder.val
    <3>1. h \in Heaps /\ id \in DOMAIN h /\ v \in Holding(DOMAIN h)
      BY <1>1, <1>2, <2>3
    <3>2. g = CellPut(h, id, cell, v)
      BY DEF CellPut
    <3> HIDE DEF id, h, g
    <3>3. /\ g \in Heaps /\ Len(g) = Len(h) /\ DOMAIN g = DOMAIN h
          /\ \A i \in DOMAIN h : i # id => g[i] = h[i]
          /\ DOMAIN g[id].cells = DOMAIN h[id].cells
          /\ \A c \in DOMAIN h[id].cells : g[id].cells[c] = IF c = cell THEN v ELSE h[id].cells[c]
      BY <3>1, <3>2, PutCell
    <3> QED BY <3>3 DEF id
  <2> HIDE DEF g, r
  <2>6. Closed(g, S)
    <3>1. ASSUME NEW i \in S, NEW c \in DOMAIN g[i].cells, IsRef(g[i].cells[c])
          PROVE  g[i].cells[c].val \in S
      <4>1. CASE i = holder.val
        BY <2>3, <2>5, <3>1, <4>1 DEF Closed, Holding
      <4>2. CASE i # holder.val
        BY <1>2, <2>5, <3>1, <4>2 DEF Closed
      <4> QED BY <4>1, <4>2
    <3> QED BY <1>2, <2>5, <3>1 DEF Closed
  <2>7. r \in States(ns)
    <3>1. \A q \in ns : In(g, at.args[q])
      BY <1>1, <2>5 DEF In
    <3> QED BY <1>1, <2>4, <2>5, <3>1 DEF States
  <2> QED BY <2>3, <2>4, <2>5, <2>6, <2>7 DEF r
<1> QED BY <1>3, <1>4

LEMMA GrownFacts ==
  ASSUME NEW h \in Heaps, NEW args, NEW at, Grown(h, args, at)
  PROVE  /\ at.heap \in Heaps /\ DOMAIN at.args = DOMAIN args /\ at = [heap |-> at.heap, args |-> at.args]
         /\ Closed(at.heap, New(h, at.heap))
         /\ \A p \in DOMAIN args : at.args[p] \in Values /\ In(at.heap, at.args[p])
         /\ \A i \in 1..Len(binding) : Table =>
              Get(at.heap, at.args, binding[i]) \in Holding(New(h, at.heap))
         /\ \A i : Get(at.heap, at.args, binding[i]) # Raised => binding[i].param \in DOMAIN args
<1>1. /\ at.heap \in Heaps /\ DOMAIN at.args = DOMAIN args /\ at \in States(DOMAIN args)
      /\ at = [heap |-> at.heap, args |-> at.args]
      /\ \A p \in DOMAIN args : at.args[p] \in Values /\ In(at.heap, at.args[p])
  BY DEF Grown, States
<1>2. Closed(at.heap, New(h, at.heap))
  BY ExtendsFacts DEF Grown
<1>3. ASSUME NEW i \in 1..Len(binding), Table
      PROVE  Get(at.heap, at.args, binding[i]) \in Holding(New(h, at.heap))
  <2>1. binding[i].param \in DOMAIN args => at.args[binding[i].param] \in Holding(New(h, at.heap))
    BY <1>3, TableFacts DEF Grown
  <2> QED BY <1>1, <1>2, <1>3, <2>1, GetFacts, TableFacts
<1>4. \A i : Get(at.heap, at.args, binding[i]) # Raised => binding[i].param \in DOMAIN args
  BY <1>1 DEF Get
<1> QED BY <1>1, <1>2, <1>3, <1>4

LEMMA PutGrown ==
  ASSUME NEW h \in Heaps, NEW args, NEW at, Grown(h, args, at), Table,
         NEW i \in 1..Len(binding), binding[i].param \in DOMAIN args,
         NEW v \in Holding(New(h, at.heap)), Put(at, binding[i], v) # Raised
  PROVE  Grown(h, args, Put(at, binding[i], v))
<1> DEFINE r == Put(at, binding[i], v)
           S == New(h, at.heap)
           p == binding[i].param
<1>1. /\ at \in States(DOMAIN args) /\ Closed(at.heap, S) /\ p \in Touched
      /\ binding[i].route \in Seq(Segments) /\ at.args[p] \in Holding(S) /\ Extends(h, at.heap)
  BY GrownFacts, TableFacts DEF Grown
<1>2. /\ r \in States(DOMAIN args)
      /\ Len(r.heap) = Len(at.heap)
      /\ Closed(r.heap, S)
      /\ \A k \in DOMAIN at.heap \ S : r.heap[k] = at.heap[k]
      /\ r.args[p] \in Holding(S)
      /\ \A q \in DOMAIN args \ {p} : r.args[q] = at.args[q]
  BY <1>1, PutFacts
<1> HIDE DEF r
<1>3. New(h, r.heap) = S
  BY <1>2 DEF New
<1>4. \A k \in 1..Len(h) : k \in DOMAIN at.heap \ S /\ at.heap[k] = h[k]
  BY <1>1, ExtendsFacts
<1> HIDE DEF S
<1>5. Extends(h, r.heap)
  <2>1. r.heap \in Heaps /\ Len(h) <= Len(r.heap)
    BY <1>1, <1>2 DEF States, Extends
  <2> QED BY <1>2, <1>3, <1>4, <2>1 DEF Extends, Closed
<1>6. \A q \in DOMAIN args \ Touched : r.args[q] = args[q]
  BY <1>1, <1>2 DEF Grown
<1>7. \A q \in DOMAIN args \cap Touched : r.args[q] \in Holding(S)
  BY <1>2 DEF Grown, S
<1> QED
  BY <1>2, <1>3, <1>5, <1>6, <1>7 DEF Grown, r

\* What copying and writing may come to.
Growths(h, args) == {at \in States(DOMAIN args) : Grown(h, args, at)} \cup {Raised}

LEMMA ApplyToGrown ==
  ASSUME NEW h \in Heaps, NEW args, Table, NEW at \in Growths(h, args), NEW i \in 1..Len(binding),
         NEW m, i \in DOMAIN m => m[i] \in Values /\ ~IsRef(m[i])
  PROVE  ApplyTo(at, i, m) \in Growths(h, args)
<1>1. CASE ApplyTo(at, i, m) = Raised
  BY <1>1 DEF Growths
<1>2. CASE ApplyTo(at, i, m) # Raised
  <2> DEFINE v == IF i \in DOMAIN m THEN m[i] ELSE Get(at.heap, at.args, binding[i])
  <2>1. /\ at # Raised /\ Get(at.heap, at.args, binding[i]) # Raised
        /\ ApplyTo(at, i, m) = Put(at, binding[i], v)
    BY <1>2 DEF ApplyTo
  <2>2. Grown(h, args, at)
    BY <2>1 DEF Growths
  <2>3. v \in Holding(New(h, at.heap)) /\ binding[i].param \in DOMAIN args
    BY <2>1, <2>2, GrownFacts DEF Holding
  <2> HIDE DEF v
  <2>4. Grown(h, args, ApplyTo(at, i, m))
    BY <1>2, <2>1, <2>2, <2>3, PutGrown
  <2> QED BY <2>4 DEF Growths, Grown
<1> QED BY <1>1, <1>2

LEMMA SymbolFacts ==
  ASSUME NEW S, NEW v \in Holding(S), NEW i \in Nat
  PROVE  [v EXCEPT !.sym = i] \in Holding(S)
BY DEF Holding, Values, IsRef

(* What is wrapped already keeps its name. *)
LEMMA NamedFacts ==
  ASSUME NEW S, NEW v \in Holding(S), NEW i \in Nat
  PROVE  Named(v, i) \in Holding(S)
<1>1. CASE v.sort \in Sorts /\ v.sym = NoSymbol
  <2>1. Named(v, i) = [v EXCEPT !.sym = i]
    BY <1>1 DEF Named
  <2> QED BY <2>1, SymbolFacts
<1>2. CASE ~(v.sort \in Sorts /\ v.sym = NoSymbol)
  BY <1>2 DEF Named
<1> QED BY <1>1, <1>2

-----------------------------------------------------------------------------
(* Lists in lists. *)

(* A finite set of values has finitely many images. *)
LEMMA FiniteImage ==
  ASSUME NEW I, IsFiniteSet(I), NEW f
  PROVE  IsFiniteSet({f[i] : i \in I})
<1> DEFINE T == {f[i] : i \in I}
           g == [i \in I |-> f[i]]
<1>1. g \in [I -> T] /\ \A t \in T : \E i \in I : g[i] = t
  OBVIOUS
<1> HIDE DEF g, T
<1>2. g \in Surjection(I, T)
  BY <1>1 DEF Surjection
<1>3. IsFiniteSet(T)
  BY <1>2, FS_Surjection
<1> QED BY <1>3 DEF T

LEMMA FiniteUnion ==
  ASSUME NEW I, IsFiniteSet(I), NEW f, \A i \in I : IsFiniteSet(f[i])
  PROVE  IsFiniteSet(UNION {f[i] : i \in I})
<1>1. IsFiniteSet({f[i] : i \in I})
  BY FiniteImage
<1>2. \A T \in {f[i] : i \in I} : IsFiniteSet(T)
  OBVIOUS
<1> QED BY <1>1, <1>2, FS_UNION

\* Ways to lists of S.
FoundAt(h, S) == [way : Seq(Nat), list : {id \in S : h[id].kind = "list"}]

LEMMA ListsInFacts ==
  ASSUME NEW h \in Heaps, NEW S, Closed(h, S), NEW found \in FoundAt(h, S)
  PROVE  ListsIn(h, found) \in SUBSET FoundAt(h, S) /\ IsFiniteSet(ListsIn(h, found))
<1> DEFINE cells == h[found.list].cells
           N == Len(cells)
           D == {d \in DOMAIN cells : IsList(h, cells[d])}
           f == [c \in D |-> [way |-> Append(found.way, c), list |-> cells[c].val]]
<1>1. found.list \in S /\ found.list \in DOMAIN h /\ found.way \in Seq(Nat)
  BY DEF FoundAt, Closed
<1>2. DOMAIN cells = 1..N /\ N \in Nat
  BY <1>1, HeapFacts
<1>3. \A c \in D : cells[c].val \in S /\ h[cells[c].val].kind = "list"
  BY <1>1 DEF IsList, Object, Closed
<1>4. ListsIn(h, found) = {f[c] : c \in D}
  BY DEF ListsIn
<1> HIDE DEF cells, N
<1>5. D \in SUBSET (1..N)
  BY <1>2
<1>6. IsFiniteSet(D)
  <2>1. IsFiniteSet(1..N)
    BY <1>2, FS_Interval
  <2> QED BY <1>5, <2>1, FS_Subset
<1> HIDE DEF D
<1>7. \A c \in D : f[c] \in FoundAt(h, S)
  <2> SUFFICES ASSUME NEW c \in D PROVE f[c] \in FoundAt(h, S)
    OBVIOUS
  <2>1. c \in Nat
    BY <1>2, <1>5
  <2>2. Append(found.way, c) \in Seq(Nat)
    BY <1>1, <2>1, AppendProperties
  <2> QED BY <1>3, <2>2 DEF FoundAt
<1> HIDE DEF f
<1>8. IsFiniteSet({f[c] : c \in D})
  BY <1>6, FiniteImage
<1> QED BY <1>4, <1>7, <1>8

(* Lists are found one depth after the other, finitely many at each. *)
LEMMA ListsAtUnrolled ==
  ASSUME NEW h \in Heaps, NEW S, Closed(h, S), NEW v \in Holding(S), IsList(h, v)
  PROVE  LET at == ListsAt(h, v)
         IN  /\ at[0] = {[way |-> <<>>, list |-> v.val]}
             /\ \A n \in 1..Len(h) : at[n] = UNION {ListsIn(h, found) : found \in at[n - 1]}
             /\ \A n \in 0..Len(h) : at[n] \in SUBSET FoundAt(h, S) /\ IsFiniteSet(at[n])
<1> DEFINE N == Len(h)
           V == {L \in SUBSET FoundAt(h, S) : IsFiniteSet(L)}
           Deeper(L) == UNION {ListsIn(h, found) : found \in L}
           start == {[way |-> <<>>, list |-> v.val]}
           step == [n \in 1..N |-> [L \in V |-> Deeper(L)]]
           Is(f) == f = [n \in 0..N |-> IF n = 0 THEN start
                                        ELSE UNION {ListsIn(h, found) : found \in f[n - 1]}]
           deep == CHOOSE f : Is(f)
<1>1. N \in Nat
  BY HeapFacts
<1>2. ASSUME NEW L \in V PROVE Deeper(L) \in V
  <2> DEFINE f == [found \in L |-> ListsIn(h, found)]
  <2>1. \A found \in L : f[found] \in SUBSET FoundAt(h, S) /\ IsFiniteSet(f[found])
    BY ListsInFacts
  <2>2. Deeper(L) = UNION {f[found] : found \in L}
    OBVIOUS
  <2>3. IsFiniteSet(L)
    OBVIOUS
  <2> HIDE DEF f, Deeper, V
  <2>4. IsFiniteSet(UNION {f[found] : found \in L})
    BY <2>1, <2>3, FiniteUnion
  <2> QED BY <2>1, <2>2, <2>4 DEF V
<1>3. start \in V
  <2>1. v.val \in S /\ h[v.val].kind = "list"
    BY DEF IsList, Object, Holding
  <2>2. <<>> \in Seq(Nat)
    OBVIOUS
  <2>3. [way |-> <<>>, list |-> v.val] \in FoundAt(h, S)
    BY <2>1, <2>2 DEF FoundAt
  <2>4. IsFiniteSet(start)
    BY FS_Singleton
  <2> QED BY <2>3, <2>4
<1>4. ListsAt(h, v) = deep
  BY Zenon DEF ListsAt
<1> HIDE DEF N, start, V, Deeper
<1>5. Steps(step, V, N)
  BY <1>2 DEF Steps
<1>6. PICK f : Follows(f, V, N, start, step)
  <2> HIDE DEF step
  <2> QED BY <1>1, <1>3, <1>5, RecursionUpTo, Zenon
<1>7. f \in [0..N -> V] /\ f[0] = start /\ \A n \in 1..N : f[n] = Deeper(f[n - 1])
  <2>1. f \in [0..N -> V] /\ f[0] = start /\ \A n \in 1..N : f[n] = step[n][f[n - 1]]
    BY <1>6, Zenon DEF Follows
  <2>2. \A n \in 1..N : f[n - 1] \in V
    BY <1>1, <2>1
  <2> QED BY <2>1, <2>2
<1> HIDE DEF step
<1>8. \A f1 : Is(f1) <=> f1 = [n \in 0..N |-> IF n = 0 THEN start ELSE Deeper(f1[n - 1])]
  BY DEF Deeper
<1> HIDE DEF Is
<1>9. Is([n \in 0..N |-> f[n]])
  <2> DEFINE g == [n \in 0..N |-> f[n]]
  <2>1. \A n \in 0..N : g[n] = f[n]
    OBVIOUS
  <2>2. g = [n \in 0..N |-> g[n]]
    OBVIOUS
  <2> HIDE DEF g
  <2>3. ASSUME NEW n \in 0..N PROVE g[n] = IF n = 0 THEN start ELSE Deeper(g[n - 1])
    <3>1. n # 0 => n \in 1..N /\ n - 1 \in 0..N
      BY <1>1
    <3> QED BY <1>7, <2>1, <3>1
  <2>4. g = [n \in 0..N |-> IF n = 0 THEN start ELSE Deeper(g[n - 1])]
    BY <2>2, <2>3
  <2> QED BY <1>8, <2>4 DEF g
<1>10. deep = [n \in 0..N |-> IF n = 0 THEN start ELSE Deeper(deep[n - 1])]
  BY <1>8, <1>9
<1> HIDE DEF deep
<1>11. deep[0] = start /\ \A n \in 1..N : deep[n] = Deeper(deep[n - 1])
  <2>1. 0 \in 0..N /\ \A n \in 1..N : n # 0 /\ n \in 0..N
    BY <1>1
  <2> QED BY <1>10, <2>1
<1>12. deep \in [0..N -> V]
  <2>1. deep = [n \in 0..N |-> deep[n]]
    BY <1>10
  <2>2. deep[0] \in V /\ \A n \in 1..N : deep[n - 1] \in V => deep[n] \in V
    BY <1>2, <1>3, <1>11
  <2> QED BY <1>1, <2>1, <2>2, StaysUpTo
<1>13. \A n \in 0..N : deep[n] \in V
  BY <1>12
<1> QED
  BY <1>4, <1>11, <1>13 DEF N, V, start, Deeper

(* A wrapped list is made of new containers. *)
LEMMA WrappedListFacts ==
  ASSUME NEW h \in Heaps, NEW S, Closed(h, S), NEW v \in Holding(S), IsList(h, v), ~Endless(h, v),
         NEW i \in Nat
  PROVE  LET g == WrappedList(h, v, i).heap
         IN  /\ g \in Heaps /\ Len(h) <= Len(g) /\ \A k \in 1..Len(h) : g[k] = h[k]
             /\ WrappedList(h, v, i).value \in Holding(New(h, g))
             /\ Closed(g, S \cup New(h, g))
<1> DEFINE N == Len(h)
           at == ListsAt(h, v)
           A == UNION {at[n] : n \in 0..N}
           old == SetToSeq(A)
           M == Len(old)
           Place(way) == CHOOSE k \in DOMAIN old : old[k].way = way
           To(way) == Ref(N + CHOOSE k \in DOMAIN old : old[k].way = way)
           Item(k, c) ==
             LET w == h[old[k].list].cells[c]
             IN  IF IsList(h, w) THEN To(Append(old[k].way, c)) ELSE Named(w, i)
           news == [k \in DOMAIN old |->
                      [kind  |-> "list",
                       cells |-> [c \in DOMAIN h[old[k].list].cells |-> Item(k, c)]]]
           g == h \o news
<1>1. WrappedList(h, v, i) = [heap |-> g, value |-> To(<<>>)]
  BY Zenon DEF WrappedList
<1>2. N \in Nat /\ DOMAIN h = 1..N /\ h \in Seq(Containers) /\ S \subseteq 1..N
  BY HeapFacts DEF Closed
<1>3. /\ at[0] = {[way |-> <<>>, list |-> v.val]}
      /\ \A n \in 1..N : at[n] = UNION {ListsIn(h, found) : found \in at[n - 1]}
      /\ \A n \in 0..N : at[n] \in SUBSET FoundAt(h, S) /\ IsFiniteSet(at[n])
  BY ListsAtUnrolled
<1>4. at[N] = {}
  BY DEF Endless
<1> HIDE DEF at, N
<1>5. A \in SUBSET FoundAt(h, S) /\ [way |-> <<>>, list |-> v.val] \in A
  <2>1. 0 \in 0..N
    BY <1>2
  <2> QED BY <1>3, <2>1
<1>6. IsFiniteSet(A)
  <2>1. 0 \in Int /\ N \in Int
    BY <1>2
  <2>2. IsFiniteSet(0..N)
    BY <2>1, FS_Interval, Zenon
  <2>3. \A n \in 0..N : IsFiniteSet(at[n])
    BY <1>3
  <2> QED BY ONLY <2>2, <2>3, FiniteUnion
<1>7. ASSUME NEW found \in A, NEW c \in DOMAIN h[found.list].cells, IsList(h, h[found.list].cells[c])
      PROVE  \E deeper \in A : deeper.way = Append(found.way, c)
  <2>1. PICK n \in 0..N : found \in at[n]
    OBVIOUS
  <2>2. n + 1 \in 1..N /\ n + 1 \in 0..N /\ n + 1 - 1 = n
    <3>1. n # N
      BY <1>4, <2>1
    <3> QED BY <1>2, <3>1
  <2> DEFINE deeper == [way |-> Append(found.way, c), list |-> h[found.list].cells[c].val]
  <2>3. deeper \in ListsIn(h, found)
    BY <1>7 DEF ListsIn
  <2>4. at[n + 1] = UNION {ListsIn(h, x) : x \in at[n]}
    BY <1>3, <2>2
  <2>5. deeper \in at[n + 1] /\ deeper.way = Append(found.way, c)
    BY <2>1, <2>3, <2>4
  <2> HIDE DEF deeper
  <2>6. deeper \in A
    BY <2>2, <2>5
  <2> QED BY <2>5, <2>6
<1> HIDE DEF A
<1>8. old \in Seq(A) /\ \A x \in A : \E k \in 1..M : old[k] = x
  BY <1>6, Listed
<1> HIDE DEF old
<1>9. M \in Nat /\ DOMAIN old = 1..M /\ \A k \in 1..M : old[k] \in A
  BY <1>8, LenProperties, ElementOfSeq
<1> HIDE DEF M
<1>10. ASSUME NEW way, \E x \in A : x.way = way
       PROVE  To(way) \in Values /\ IsRef(To(way)) /\ To(way).val \in N + 1..N + M
  <2>1. \E k \in DOMAIN old : old[k].way = way
    BY <1>8, <1>9, <1>10
  <2>2. Place(way) \in DOMAIN old
    BY <2>1
  <2>3. To(way) = Ref(N + Place(way))
    OBVIOUS
  <2> HIDE DEF To, Place
  <2>4. N + Place(way) \in Int /\ N + Place(way) \in N + 1..N + M
    BY <1>2, <1>9, <2>2
  <2> QED BY <2>3, <2>4, RefFacts
<1>11. To(<<>>) \in Values /\ IsRef(To(<<>>)) /\ To(<<>>).val \in N + 1..N + M
  BY <1>5, <1>10
<1> HIDE DEF To
<1>12. ASSUME NEW k \in 1..M
       PROVE  /\ news[k] \in Containers
              /\ \A c \in DOMAIN news[k].cells : news[k].cells[c] \in Holding(S \cup (N + 1..N + M))
  <2> DEFINE id == old[k].list
             cells == h[id].cells
             items == [c \in DOMAIN cells |-> Item(k, c)]
             L == Len(cells)
  <2>1. old[k] \in A /\ id \in S /\ id \in DOMAIN h
    BY <1>5, <1>9 DEF FoundAt, Closed
  <2>2. DOMAIN cells = 1..L /\ L \in Nat /\ \A c \in DOMAIN cells : cells[c] \in Holding(S)
    BY <2>1, HeapFacts DEF Closed, Holding
  <2>3. ASSUME NEW c \in DOMAIN cells PROVE Item(k, c) \in Holding(S \cup (N + 1..N + M))
    <3>1. CASE IsList(h, cells[c])
      <4>1. Item(k, c) = To(Append(old[k].way, c))
        BY <3>1
      <4>2. \E x \in A : x.way = Append(old[k].way, c)
        BY <1>7, <2>1, <3>1
      <4> HIDE DEF Item
      <4> QED BY <1>10, <4>1, <4>2 DEF Holding
    <3>2. CASE ~IsList(h, cells[c])
      <4>1. Item(k, c) = Named(cells[c], i)
        BY <3>2
      <4>2. Named(cells[c], i) \in Holding(S)
        BY <2>2, NamedFacts
      <4> HIDE DEF Item
      <4> QED BY <4>1, <4>2 DEF Holding
    <3> QED BY <3>1, <3>2
  <2>4. news[k] = [kind |-> "list", cells |-> items]
    BY <1>9
  <2> HIDE DEF Item, news
  <2>5. items = [c \in 1..L |-> items[c]] /\ DOMAIN items = 1..L
    BY <2>2
  <2>6. \A c \in 1..L : items[c] \in Holding(S \cup (N + 1..N + M))
    BY <2>2, <2>3
  <2> HIDE DEF items, L, cells, id
  <2>7. [c \in 1..L |-> items[c]] \in Seq(Values)
    <3>1. \A c \in 1..L : items[c] \in Values
      BY <2>6 DEF Holding
    <3> QED BY <2>2, <3>1
  <2>8. items \in Seq(Values)
    BY <2>5, <2>7
  <2>9. news[k] \in Containers /\ news[k].cells = items
    BY <2>4, <2>8 DEF Containers
  <2> QED BY <2>5, <2>6, <2>9
<1>13. news = [k \in 1..M |-> news[k]]
  BY <1>9
<1> HIDE DEF news
<1>14. news \in Seq(Containers) /\ Len(news) = M
  <2>1. [k \in 1..M |-> news[k]] \in Seq(Containers) /\ Len([k \in 1..M |-> news[k]]) = M
    BY <1>9, <1>12
  <2> QED BY <1>13, <2>1
<1>15. /\ g \in Seq(Containers) /\ Len(g) = N + M /\ DOMAIN g = 1..N + M
       /\ \A k \in 1..N : g[k] = h[k]
       /\ \A k \in N + 1..N + M : g[k] = news[k - N]
  <2>1. /\ g \in Seq(Containers) /\ Len(g) = N + M
        /\ \A k \in 1..N + M : g[k] = IF k <= N THEN h[k] ELSE news[k - N]
    BY <1>2, <1>14, ConcatProperties DEF N
  <2>2. DOMAIN g = 1..N + M
    BY <2>1, LenProperties
  <2> HIDE DEF g
  <2> QED BY <1>2, <1>9, <2>1, <2>2
<1> HIDE DEF g
<1>16. /\ New(h, g) = N + 1..N + M /\ N <= N + M
       /\ \A k \in N + 1..N + M : k - N \in 1..M /\ k \notin 1..N /\ k \in 1..N + M
       /\ \A k \in 1..N + M : k \in 1..N \/ k \in N + 1..N + M
       /\ \A k \in 1..N : k \in 1..N + M
  BY <1>2, <1>9, <1>15 DEF New, N
<1>17. ASSUME NEW k \in 1..N + M, NEW c \in DOMAIN g[k].cells PROVE In(g, g[k].cells[c])
  <2>1. CASE k \in 1..N
    <3>1. In(h, h[k].cells[c])
      BY <1>2, <1>15, <1>17, <2>1, HeapFacts
    <3> QED BY <1>2, <1>15, <1>16, <2>1, <3>1 DEF In
  <2>2. CASE k \in N + 1..N + M
    <3>1. g[k].cells[c] \in Holding(S \cup (N + 1..N + M))
      BY <1>12, <1>15, <1>16, <1>17, <2>2
    <3> QED BY <1>2, <1>15, <1>16, <3>1 DEF In, Holding
  <2> QED BY <1>16, <2>1, <2>2
<1>18. g \in Heaps
  BY <1>15, <1>17 DEF Heaps
<1>19. Closed(g, S \cup New(h, g))
  <2>1. S \cup New(h, g) \subseteq DOMAIN g
    BY <1>2, <1>15, <1>16
  <2>2. ASSUME NEW k \in S \cup New(h, g), NEW c \in DOMAIN g[k].cells, IsRef(g[k].cells[c])
        PROVE  g[k].cells[c].val \in S \cup New(h, g)
    <3>1. CASE k \in S
      BY <1>2, <1>15, <2>2, <3>1 DEF Closed
    <3>2. CASE k \in New(h, g)
      <4>1. g[k].cells[c] \in Holding(S \cup New(h, g))
        BY <1>12, <1>15, <1>16, <2>2, <3>2
      <4> QED BY <2>2, <4>1 DEF Holding
    <3> QED BY <3>1, <3>2
  <2> QED BY <2>1, <2>2 DEF Closed
<1>20. To(<<>>) \in Holding(New(h, g))
  BY <1>11, <1>16 DEF Holding
<1> QED
  BY <1>1, <1>15, <1>16, <1>18, <1>19, <1>20 DEF N

(* Containers more, of values that copies may hold. *)
LEMMA MoreGrown ==
  ASSUME NEW h \in Heaps, NEW args, NEW at, Grown(h, args, at),
         NEW g \in Heaps, Len(at.heap) <= Len(g), \A k \in 1..Len(at.heap) : g[k] = at.heap[k],
         Closed(g, New(h, at.heap) \cup New(at.heap, g))
  PROVE  LET r == [at EXCEPT !.heap = g]
         IN  /\ Grown(h, args, r) /\ r.heap = g /\ r.args = at.args
             /\ New(h, g) = New(h, at.heap) \cup New(at.heap, g)
<1> DEFINE r == [at EXCEPT !.heap = g]
<1>1. /\ at.heap \in Heaps /\ Len(h) \in Nat /\ Len(at.heap) \in Nat /\ Len(g) \in Nat
      /\ Len(h) <= Len(at.heap) /\ DOMAIN at.heap = 1..Len(at.heap) /\ DOMAIN g = 1..Len(g)
      /\ \A k \in 1..Len(h) : at.heap[k] = h[k]
      /\ at \in States(DOMAIN args)
  BY GrownFacts, HeapFacts DEF Grown, Extends
<1>2. r = [heap |-> g, args |-> at.args]
  BY <1>1 DEF States
<1> HIDE DEF r
<1>3. r.heap = g /\ r.args = at.args
  BY <1>2
<1>4. New(h, g) = New(h, at.heap) \cup New(at.heap, g)
  BY <1>1 DEF New
<1>5. Extends(h, g)
  <2>1. Len(h) <= Len(g) /\ \A k \in 1..Len(h) : k \in 1..Len(at.heap)
    BY <1>1
  <2> QED BY <1>1, <1>4, <2>1 DEF Extends, Closed
<1>6. r \in States(DOMAIN args)
  <2>1. at.args \in [DOMAIN args -> Values] /\ \A p \in DOMAIN args : In(at.heap, at.args[p])
    BY <1>1 DEF States
  <2>2. \A k \in DOMAIN at.heap : k \in DOMAIN g
    BY <1>1
  <2> QED BY <1>2, <2>1, <2>2 DEF States, In
<1>7. Grown(h, args, r)
  BY <1>3, <1>4, <1>5, <1>6 DEF Grown, Holding
<1> QED BY <1>3, <1>4, <1>7 DEF r

LEMMA WrapLeafGrown ==
  ASSUME NEW h \in Heaps, NEW args, Table, NEW at \in Growths(h, args), NEW i \in 1..Len(binding)
  PROVE  WrapLeaf(at, i) \in Growths(h, args)
<1>1. CASE WrapLeaf(at, i) = Raised
  BY <1>1 DEF Growths
<1>2. CASE WrapLeaf(at, i) # Raised
  <2> DEFINE v == Get(at.heap, at.args, binding[i])
             S == New(h, at.heap)
  <2>1. at # Raised /\ v # Raised /\ WrapLeaf(at, i) = WrapAt(at, binding[i], i, v)
    BY <1>2 DEF WrapLeaf
  <2>2. Grown(h, args, at)
    BY <2>1 DEF Growths
  <2>3. v \in Holding(S) /\ binding[i].param \in DOMAIN args /\ Closed(at.heap, S) /\ at.heap \in Heaps
    BY <2>1, <2>2, GrownFacts
  <2> HIDE DEF v
  <2>4. i \in Nat
    BY TableFacts
  <2>5. CASE ~IsList(at.heap, v)
    <3>1. WrapLeaf(at, i) = Put(at, binding[i], Named(v, i))
      BY <2>1, <2>5 DEF WrapAt
    <3>2. Named(v, i) \in Holding(S)
      BY <2>3, <2>4, NamedFacts
    <3>3. Grown(h, args, WrapLeaf(at, i))
      BY <1>2, <2>2, <2>3, <3>1, <3>2, PutGrown
    <3> QED BY <3>3 DEF Growths, Grown
  <2>6. CASE IsList(at.heap, v)
    <3> DEFINE g == WrappedList(at.heap, v, i).heap
               w == WrappedList(at.heap, v, i).value
               r == [at EXCEPT !.heap = g]
    <3>1. ~Endless(at.heap, v) /\ WrapLeaf(at, i) = Put(r, binding[i], w)
      BY <1>2, <2>1, <2>6 DEF WrapAt
    <3>2. /\ g \in Heaps /\ Len(at.heap) <= Len(g) /\ \A k \in 1..Len(at.heap) : g[k] = at.heap[k]
          /\ w \in Holding(New(at.heap, g)) /\ Closed(g, S \cup New(at.heap, g))
      BY <2>3, <2>4, <2>6, <3>1, WrappedListFacts
    <3> HIDE DEF g, w
    <3>3. Grown(h, args, r) /\ r.heap = g /\ New(h, g) = S \cup New(at.heap, g)
      BY <2>2, <3>2, MoreGrown
    <3>4. w \in Holding(New(h, r.heap))
      BY <3>2, <3>3 DEF Holding
    <3> HIDE DEF r
    <3>5. Grown(h, args, WrapLeaf(at, i))
      BY <1>2, <2>3, <3>1, <3>3, <3>4, PutGrown
    <3> QED BY <3>5 DEF Growths, Grown
  <2> QED BY <2>5, <2>6
<1> QED BY <1>1, <1>2

(* A model is written leaf by leaf. *)
LEMMA ApplyModelUnrolled ==
  ASSUME NEW h \in Heaps, NEW args, GivenIn(h, args), Table,
         NEW m, \A i \in 1..Len(binding) : i \in DOMAIN m => m[i] \in Values /\ ~IsRef(m[i])
  PROVE  \E f \in [0..Len(binding) -> Growths(h, args)] :
           /\ f[0] = CopyTouched(h, args)
           /\ \A i \in 1..Len(binding) : f[i] = ApplyTo(f[i - 1], i, m)
           /\ ApplyModel(h, args, m) = f[Len(binding)]
<1> DEFINE N == Len(binding)
           V == Growths(h, args)
           start == CopyTouched(h, args)
           step == [n \in 1..N |-> [at \in V |-> ApplyTo(at, n, m)]]
           Is(f) == f = [i \in 0..N |-> IF i = 0 THEN start ELSE ApplyTo(f[i - 1], i, m)]
           written == CHOOSE f : Is(f)
<1>1. N \in Nat
  BY TableFacts
<1>2. \A at \in V : \A n \in 1..N : ApplyTo(at, n, m) \in V
  BY ApplyToGrown
<1>3. start \in V
  BY CopyTouchedFacts, CopiedGrown DEF Growths
<1>4. ApplyModel(h, args, m) = written[N]
  BY Zenon DEF ApplyModel
<1> HIDE DEF N, V, start
<1>5. Steps(step, V, N)
  BY <1>2 DEF Steps
<1>6. PICK f : Follows(f, V, N, start, step)
  <2> HIDE DEF step
  <2> QED BY <1>1, <1>3, <1>5, RecursionUpTo, Zenon
<1>7. f \in [0..N -> V] /\ f[0] = start /\ \A n \in 1..N : f[n] = ApplyTo(f[n - 1], n, m)
  <2>1. f \in [0..N -> V] /\ f[0] = start /\ \A n \in 1..N : f[n] = step[n][f[n - 1]]
    BY <1>6, Zenon DEF Follows
  <2>2. \A n \in 1..N : f[n - 1] \in V
    BY <1>1, <2>1
  <2> QED BY <2>1, <2>2
<1> HIDE DEF step
<1>8. Is([n \in 0..N |-> f[n]])
  <2> DEFINE g == [n \in 0..N |-> f[n]]
  <2>1. \A n \in 0..N : g[n] = f[n]
    OBVIOUS
  <2>2. g = [n \in 0..N |-> g[n]]
    OBVIOUS
  <2> HIDE DEF g
  <2>3. ASSUME NEW n \in 0..N PROVE g[n] = IF n = 0 THEN start ELSE ApplyTo(g[n - 1], n, m)
    <3>1. n # 0 => n \in 1..N /\ n - 1 \in 0..N
      BY <1>1
    <3> QED BY <1>7, <2>1, <3>1
  <2>4. g = [n \in 0..N |-> IF n = 0 THEN start ELSE ApplyTo(g[n - 1], n, m)]
    BY <2>2, <2>3
  <2> QED BY <2>4 DEF g
<1>9. Is(written)
  <2> HIDE DEF Is
  <2> QED BY <1>8
<1> HIDE DEF written
<1>10. written[0] = start /\ \A n \in 1..N : written[n] = ApplyTo(written[n - 1], n, m)
  <2>1. 0 \in 0..N /\ \A n \in 1..N : n # 0 /\ n \in 0..N
    BY <1>1
  <2> QED BY <1>9, <2>1
<1>11. written \in [0..N -> V]
  <2>1. written = [n \in 0..N |-> written[n]]
    BY <1>9
  <2>2. written[0] \in V /\ \A n \in 1..N : written[n - 1] \in V => written[n] \in V
    BY <1>2, <1>3, <1>10
  <2> HIDE DEF Is
  <2> QED BY <1>1, <2>1, <2>2, StaysUpTo
<1> QED
  BY <1>4, <1>10, <1>11, Zenon DEF V, N, start

(* A model is written into copies only. *)
LEMMA ApplyModelGrown ==
  ASSUME NEW h \in Heaps, NEW args, GivenIn(h, args), Table,
         NEW m, \A i \in 1..Len(binding) : i \in DOMAIN m => m[i] \in Values /\ ~IsRef(m[i])
  PROVE  ApplyModel(h, args, m) \in Growths(h, args)
BY ApplyModelUnrolled, TableFacts

(* Leaves are wrapped from first to last. *)
LEMMA WrapLeavesUnrolled ==
  ASSUME NEW h \in Heaps, NEW args, GivenIn(h, args), Table
  PROVE  \E f \in [0..Len(binding) -> Growths(h, args)] :
           /\ f[0] = CopyTouched(h, args)
           /\ \A i \in 1..Len(binding) : f[i] = WrapLeaf(f[i - 1], i)
           /\ WrapLeaves(h, args) = f[Len(binding)]
<1> DEFINE N == Len(binding)
           V == Growths(h, args)
           start == CopyTouched(h, args)
           step == [n \in 1..N |-> [at \in V |-> WrapLeaf(at, n)]]
           Is(f) == f = [i \in 0..N |-> IF i = 0 THEN start ELSE WrapLeaf(f[i - 1], i)]
           wrapped == CHOOSE f : Is(f)
<1>1. N \in Nat
  BY TableFacts
<1>2. \A at \in V : \A n \in 1..N : WrapLeaf(at, n) \in V
  BY WrapLeafGrown
<1>3. start \in V
  BY CopyTouchedFacts, CopiedGrown DEF Growths
<1>4. WrapLeaves(h, args) = wrapped[N]
  BY Zenon DEF WrapLeaves
<1> HIDE DEF N, V, start
<1>5. Steps(step, V, N)
  BY <1>2 DEF Steps
<1>6. PICK f : Follows(f, V, N, start, step)
  <2> HIDE DEF step
  <2> QED BY <1>1, <1>3, <1>5, RecursionUpTo, Zenon
<1>7. f \in [0..N -> V] /\ f[0] = start /\ \A n \in 1..N : f[n] = WrapLeaf(f[n - 1], n)
  <2>1. f \in [0..N -> V] /\ f[0] = start /\ \A n \in 1..N : f[n] = step[n][f[n - 1]]
    BY <1>6, Zenon DEF Follows
  <2>2. \A n \in 1..N : f[n - 1] \in V
    BY <1>1, <2>1
  <2> QED BY <2>1, <2>2
<1> HIDE DEF step
<1>8. Is([n \in 0..N |-> f[n]])
  <2> DEFINE g == [n \in 0..N |-> f[n]]
  <2>1. \A n \in 0..N : g[n] = f[n]
    OBVIOUS
  <2>2. g = [n \in 0..N |-> g[n]]
    OBVIOUS
  <2> HIDE DEF g
  <2>3. ASSUME NEW n \in 0..N PROVE g[n] = IF n = 0 THEN start ELSE WrapLeaf(g[n - 1], n)
    <3>1. n # 0 => n \in 1..N /\ n - 1 \in 0..N
      BY <1>1
    <3> QED BY <1>7, <2>1, <3>1
  <2>4. g = [n \in 0..N |-> IF n = 0 THEN start ELSE WrapLeaf(g[n - 1], n)]
    BY <2>2, <2>3
  <2> QED BY <2>4 DEF g
<1>9. Is(wrapped)
  <2> HIDE DEF Is
  <2> QED BY <1>8
<1> HIDE DEF wrapped
<1>10. wrapped[0] = start /\ \A n \in 1..N : wrapped[n] = WrapLeaf(wrapped[n - 1], n)
  <2>1. 0 \in 0..N /\ \A n \in 1..N : n # 0 /\ n \in 0..N
    BY <1>1
  <2> QED BY <1>9, <2>1
<1>11. wrapped \in [0..N -> V]
  <2>1. wrapped = [n \in 0..N |-> wrapped[n]]
    BY <1>9
  <2>2. wrapped[0] \in V /\ \A n \in 1..N : wrapped[n - 1] \in V => wrapped[n] \in V
    BY <1>2, <1>3, <1>10
  <2> HIDE DEF Is
  <2> QED BY <1>1, <2>1, <2>2, StaysUpTo
<1> QED
  BY <1>4, <1>10, <1>11, Zenon DEF V, N, start

(* Leaves are wrapped in copies only. *)
LEMMA WrapLeavesGrown ==
  ASSUME NEW h \in Heaps, NEW args, GivenIn(h, args), Table
  PROVE  WrapLeaves(h, args) \in Growths(h, args)
BY WrapLeavesUnrolled, TableFacts

-----------------------------------------------------------------------------
(* What == sees. *)

LEMMA OpenedSame ==
  ASSUME NEW h \in Heaps, NEW g \in Heaps, NEW F, Closed(h, F), F \subseteq DOMAIN g, \A i \in F : g[i] = h[i],
         NEW below, NEW under, \A i \in F : under[i] = below[i]
  PROVE  \A i \in F : Opened(g, under)[i] = Opened(h, below)[i]
<1> SUFFICES ASSUME NEW i \in F PROVE Opened(g, under)[i] = Opened(h, below)[i]
  OBVIOUS
<1> DEFINE cells(b) == [c \in DOMAIN h[i].cells |-> Within(b, h[i].cells[c])]
<1>1. i \in DOMAIN h /\ i \in DOMAIN g /\ g[i] = h[i]
  BY DEF Closed
<1>2. \A c \in DOMAIN h[i].cells : Within(under, h[i].cells[c]) = Within(below, h[i].cells[c])
  BY DEF Within, Closed
<1>3. cells(under) = cells(below)
  BY <1>2
<1>4. Opened(h, below)[i] = [h[i] EXCEPT !.cells = cells(below)]
  BY <1>1 DEF Opened
<1>5. Opened(g, under)[i] = [h[i] EXCEPT !.cells = cells(under)]
  BY <1>1 DEF Opened
<1> HIDE DEF cells
<1> QED BY <1>3, <1>4, <1>5

(* A value looks the same as long as no container it reaches is written. *)
LEMMA TreeSame ==
  ASSUME NEW h \in Heaps, NEW g \in Heaps, NEW F, Closed(h, F), F \subseteq DOMAIN g, \A i \in F : g[i] = h[i],
         NEW v \in Holding(F)
  PROVE  Tree(g, v) = Tree(h, v)
<1> DEFINE H0 == [id \in DOMAIN h |-> Ref(id)]
           G0 == [id \in DOMAIN g |-> Ref(id)]
           H1 == Opened(h, H0)
           G1 == Opened(g, G0)
           H2 == Opened(h, H1)
           G2 == Opened(g, G1)
<1>1. \A i \in F : i \in DOMAIN h /\ i \in DOMAIN g
  BY DEF Closed
<1>2. \A i \in F : G0[i] = H0[i]
  BY <1>1
<1> HIDE DEF G0, H0
<1>3. \A i \in F : G1[i] = H1[i]
  BY <1>2, OpenedSame
<1> HIDE DEF G1, H1
<1>4. \A i \in F : G2[i] = H2[i]
  BY <1>3, OpenedSame
<1> HIDE DEF G2, H2
<1>5. \A i \in F : Opened(g, G2)[i] = Opened(h, H2)[i]
  BY <1>4, OpenedSame
<1>6. Tree(g, v) = Within(Opened(g, G2), v) /\ Tree(h, v) = Within(Opened(h, H2), v)
  BY DEF Tree, G0, G1, G2, H0, H1, H2
<1> QED BY <1>5, <1>6 DEF Within, Holding

-----------------------------------------------------------------------------
(* The call. *)

(* A parameter of the target holds its default or what was given for some name. *)
LEMMA SplitArgsFacts ==
  ASSUME NEW args
  PROVE  /\ SplitArgs(args) \in Seq({Default} \cup {args[p] : p \in DOMAIN args})
         /\ Len(SplitArgs(args)) = Len(Signature)
<1> DEFINE slots == {i \in 1..Len(Signature) : Signature[i].positional}
           filling == {i \in slots : Reaches(args, i)}
           Sources(i) ==
             IF i \in slots THEN {j \in filling : Rank(filling, j) = Rank(slots, i)}
             ELSE {j \in {i} : Reaches(args, j)}
           ValueAt(i) ==
             IF Sources(i) = {} THEN Default
             ELSE args[Signature[CHOOSE j \in Sources(i) : TRUE].name]
           N == Len(Signature)
           S == {Default} \cup {args[p] : p \in DOMAIN args}
<1>1. N \in Nat
  BY SignatureFacts
<1>2. SplitArgs(args) = [i \in 1..N |-> ValueAt(i)]
  BY DEF SplitArgs
<1>3. \A i : \A j \in Sources(i) : Reaches(args, j)
  OBVIOUS
<1> HIDE DEF N, Sources
<1>4. ASSUME NEW i \in 1..N PROVE ValueAt(i) \in S
  <2>1. CASE Sources(i) = {}
    BY <2>1
  <2>2. CASE Sources(i) # {}
    <3> DEFINE j == CHOOSE j \in Sources(i) : TRUE
    <3>1. j \in Sources(i)
      BY <2>2
    <3>2. ValueAt(i) = args[Signature[j].name]
      BY <2>2
    <3>3. Signature[j].name \in DOMAIN args
      BY <1>3, <3>1 DEF Reaches
    <3> HIDE DEF ValueAt, j
    <3> QED BY <3>2, <3>3
  <2> QED BY <2>1, <2>2
<1> HIDE DEF ValueAt, S
<1>5. [i \in 1..N |-> ValueAt(i)] \in Seq(S) /\ Len([i \in 1..N |-> ValueAt(i)]) = N
  BY <1>1, <1>4
<1> QED BY <1>2, <1>5 DEF N, S

-----------------------------------------------------------------------------
(* Sequences of what they hold. *)

LEMMA OwnSeq ==
  ASSUME NEW S, NEW s \in Seq(S)
  PROVE  s \in Seq(ToSet(s)) /\ ToSet(s) \subseteq S
         /\ Len(s) \in Nat /\ DOMAIN s = 1..Len(s) /\ ToSet(s) = {s[i] : i \in 1..Len(s)}
<1> DEFINE N == Len(s)
<1>1. N \in Nat /\ DOMAIN s = 1..N /\ s = [i \in 1..N |-> s[i]] /\ \A i \in 1..N : s[i] \in S
  BY LenProperties, ElementOfSeq
<1> HIDE DEF N
<1>2. ToSet(s) = {s[i] : i \in 1..N}
  BY <1>1 DEF ToSet
<1>3. \A i \in 1..N : s[i] \in ToSet(s)
  BY <1>2
<1>4. [i \in 1..N |-> s[i]] \in Seq(ToSet(s))
  BY <1>1, <1>3
<1>5. s \in Seq(ToSet(s))
  BY <1>1, <1>4
<1> QED BY <1>1, <1>2, <1>5 DEF N

LEMMA OwnAppend ==
  ASSUME NEW s, s \in Seq(ToSet(s)), NEW x
  PROVE  LET r == Append(s, x)
         IN  /\ r \in Seq(ToSet(r)) /\ Len(r) = Len(s) + 1 /\ Len(s) \in Nat
             /\ \A i \in 1..Len(s) : r[i] = s[i]
             /\ r[Len(s) + 1] = x
             /\ \A i \in 1..Len(r) : i \in 1..Len(s) \/ i = Len(s) + 1
<1> DEFINE S == ToSet(s) \cup {x}
           r == Append(s, x)
<1>1. \A t : t \in Seq(ToSet(s)) => t \in Seq(S)
  <2> HIDE DEF S
  <2>1. ToSet(s) \subseteq S
    BY DEF S
  <2> QED BY <2>1
<1>2. s \in Seq(S) /\ x \in S
  BY <1>1
<1> HIDE DEF S
<1>3. /\ r \in Seq(S) /\ Len(r) = Len(s) + 1 /\ Len(s) \in Nat
      /\ \A i \in 1..Len(s) : r[i] = s[i]
      /\ r[Len(s) + 1] = x
  BY <1>2, AppendProperties, LenProperties
<1> HIDE DEF r
<1>4. r \in Seq(ToSet(r))
  BY <1>3, OwnSeq
<1>5. \A i \in 1..Len(r) : i \in 1..Len(s) \/ i = Len(s) + 1
  BY <1>3
<1> QED BY <1>3, <1>4, <1>5 DEF r

-----------------------------------------------------------------------------
(* The target and what is left behind it. *)

LEMMA Greatest ==
  ASSUME NEW N \in Nat, NEW S \in SUBSET (0..N), S # {}
  PROVE  Max(S) \in S /\ \A y \in S : y <= Max(S)
<1> DEFINE U == {m \in Nat : \A y \in S : y <= m}
<1>1. N \in U
  OBVIOUS
<1>2. PICK m \in U : \A k \in U : m <= k
  <2>1. U \in SUBSET Nat /\ U # {}
    BY <1>1
  <2> HIDE DEF U
  <2> QED BY <2>1, LeastNatural
<1>3. m \in S
  <2> SUFFICES ASSUME m \notin S PROVE FALSE
    OBVIOUS
  <2>1. PICK y \in S : TRUE
    OBVIOUS
  <2>2. m \in Nat /\ y \in Nat /\ y <= m /\ y # m
    BY <1>2, <2>1
  <2>3. m - 1 \in Nat /\ \A x \in S : x <= m - 1
    BY <1>2, <2>2
  <2>4. m - 1 \in U
    BY <2>3
  <2> QED BY <1>2, <2>2, <2>4
<1>4. \A y \in S : m >= y
  BY <1>2, <1>3
<1>5. Max(S) \in S /\ \A y \in S : Max(S) >= y
  BY <1>3, <1>4, Zenon DEF Max
<1> QED BY <1>5

\* Inputs still to be tried, tried or to be changed.
Kept == {initial} \cup ToSet(queue) \cup {records[i].args : i \in 1..Len(records)}

(* What is kept stays where it is. *)
LEMMA CollectedFacts ==
  ASSUME NEW h \in Heaps, \A args \in Kept : GivenIn(h, args)
  PROVE  /\ Collected(h) \in Heaps
         /\ \E live : /\ Closed(h, live)
                      /\ live \subseteq DOMAIN Collected(h) /\ \A i \in live : Collected(h)[i] = h[i]
                      /\ \A args \in Kept : \A p \in DOMAIN args : args[p] \in Holding(live)
<1> DEFINE live == UNION {UNION {Reach(h, args[p]) : p \in DOMAIN args} : args \in Kept}
           N == Max(live \cup {0})
           g == Collected(h)
           none == [kind |-> "opaque", cells |-> <<>>]
<1>1. \A args \in Kept : \A p \in DOMAIN args :
        /\ args[p] \in Values /\ In(h, args[p]) /\ Reach(h, args[p]) \subseteq live
        /\ Closed(h, Reach(h, args[p])) /\ (IsRef(args[p]) => args[p].val \in Reach(h, args[p]))
  <2> SUFFICES ASSUME NEW args \in Kept, NEW p \in DOMAIN args
               PROVE  /\ args[p] \in Values /\ In(h, args[p]) /\ Reach(h, args[p]) \subseteq live
                      /\ Closed(h, Reach(h, args[p])) /\ (IsRef(args[p]) => args[p].val \in Reach(h, args[p]))
    OBVIOUS
  <2>1. args[p] \in Values /\ In(h, args[p])
    BY DEF GivenIn
  <2>2. Reach(h, args[p]) \subseteq live
    OBVIOUS
  <2> QED BY <2>1, <2>2, ReachFacts
<1>2. \A i \in live : \E args \in Kept : \E p \in DOMAIN args : i \in Reach(h, args[p])
  OBVIOUS
<1>3. g = [id \in 1..N |-> IF id \in live THEN h[id] ELSE none]
  BY DEF Collected, Kept
<1> HIDE DEF live, Kept
<1>4. Closed(h, live)
  <2>1. live \subseteq DOMAIN h
    BY <1>1, <1>2 DEF Closed
  <2>2. ASSUME NEW id \in live, NEW c \in DOMAIN h[id].cells, IsRef(h[id].cells[c])
        PROVE  h[id].cells[c].val \in live
    <3>1. PICK args \in Kept : \E p \in DOMAIN args : id \in Reach(h, args[p])
      BY <1>2
    <3>2. PICK p \in DOMAIN args : id \in Reach(h, args[p])
      BY <3>1
    <3>3. Closed(h, Reach(h, args[p])) /\ Reach(h, args[p]) \subseteq live
      BY <1>1
    <3>4. h[id].cells[c].val \in Reach(h, args[p])
      BY <2>2, <3>2, <3>3 DEF Closed
    <3> QED BY <3>3, <3>4
  <2> QED BY <2>1, <2>2 DEF Closed
<1>5. N \in Nat /\ \A i \in live : i \in 1..N
  <2>1. Len(h) \in Nat /\ live \subseteq 1..Len(h)
    BY <1>4, HeapFacts DEF Closed
  <2>2. live \cup {0} \in SUBSET (0..Len(h)) /\ live \cup {0} # {}
    BY <2>1
  <2>3. N \in live \cup {0} /\ \A i \in live \cup {0} : i <= N
    BY <2>1, <2>2, Greatest
  <2> HIDE DEF N
  <2> QED BY <2>1, <2>3
<1> HIDE DEF N, g
<1>6. none \in Containers /\ none.cells = <<>>
  <2>1. <<>> \in Seq(Values)
    OBVIOUS
  <2> QED BY <2>1 DEF Containers
<1> HIDE DEF none
<1>7. DOMAIN g = 1..N /\ \A i \in 1..N : g[i] = IF i \in live THEN h[i] ELSE none
  BY <1>3
<1>8. \A i \in 1..N : g[i] \in Containers
  BY <1>4, <1>6, <1>7, HeapFacts DEF Closed
<1>9. g \in Seq(Containers)
  <2>1. g = [i \in 1..N |-> g[i]]
    BY <1>3
  <2>2. [i \in 1..N |-> g[i]] \in Seq(Containers)
    BY <1>5, <1>8
  <2> QED BY <2>1, <2>2
<1>10. ASSUME NEW i \in DOMAIN g, NEW c \in DOMAIN g[i].cells PROVE In(g, g[i].cells[c])
  <2>1. CASE i \in live
    BY <1>4, <1>5, <1>7, <1>10, <2>1 DEF Closed, In
  <2>2. CASE i \notin live
    BY <1>6, <1>7, <1>10, <2>2
  <2> QED BY <2>1, <2>2
<1>11. g \in Heaps
  BY <1>9, <1>10 DEF Heaps
<1>12. \A args \in Kept : \A p \in DOMAIN args : args[p] \in Holding(live)
  BY <1>1 DEF Holding
<1>13. live \subseteq DOMAIN g /\ \A i \in live : g[i] = h[i]
  BY <1>5, <1>7
<1> QED BY <1>4, <1>11, <1>12, <1>13 DEF g

LEMMA ListOf ==
  ASSUME NEW S, NEW N \in Nat, NEW f, f = [i \in 1..N |-> f[i]], \A i \in 1..N : f[i] \in S
  PROVE  f \in Seq(S) /\ Len(f) = N
<1>1. [i \in 1..N |-> f[i]] \in Seq(S) /\ Len([i \in 1..N |-> f[i]]) = N
  OBVIOUS
<1> QED BY <1>1

(* A container exchanged for one that holds nothing of others. *)
LEMMA CellsChanged ==
  ASSUME NEW h \in Heaps, NEW S, Closed(h, S), NEW id \in S,
         NEW cells \in Seq(Values), \A c \in DOMAIN cells : cells[c] \in Holding(S),
         NEW g, g = [h EXCEPT ![id].cells = cells]
  PROVE  /\ g \in Heaps /\ DOMAIN g = DOMAIN h /\ Closed(g, S)
         /\ \A i \in DOMAIN h \ S : g[i] = h[i]
<1> DEFINE N == Len(h)
           o == [h[id] EXCEPT !.cells = cells]
<1>1. /\ N \in Nat /\ DOMAIN h = 1..N /\ h \in Seq(Containers) /\ id \in 1..N
      /\ \A i \in 1..N : h[i] \in Containers
  BY HeapFacts DEF Closed
<1> HIDE DEF N
<1>2. o \in Containers /\ o.cells = cells
  BY <1>1 DEF Containers
<1>3. g = [h EXCEPT ![id] = o]
  BY <1>1
<1> HIDE DEF o
<1>4. DOMAIN g = 1..N /\ g[id] = o /\ \A i \in 1..N : i # id => g[i] = h[i]
  BY <1>1, <1>3
<1>5. g \in Seq(Containers)
  <2>1. \A i \in 1..N : g[i] \in Containers
    BY <1>1, <1>2, <1>4
  <2>2. g = [i \in 1..N |-> g[i]]
    BY <1>1, <1>3
  <2>3. N \in Nat
    BY <1>1
  <2>4. g \in Seq(Containers) /\ Len(g) = N
    BY ONLY <2>1, <2>2, <2>3, ListOf
  <2> QED BY <2>4
<1>6. Closed(g, S)
  <2>1. \A c \in DOMAIN g[id].cells : IsRef(g[id].cells[c]) => g[id].cells[c].val \in S
    BY <1>2, <1>4 DEF Holding
  <2> QED BY <1>1, <1>4, <2>1 DEF Closed
<1>7. ASSUME NEW i \in DOMAIN g, NEW c \in DOMAIN g[i].cells PROVE In(g, g[i].cells[c])
  <2>1. CASE i \in S
    BY <1>6, <1>7, <2>1 DEF Closed, In
  <2>2. CASE i \notin S
    BY <1>1, <1>4, <1>7, <2>2, HeapFacts DEF In
  <2> QED BY <2>1, <2>2
<1>8. g \in Heaps
  BY <1>5, <1>7 DEF Heaps
<1> QED BY <1>1, <1>4, <1>6, <1>8

(* A write of the target stays in the container it goes to. *)
LEMMA WriteFacts ==
  ASSUME NEW h \in Heaps, NEW S, Closed(h, S), NEW id \in S, NEW v \in Values, ~IsRef(v), NEW g,
         \/ \E c \in DOMAIN h[id].cells : g = [h EXCEPT ![id].cells[c] = v]
         \/ g = [h EXCEPT ![id].cells = Append(@, v)]
         \/ h[id].cells # <<>> /\ g = [h EXCEPT ![id].cells = Front(@)]
  PROVE  /\ g \in Heaps /\ DOMAIN g = DOMAIN h /\ Closed(g, S)
         /\ \A i \in DOMAIN h \ S : g[i] = h[i]
<1> DEFINE old == h[id].cells
           L == Len(old)
<1>1. /\ id \in DOMAIN h /\ old \in Seq(Values) /\ DOMAIN old = 1..L /\ L \in Nat
      /\ \A c \in 1..L : old[c] \in Holding(S)
  BY HeapFacts DEF Closed, Holding
<1>2. v \in Holding(S)
  BY DEF Holding
<1>3. ASSUME NEW cells \in Seq(Values), \A c \in DOMAIN cells : cells[c] \in Holding(S),
             g = [h EXCEPT ![id].cells = cells]
      PROVE  /\ g \in Heaps /\ DOMAIN g = DOMAIN h /\ Closed(g, S)
             /\ \A i \in DOMAIN h \ S : g[i] = h[i]
  BY <1>3, CellsChanged
<1>4. ASSUME NEW c \in DOMAIN old, g = [h EXCEPT ![id].cells[c] = v]
      PROVE  /\ g \in Heaps /\ DOMAIN g = DOMAIN h /\ Closed(g, S)
             /\ \A i \in DOMAIN h \ S : g[i] = h[i]
  <2> DEFINE cells == [old EXCEPT ![c] = v]
  <2>1. g = [h EXCEPT ![id].cells = cells]
    BY <1>4
  <2>2. DOMAIN cells = 1..L /\ \A k \in 1..L : cells[k] = IF k = c THEN v ELSE old[k]
    BY <1>1
  <2>3. cells = [k \in 1..L |-> cells[k]]
    BY <1>1
  <2> HIDE DEF cells, L, old
  <2>4. \A k \in 1..L : cells[k] \in Holding(S) /\ cells[k] \in Values
    BY <1>1, <1>2, <2>2 DEF Holding
  <2>5. [k \in 1..L |-> cells[k]] \in Seq(Values)
    BY <1>1, <2>4
  <2>6. cells \in Seq(Values)
    BY <2>3, <2>5
  <2> QED BY <1>3, <2>1, <2>2, <2>4, <2>6
<1>5. CASE g = [h EXCEPT ![id].cells = Append(@, v)]
  <2> DEFINE cells == Append(old, v)
  <2>1. g = [h EXCEPT ![id].cells = cells]
    BY <1>5
  <2> HIDE DEF old
  <2>2. /\ cells \in Seq(Values) /\ Len(cells) = L + 1
        /\ \A k \in 1..L : cells[k] = old[k]
        /\ cells[L + 1] = v
    BY <1>1, AppendProperties
  <2>3. DOMAIN cells = 1..Len(cells)
    BY <2>2, LenProperties
  <2> HIDE DEF cells, L
  <2>4. \A k \in DOMAIN cells : k \in 1..L \/ k = L + 1
    BY <1>1, <2>2, <2>3
  <2>5. \A k \in DOMAIN cells : cells[k] \in Holding(S)
    BY <1>1, <1>2, <2>2, <2>4
  <2> QED BY <1>3, <2>1, <2>2, <2>5
<1>6. CASE old # <<>> /\ g = [h EXCEPT ![id].cells = Front(@)]
  <2> DEFINE cells == Front(old)
  <2>1. g = [h EXCEPT ![id].cells = cells]
    BY <1>6
  <2> HIDE DEF old
  <2>2. cells \in Seq(Values) /\ Len(cells) = L - 1 /\ \A k \in 1..L - 1 : cells[k] = old[k]
    BY <1>1, <1>6, FrontFacts
  <2>3. DOMAIN cells = 1..Len(cells)
    BY <2>2, LenProperties
  <2> HIDE DEF cells, L
  <2>4. \A k \in DOMAIN cells : k \in 1..L /\ k \in 1..L - 1
    BY <1>1, <2>2, <2>3
  <2>5. \A k \in DOMAIN cells : cells[k] \in Holding(S)
    BY <1>1, <2>2, <2>4
  <2> QED BY <1>3, <2>1, <2>2, <2>5
<1> QED BY <1>4, <1>5, <1>6

-----------------------------------------------------------------------------
(* The invariant: containers of parameters with leaves and containers that the *)
(* target can come to are apart.                                             *)

\* F has what parameters with leaves hold, W what is passed by reference.
Parted(args, F, W) ==
    \A p \in DOMAIN args : /\ p \in Touched /\ Private(p) => args[p] \in Holding(F)
                           /\ p \notin Touched => args[p] \in Holding(W)

Held == Kept \cup {args \in {given} : pc = "given"}

Apart(F, W) ==
    /\ Closed(heap, F) /\ Closed(heap, W) /\ F \cap W = {}
    /\ \A args \in Held : Parted(args, F, W)
    /\ pc = "running" => \A i \in 1..Len(bound) : bound[i] \in Holding(W)

TypeInv ==
    /\ heap \in Heaps
    /\ Table
    /\ queue \in Seq(ToSet(queue)) /\ records \in Seq(ToSet(records))
    /\ \A args \in Held : GivenIn(heap, args)

ApartInv == TypeInv /\ (\E F, W : Apart(F, W)) /\ RecordsShowInputs

LEMMA SameTable ==
  ASSUME UNCHANGED <<binding, origin>>
  PROVE  /\ Touched' = Touched
         /\ \A p : Private(p)' <=> Private(p)
         /\ Table' <=> Table
         /\ \A args, F, W : Parted(args, F, W)' <=> Parted(args, F, W)
<1>1. Touched' = Touched
  BY DEF Touched
<1>2. \A p : StartReach(p)' = StartReach(p)
  BY DEF StartReach
<1>3. \A p : Private(p)' <=> Private(p)
  BY <1>1, <1>2 DEF Private
<1>4. Table' <=> Table
  BY DEF Table
<1>5. \A args, F, W : Parted(args, F, W)' <=> Parted(args, F, W)
  BY <1>1, <1>3 DEF Parted
<1> QED BY <1>1, <1>3, <1>4, <1>5

LEMMA PartedGrows ==
  ASSUME NEW args, NEW F, NEW W, Parted(args, F, W), NEW G, NEW X, F \subseteq G, W \subseteq X
  PROVE  Parted(args, G, X)
BY DEF Parted, Holding

LEMMA GivenGrows ==
  ASSUME NEW h, NEW g, DOMAIN h \subseteq DOMAIN g, NEW args, GivenIn(h, args)
  PROVE  GivenIn(g, args)
BY DEF GivenIn, In

(* Records show what they showed while what they hold stays as it is. *)
LEMMA StillShown ==
  ASSUME RecordsShowInputs, heap \in Heaps, heap' \in Heaps,
         NEW F, Closed(heap, F), F \subseteq DOMAIN heap', \A i \in F : heap'[i] = heap[i],
         NEW W, \A args \in Kept : Parted(args, F, W)
  PROVE  \A k \in 1..Len(records) : \A p \in DOMAIN records[k].args \cap Touched :
           Private(p) => Tree(heap', records[k].args[p]) = records[k].was[p]
<1> SUFFICES ASSUME NEW k \in 1..Len(records), NEW p \in DOMAIN records[k].args \cap Touched, Private(p)
             PROVE  Tree(heap', records[k].args[p]) = records[k].was[p]
  OBVIOUS
<1>1. records[k].args \in Kept
  BY DEF Kept
<1>2. records[k].args[p] \in Holding(F)
  BY <1>1 DEF Parted
<1>3. Tree(heap', records[k].args[p]) = Tree(heap, records[k].args[p])
  BY <1>2, TreeSame
<1>4. Tree(heap, records[k].args[p]) = records[k].was[p]
  BY DEF RecordsShowInputs
<1> QED BY <1>3, <1>4

(* With the same containers and records, what is held need only come from what was. *)
LEMMA SameHeap ==
  ASSUME ApartInv, UNCHANGED <<heap, binding, origin, records>>, queue' \in Seq(ToSet(queue')),
         \A args \in Held' : GivenIn(heap, args),
         \A F, W : Apart(F, W) => \A args \in Held' : Parted(args, F, W),
         pc' = "running" => pc = "running" /\ bound' = bound
  PROVE  ApartInv'
<1>1. TypeInv'
  BY SameTable DEF ApartInv, TypeInv
<1>2. (\E F, W : Apart(F, W))'
  <2>1. PICK F, W : Apart(F, W)
    BY DEF ApartInv
  <2>2. \A args \in Held' : Parted(args, F, W)'
    BY <2>1, SameTable
  <2>3. Apart(F, W)'
    BY <2>1, <2>2 DEF Apart
  <2> QED BY <2>3
<1>3. RecordsShowInputs'
  BY SameTable DEF ApartInv, RecordsShowInputs
<1> QED BY <1>1, <1>2, <1>3 DEF ApartInv

LEMMA InitApart == Init => ApartInv
<1> SUFFICES ASSUME Init PROVE ApartInv
  OBVIOUS
<1>1. PICK t \in Templates :
        /\ heap = t.heap
        /\ initial = t.args
        /\ queue = << t.args >> \o t.seeds
        /\ binding = BuildBinding(t.heap, t.args, t.order)
        /\ origin = [heap |-> t.heap, args |-> t.args, starts |-> {t.args} \cup ToSet(t.seeds)]
  BY DEF Init
<1>2. records = <<>> /\ pc = "next"
  BY DEF Init
<1> DEFINE starts == {t.args} \cup ToSet(t.seeds)
<1>3. /\ t.heap \in Heaps /\ t.seeds \in Seq(ToSet(t.seeds))
      /\ \A args \in starts : GivenIn(t.heap, args)
  BY BindingAssumption
<1>4. origin.heap = t.heap /\ origin.args = t.args /\ origin.starts = starts
  BY <1>1
<1>5. queue \in Seq(ToSet(queue)) /\ ToSet(queue) \subseteq starts
  <2>1. \A s : s \in Seq(ToSet(t.seeds)) => s \in Seq(starts)
    <3>1. ToSet(t.seeds) \subseteq starts
      OBVIOUS
    <3> HIDE DEF starts
    <3> QED BY <3>1
  <2>2. t.seeds \in Seq(starts) /\ << t.args >> \in Seq(starts)
    BY <1>3, <2>1
  <2> HIDE DEF starts
  <2>3. queue \in Seq(starts)
    BY <1>1, <2>2
  <2> QED BY <2>3, OwnSeq
<1>6. Kept \subseteq starts /\ Held = Kept
  BY <1>1, <1>2, <1>5 DEF Kept, Held
<1> HIDE DEF starts
<1>7. Table
  <2>1. GivenIn(t.heap, t.args)
    BY <1>3 DEF starts
  <2>2. Unnamed(t.heap, t.args)
    BY BindingAssumption DEF Unnamed
  <2>3. Ordered(t.args, t.order)
    <3>1. /\ Len(t.order) \in Nat /\ DOMAIN t.order = 1..Len(t.order)
          /\ ToSet(t.order) = DOMAIN t.args
          /\ DOMAIN t.args \subseteq {Signature[i].name : i \in DOMAIN Signature}
          /\ DOMAIN Signature = 1..Len(Signature)
      BY BindingAssumption
    <3>2. \A n \in 1..Len(t.order) : t.order[n] \in ToSet(t.order)
      BY <3>1 DEF ToSet
    <3> QED BY <3>1, <3>2 DEF Ordered
  <2>4. BuildBinding(t.heap, t.args, t.order) \in Seq(Leaves(t.heap, t.args))
    BY <1>3, <2>1, <2>2, <2>3, BindingFacts
  <2> QED BY <1>1, <1>4, <2>4 DEF Table
<1>8. TypeInv
  <2>1. records \in Seq(ToSet(records))
    BY <1>2
  <2> QED BY <1>1, <1>3, <1>5, <1>6, <1>7, <2>1 DEF TypeInv
<1>9. \E F, W : Apart(F, W)
  <2> DEFINE F == UNION {StartReach(p) : p \in {n \in Touched : Private(n)}}
             W == UNION {StartReach(q) : q \in Names \ Touched}
  <2>1. \A p : \A x \in StartReach(p) :
          \E args \in starts : p \in DOMAIN args /\ x \in Reach(heap, args[p])
    BY <1>1, <1>4 DEF StartReach
  <2>2. \A p : \A args \in starts : p \in DOMAIN args => Reach(heap, args[p]) \subseteq StartReach(p)
    BY <1>1, <1>4 DEF StartReach
  <2>3. ASSUME NEW args \in starts, NEW p \in DOMAIN args
        PROVE  /\ p \in Names /\ args[p] \in Holding(StartReach(p))
               /\ Closed(heap, Reach(heap, args[p]))
    <3>1. p \in Names /\ args[p] \in Values /\ In(heap, args[p]) /\ heap \in Heaps
      BY <1>1, <1>3 DEF GivenIn
    <3>2. Closed(heap, Reach(heap, args[p])) /\ (IsRef(args[p]) => args[p].val \in Reach(heap, args[p]))
      BY <3>1, ReachFacts
    <3> QED BY <2>2, <3>1, <3>2 DEF Holding
  <2>4. \A p : Closed(heap, StartReach(p))
    <3> SUFFICES ASSUME NEW p PROVE Closed(heap, StartReach(p))
      OBVIOUS
    <3>1. StartReach(p) \subseteq DOMAIN heap
      BY <2>1, <2>3 DEF Closed
    <3>2. ASSUME NEW id \in StartReach(p), NEW c \in DOMAIN heap[id].cells, IsRef(heap[id].cells[c])
          PROVE  heap[id].cells[c].val \in StartReach(p)
      <4>1. PICK args \in starts : p \in DOMAIN args /\ id \in Reach(heap, args[p])
        BY <2>1
      <4>2. heap[id].cells[c].val \in Reach(heap, args[p])
        BY <2>3, <3>2, <4>1 DEF Closed
      <4> QED BY <2>2, <4>1, <4>2
    <3> QED BY <3>1, <3>2 DEF Closed
  <2>5. /\ \A x \in F : \E p \in Touched : Private(p) /\ x \in StartReach(p)
        /\ \A p \in Touched : Private(p) => StartReach(p) \subseteq F
        /\ \A x \in W : \E q \in Names \ Touched : x \in StartReach(q)
        /\ \A q \in Names \ Touched : StartReach(q) \subseteq W
    OBVIOUS
  <2> HIDE DEF F, W
  <2>6. Closed(heap, F)
    BY <2>4, <2>5 DEF Closed
  <2>7. Closed(heap, W)
    BY <2>4, <2>5 DEF Closed
  <2>8. F \cap W = {}
    BY <2>5 DEF Private
  <2>9. \A args \in Held : Parted(args, F, W)
    BY <1>6, <2>3, <2>5 DEF Parted, Holding
  <2>10. Apart(F, W)
    BY <1>2, <2>6, <2>7, <2>8, <2>9 DEF Apart
  <2> QED BY <2>10
<1>10. RecordsShowInputs
  <2>1. Len(records) = 0
    BY <1>2
  <2> QED BY <2>1 DEF RecordsShowInputs
<1> QED BY <1>8, <1>9, <1>10 DEF ApartInv

(* An input tried or left out was on the queue. *)
LEMMA PopQueueApart == ApartInv /\ PopQueue => ApartInv'
<1> SUFFICES ASSUME ApartInv, PopQueue PROVE ApartInv'
  OBVIOUS
<1>1. /\ UNCHANGED <<heap, binding, origin, records, initial, bound>>
      /\ queue # <<>> /\ queue' = Tail(queue) /\ queue \in Seq(ToSet(queue))
      /\ pc' = "next" \/ (pc' = "given" /\ given' = Head(queue))
  BY DEF PopQueue, ApartInv, TypeInv
<1>2. /\ queue' \in Seq(ToSet(queue)) /\ Head(queue) \in ToSet(queue)
  BY <1>1, HeadTailProperties
<1>3. queue' \in Seq(ToSet(queue')) /\ ToSet(queue') \subseteq ToSet(queue)
  BY <1>2, OwnSeq
<1>4. Held' \subseteq Held
  <2>1. Kept' \subseteq Kept
    BY <1>1, <1>3 DEF Kept
  <2>2. Held' \subseteq Kept' \cup ToSet(queue)
    BY <1>1, <1>2 DEF Held
  <2>3. ToSet(queue) \subseteq Kept /\ Kept \subseteq Held
    BY DEF Kept, Held
  <2> QED BY <2>1, <2>2, <2>3
<1>5. pc' # "running"
  BY <1>1
<1> QED
  BY <1>1, <1>3, <1>4, <1>5, SameHeap DEF ApartInv, TypeInv, Apart

LEMMA ResolveApart == ApartInv /\ Resolve => ApartInv'
<1> SUFFICES ASSUME ApartInv, Resolve PROVE ApartInv'
  OBVIOUS
<1>1. /\ UNCHANGED <<heap, binding, origin, records, initial, queue, bound>>
      /\ pc' = "given"
  BY DEF Resolve
<1>2. PICK p \in DOMAIN initial, v \in {Value("Int", n) : n \in Numbers} \cup {Value("None", 0)} :
        given' = [initial EXCEPT ![p] = v]
  BY DEF Resolve
<1>3. v \in Values /\ ~IsRef(v)
  <2>1. Numbers \subseteq Int /\ 0 \in Int
    BY BindingAssumption
  <2> QED BY <2>1, ValueFacts DEF Sorts
<1>4. initial \in Kept /\ Kept \subseteq Held /\ Kept' = Kept /\ Held' = Kept \cup {given'}
  BY <1>1 DEF Kept, Held
<1>5. GivenIn(heap, initial)
  BY <1>4 DEF ApartInv, TypeInv
<1>6. DOMAIN given' = DOMAIN initial /\ \A q \in DOMAIN initial : given'[q] = IF q = p THEN v ELSE initial[q]
  BY <1>2
<1>7. GivenIn(heap, given')
  <2>1. \A q \in DOMAIN given' : given'[q] \in Values /\ In(heap, given'[q])
    BY <1>3, <1>5, <1>6 DEF GivenIn, In
  <2>2. given' = [q \in DOMAIN given' |-> given'[q]]
    BY <1>2
  <2> QED BY <1>5, <1>6, <2>1, <2>2 DEF GivenIn
<1>8. \A F, W : Parted(initial, F, W) => Parted(given', F, W)
  BY <1>3, <1>6 DEF Parted, Holding
<1>9. \A args \in Held' : GivenIn(heap, args)
  BY <1>4, <1>7 DEF ApartInv, TypeInv
<1>10. \A F, W : Apart(F, W) => \A args \in Held' : Parted(args, F, W)
  BY <1>4, <1>8 DEF Apart
<1> QED
  BY <1>1, <1>9, <1>10, SameHeap DEF ApartInv, TypeInv

(* A model gives primitives of the sorts of the leaves. *)
LEMMA ModelFacts ==
  ASSUME Table, NEW m \in Models
  PROVE  \A i \in 1..Len(binding) : i \in DOMAIN m =>
           m[i] \in Values /\ ~IsRef(m[i]) /\ m[i].sort = binding[i].sort /\ m[i].sym = NoSymbol
<1> DEFINE Choice(i) == {Value(binding[i].sort, n) : n \in Numbers}
<1>1. PICK k \in 1..Len(binding) : m \in [1..k -> UNION {Choice(i) : i \in 1..k}] /\ \A i \in 1..k : m[i] \in Choice(i)
  BY DEF Models
<1>2. Numbers \subseteq Int
  BY BindingAssumption
<1> SUFFICES ASSUME NEW i \in 1..Len(binding), i \in DOMAIN m
             PROVE  m[i] \in Values /\ ~IsRef(m[i]) /\ m[i].sort = binding[i].sort /\ m[i].sym = NoSymbol
  OBVIOUS
<1>3. PICK n \in Numbers : m[i] = Value(binding[i].sort, n)
  BY <1>1
<1>4. binding[i].sort \in Sorts
  BY TableFacts
<1>5. \A sort, val : Value(sort, val).sym = NoSymbol
  BY DEF Value
<1> QED BY <1>2, <1>3, <1>4, <1>5, ValueFacts DEF Sorts

(* An input made from a model has its leaves in new containers. *)
LEMMA SolveApart == ApartInv /\ Solve => ApartInv'
<1> SUFFICES ASSUME ApartInv, Solve PROVE ApartInv'
  OBVIOUS
<1>1. UNCHANGED <<binding, origin, records, initial, queue, bound>> /\ pc = "next"
  BY DEF Solve
<1>2. heap \in Heaps /\ Table /\ initial \in Kept /\ Kept = Held /\ Kept' = Kept /\ GivenIn(heap, initial)
  BY <1>1 DEF ApartInv, TypeInv, Kept, Held
<1> DEFINE Made(m) == ApplyModel(heap, initial, m)
<1>3. PICK m \in Models :
        \/ pc' = "raised" /\ UNCHANGED <<heap, given>>
        \/ UNCHANGED <<heap, given, model, pc>>
        \/ Made(m) # Raised /\ heap' = Made(m).heap /\ given' = Made(m).args /\ pc' = "given"
  BY DEF Solve
<1>4. CASE (pc' = "raised" \/ pc' = pc) /\ heap' = heap
  <2>1. Held' \subseteq Kept /\ pc' # "running"
    BY <1>1, <1>2, <1>4 DEF Held
  <2> QED
    BY <1>1, <1>2, <1>4, <2>1, SameHeap DEF ApartInv, TypeInv, Apart
<1>5. CASE Made(m) # Raised /\ heap' = Made(m).heap /\ given' = Made(m).args /\ pc' = "given"
  <2> DEFINE at == Made(m)
             fresh == New(heap, at.heap)
  <2>1. Grown(heap, initial, at)
    BY <1>2, <1>5, ModelFacts, ApplyModelGrown DEF Growths
  <2>2. /\ heap' = at.heap /\ given' = at.args /\ pc' = "given"
        /\ Held' = Kept \cup {given'}
    BY <1>2, <1>5 DEF Held
  <2> HIDE DEF at, Made
  <2>3. /\ heap' \in Heaps /\ DOMAIN heap \subseteq DOMAIN heap' /\ \A i \in DOMAIN heap : heap'[i] = heap[i]
        /\ Closed(heap', fresh) /\ fresh \cap DOMAIN heap = {}
    BY <1>2, <2>1, <2>2, ExtendsFacts DEF Grown
  <2>4. /\ DOMAIN given' = DOMAIN initial /\ GivenIn(heap', given')
        /\ \A p \in DOMAIN initial : p \in Touched => given'[p] \in Holding(fresh)
        /\ \A p \in DOMAIN initial : p \notin Touched => given'[p] = initial[p]
    BY <1>2, <2>1, <2>2 DEF Grown, States, GivenIn
  <2> HIDE DEF fresh
  <2>5. PICK F, W : Apart(F, W)
    BY DEF ApartInv
  <2> DEFINE grown == F \cup fresh
  <2>6. PICK G : G = grown
    OBVIOUS
  <2>7. Closed(heap', G) /\ Closed(heap', W) /\ G \cap W = {}
    BY <2>3, <2>5, <2>6 DEF Apart, Closed
  <2>8. \A args \in Held' : Parted(args, G, W)
    <3>1. \A args \in Kept : Parted(args, G, W)
      BY <1>2, <2>5, <2>6, PartedGrows DEF Apart
    <3>2. Parted(given', G, W)
      BY <1>2, <2>4, <2>5, <2>6 DEF Apart, Parted, Holding
    <3> QED BY <2>2, <3>1, <3>2
  <2>9. \A args \in Held' : Parted(args, G, W)'
    BY <1>1, <2>8, SameTable
  <2>10. Apart(G, W)'
    <3>1. pc' # "running"
      BY <2>2
    <3> QED BY <2>7, <2>9, <3>1 DEF Apart
  <2>11. TypeInv'
    <3>1. \A args \in Held' : GivenIn(heap', args)
      BY <1>2, <2>2, <2>3, <2>4, GivenGrows DEF ApartInv, TypeInv
    <3> QED BY <1>1, <2>3, <3>1, SameTable DEF ApartInv, TypeInv
  <2>12. RecordsShowInputs'
    <3>1. \A k \in 1..Len(records) : \A p \in DOMAIN records[k].args \cap Touched :
            Private(p) => Tree(heap', records[k].args[p]) = records[k].was[p]
      <4>1. Closed(heap, F) /\ F \subseteq DOMAIN heap' /\ (\A i \in F : heap'[i] = heap[i])
            /\ \A args \in Kept : Parted(args, F, W)
        BY <1>2, <2>3, <2>5 DEF Apart, Closed
      <4> QED BY <1>2, <2>3, <4>1, StillShown DEF ApartInv
    <3> QED BY <1>1, <3>1, SameTable DEF RecordsShowInputs
  <2> QED BY <2>10, <2>11, <2>12 DEF ApartInv
<1> QED BY <1>3, <1>4, <1>5

(* The record of an attempt is of what it was given; the target gets new containers *)
(* and what is passed by reference.                                          *)
LEMMA AttemptApart == ApartInv /\ Attempt => ApartInv'
<1> SUFFICES ASSUME ApartInv, Attempt PROVE ApartInv'
  OBVIOUS
<1> DEFINE at == WrapLeaves(heap, given)
           last == Len(records) + 1
<1>1. UNCHANGED <<binding, origin, initial, queue, given>> /\ pc = "given" /\ pc' # "given"
  BY DEF Attempt
<1>2. /\ heap \in Heaps /\ Table /\ given \in Held /\ GivenIn(heap, given) /\ Held = Kept \cup {given}
      /\ records \in Seq(ToSet(records))
  BY <1>1 DEF ApartInv, TypeInv, Held
<1>3. PICK r : /\ records' = Append(records, r)
               /\ r.args = given /\ r.was = Trees(heap, given)
  BY DEF Attempt, Record
<1>4. /\ records' \in Seq(ToSet(records')) /\ Len(records') = last /\ Len(records) \in Nat
      /\ \A k \in 1..Len(records) : records'[k] = records[k]
      /\ records'[last] = r
      /\ \A k \in 1..Len(records') : k \in 1..Len(records) \/ k = last
  BY <1>2, <1>3, OwnAppend
<1>5. Held' \subseteq Held
  <2>1. Kept' \subseteq Kept \cup {given}
    BY <1>1, <1>3, <1>4 DEF Kept
  <2> QED BY <1>1, <1>2, <2>1 DEF Held
<1>6. /\ Extends(heap, heap')
      /\ pc' = "running" =>
           /\ bound' = SplitArgs(at.args) /\ heap' = at.heap
           /\ Grown(heap, given, at)
  <2>1. CASE at = Raised
    BY <1>2, <2>1, ExtendsRefl DEF Attempt
  <2>2. CASE at # Raised
    <3>1. heap' = at.heap /\ bound' = SplitArgs(at.args)
      BY <2>2 DEF Attempt
    <3>2. Grown(heap, given, at)
      BY <1>2, <2>2, WrapLeavesGrown DEF Growths
    <3> QED BY <3>1, <3>2 DEF Grown
  <2> QED BY <2>1, <2>2
<1> HIDE DEF at
<1>7. PICK F, W : Apart(F, W)
  BY DEF ApartInv
<1> DEFINE wider == W \cup New(heap, heap')
<1>8. PICK X : X = wider
  OBVIOUS
<1>9. /\ heap' \in Heaps /\ DOMAIN heap \subseteq DOMAIN heap' /\ \A i \in DOMAIN heap : heap'[i] = heap[i]
      /\ Closed(heap', New(heap, heap')) /\ New(heap, heap') \cap DOMAIN heap = {}
  BY <1>2, <1>6, ExtendsFacts
<1>10. Closed(heap', F) /\ Closed(heap', X) /\ F \cap X = {}
  BY <1>7, <1>8, <1>9 DEF Apart, Closed
<1>11. \A args \in Held' : Parted(args, F, X)'
  <2>1. \A args \in Held' : Parted(args, F, X)
    BY <1>5, <1>7, <1>8, PartedGrows DEF Apart
  <2> QED BY <1>1, <2>1, SameTable
<1>12. pc' = "running" => \A i \in 1..Len(bound') : bound'[i] \in Holding(X)
  <2> SUFFICES ASSUME pc' = "running", NEW i \in 1..Len(bound') PROVE bound'[i] \in Holding(X)
    OBVIOUS
  <2>1. /\ at \in States(DOMAIN given)
        /\ \A p \in DOMAIN given \ Touched : at.args[p] = given[p]
        /\ \A p \in DOMAIN given \cap Touched : at.args[p] \in Holding(New(heap, heap'))
    BY <1>6 DEF Grown
  <2>2. DOMAIN at.args = DOMAIN given
    BY <2>1 DEF States
  <2>3. Parted(given, F, W)
    BY <1>2, <1>7 DEF Apart
  <2>4. \A p \in DOMAIN at.args : at.args[p] \in Holding(X)
    BY <1>8, <2>1, <2>2, <2>3 DEF Parted, Holding
  <2>5. Default \in Holding(X)
    BY ValueFacts DEF Default, Holding
  <2>6. bound'[i] \in {Default} \cup {at.args[p] : p \in DOMAIN at.args}
    BY <1>6, SplitArgsFacts, ElementOfSeq
  <2> QED BY <2>4, <2>5, <2>6
<1>13. Apart(F, X)'
  BY <1>10, <1>11, <1>12 DEF Apart
<1>14. TypeInv'
  <2>1. \A args \in Held' : GivenIn(heap', args)
    BY <1>5, <1>9, GivenGrows DEF ApartInv, TypeInv
  <2> QED BY <1>1, <1>4, <1>9, <2>1, SameTable DEF ApartInv, TypeInv
<1>15. \A k \in 1..Len(records) : \A p \in DOMAIN records[k].args \cap Touched :
         Private(p) => Tree(heap', records[k].args[p]) = records[k].was[p]
  <2>1. Closed(heap, F) /\ F \subseteq DOMAIN heap' /\ (\A i \in F : heap'[i] = heap[i])
        /\ \A args \in Kept : Parted(args, F, W)
    BY <1>2, <1>7, <1>9 DEF Apart, Closed
  <2> QED BY <1>2, <1>9, <2>1, StillShown DEF ApartInv
<1>16. \A p \in DOMAIN r.args \cap Touched : Private(p) => Tree(heap', r.args[p]) = r.was[p]
  <2> SUFFICES ASSUME NEW p \in DOMAIN given \cap Touched, Private(p)
               PROVE  Tree(heap', given[p]) = Trees(heap, given)[p]
    BY <1>3
  <2>1. given[p] \in Holding(F)
    BY <1>2, <1>7 DEF Apart, Parted
  <2>2. Closed(heap, F) /\ F \subseteq DOMAIN heap' /\ \A i \in F : heap'[i] = heap[i]
    BY <1>7, <1>9 DEF Apart, Closed
  <2>3. Tree(heap', given[p]) = Tree(heap, given[p])
    BY <1>2, <1>9, <2>1, <2>2, TreeSame
  <2> QED BY <2>3 DEF Trees
<1>17. RecordsShowInputs'
  <2> SUFFICES ASSUME NEW k \in 1..Len(records'), NEW p \in DOMAIN records'[k].args \cap Touched, Private(p)
               PROVE  Tree(heap', records'[k].args[p]) = records'[k].was[p]
    BY <1>1, SameTable DEF RecordsShowInputs
  <2>1. CASE k \in 1..Len(records)
    BY <1>4, <1>15, <2>1
  <2>2. CASE k = last
    BY <1>4, <1>16, <2>2
  <2> QED BY <1>4, <2>1, <2>2
<1> QED BY <1>13, <1>14, <1>17 DEF ApartInv

(* The target writes into what it was passed. *)
LEMMA TargetWritesPassed ==
  ASSUME ApartInv, TargetWrites, NEW F, NEW W, Apart(F, W)
  PROVE  /\ heap' \in Heaps /\ DOMAIN heap' = DOMAIN heap /\ Closed(heap', W)
         /\ \A k \in DOMAIN heap \ W : heap'[k] = heap[k]
         /\ F \subseteq DOMAIN heap' /\ Closed(heap', F) /\ \A k \in F : heap'[k] = heap[k]
<1>1. pc = "running" /\ heap \in Heaps
  BY DEF TargetWrites, ApartInv, TypeInv
<1>2. PICK i \in 1..Len(bound) : \E id \in Reach(heap, bound[i]) :
         /\ heap[id].kind \in {"list", "dict"}
         /\ \/ \E c \in DOMAIN heap[id].cells : heap' = [heap EXCEPT ![id].cells[c] = Value("String", 7)]
            \/ /\ heap[id].kind = "list"
               /\ heap' = [heap EXCEPT ![id].cells = Append(@, Value("String", 7))]
            \/ /\ heap[id].cells # <<>>
               /\ heap' = [heap EXCEPT ![id].cells = Front(@)]
  BY DEF TargetWrites
<1>3. PICK id \in Reach(heap, bound[i]) :
         \/ \E c \in DOMAIN heap[id].cells : heap' = [heap EXCEPT ![id].cells[c] = Value("String", 7)]
         \/ heap' = [heap EXCEPT ![id].cells = Append(@, Value("String", 7))]
         \/ heap[id].cells # <<>> /\ heap' = [heap EXCEPT ![id].cells = Front(@)]
  BY <1>2
<1>4. id \in W
  <2>1. Closed(heap, W) /\ bound[i] \in Holding(W)
    BY <1>1 DEF Apart
  <2>2. In(heap, bound[i]) /\ (IsRef(bound[i]) => bound[i].val \in W)
    BY <2>1 DEF Holding, In, Closed
  <2>3. Reach(heap, bound[i]) \subseteq W
    BY <1>1, <2>1, <2>2, ReachFacts
  <2> QED BY <1>3, <2>3
<1>5. /\ heap' \in Heaps /\ DOMAIN heap' = DOMAIN heap /\ Closed(heap', W)
      /\ \A k \in DOMAIN heap \ W : heap'[k] = heap[k]
  <2> DEFINE v == Value("String", 7)
  <2>1. v \in Values /\ ~IsRef(v)
    BY ValueFacts DEF Sorts
  <2>2. Closed(heap, W)
    BY DEF Apart
  <2> HIDE DEF v
  <2>3. \/ \E c \in DOMAIN heap[id].cells : heap' = [heap EXCEPT ![id].cells[c] = v]
        \/ heap' = [heap EXCEPT ![id].cells = Append(@, v)]
        \/ heap[id].cells # <<>> /\ heap' = [heap EXCEPT ![id].cells = Front(@)]
    BY <1>3 DEF v
  <2> QED BY <1>1, <1>4, <2>1, <2>2, <2>3, WriteFacts
<1>6. F \subseteq DOMAIN heap' /\ Closed(heap', F) /\ \A k \in F : heap'[k] = heap[k]
  BY <1>5 DEF Apart, Closed
<1> QED BY <1>5, <1>6

(* No record holds what the target was passed. *)
LEMMA TargetWritesApart == ApartInv /\ TargetWrites => ApartInv'
<1> SUFFICES ASSUME ApartInv, TargetWrites PROVE ApartInv'
  OBVIOUS
<1>1. /\ UNCHANGED <<binding, origin, initial, queue, given, records, bound, pc>>
      /\ pc = "running"
  BY DEF TargetWrites
<1>2. PICK F, W : Apart(F, W)
  BY DEF ApartInv
<1>3. heap \in Heaps /\ Held = Kept /\ Held' = Held
  BY <1>1 DEF ApartInv, TypeInv, Held, Kept
<1>4. /\ heap' \in Heaps /\ DOMAIN heap' = DOMAIN heap /\ Closed(heap', W)
      /\ F \subseteq DOMAIN heap' /\ Closed(heap', F) /\ \A k \in F : heap'[k] = heap[k]
  BY <1>2, TargetWritesPassed
<1>5. Apart(F, W)'
  <2>1. \A args \in Held' : Parted(args, F, W)'
    BY <1>1, <1>2, <1>3, SameTable DEF Apart
  <2> QED BY <1>1, <1>2, <1>4, <2>1 DEF Apart
<1>6. TypeInv'
  <2>1. \A args \in Held' : GivenIn(heap', args)
    BY <1>3, <1>4, GivenGrows DEF ApartInv, TypeInv
  <2> QED BY <1>1, <1>4, <2>1, SameTable DEF ApartInv, TypeInv
<1>7. RecordsShowInputs'
  <2>1. \A k \in 1..Len(records) : \A p \in DOMAIN records[k].args \cap Touched :
          Private(p) => Tree(heap', records[k].args[p]) = records[k].was[p]
    BY <1>2, <1>3, <1>4, StillShown DEF ApartInv, Apart
  <2> QED BY <1>1, <2>1, SameTable DEF RecordsShowInputs
<1> QED BY <1>5, <1>6, <1>7 DEF ApartInv

LEMMA TargetReturnsApart == ApartInv /\ TargetReturns => ApartInv'
<1> SUFFICES ASSUME ApartInv, TargetReturns PROVE ApartInv'
  OBVIOUS
<1>1. UNCHANGED <<binding, origin, initial, queue, records>> /\ heap' = Collected(heap) /\ pc' = "next"
  BY DEF TargetReturns
<1>2. heap \in Heaps /\ Kept \subseteq Held /\ Held' = Kept /\ \A args \in Kept : GivenIn(heap, args)
  BY <1>1 DEF ApartInv, TypeInv, Held, Kept
<1>3. heap' \in Heaps /\ \E live : /\ Closed(heap, live)
                                   /\ live \subseteq DOMAIN heap' /\ \A i \in live : heap'[i] = heap[i]
                                   /\ \A args \in Kept : \A p \in DOMAIN args : args[p] \in Holding(live)
  BY <1>1, <1>2, CollectedFacts
<1>4. PICK live : /\ Closed(heap, live)
                  /\ live \subseteq DOMAIN heap' /\ \A i \in live : heap'[i] = heap[i]
                  /\ \A args \in Kept : \A p \in DOMAIN args : args[p] \in Holding(live)
  BY <1>3
<1>5. PICK F, W : Apart(F, W)
  BY DEF ApartInv
<1> DEFINE G == F \cap live
           X == W \cap live
<1>6. /\ Closed(heap, G) /\ Closed(heap', G) /\ Closed(heap', X) /\ G \cap X = {}
      /\ G \subseteq DOMAIN heap' /\ \A i \in G : heap'[i] = heap[i]
  BY <1>4, <1>5 DEF Apart, Closed
<1>7. \A args \in Kept : Parted(args, G, X)
  BY <1>2, <1>4, <1>5 DEF Apart, Parted, Holding
<1> HIDE DEF G, X
<1>8. \A args \in Held' : Parted(args, G, X)'
  BY <1>1, <1>2, <1>7, SameTable
<1>9. Apart(G, X)'
  BY <1>1, <1>6, <1>8 DEF Apart
<1>10. TypeInv'
  <2>1. \A args \in Held' : GivenIn(heap', args)
    BY <1>2, <1>4 DEF GivenIn, In, Holding
  <2> QED BY <1>1, <1>3, <2>1, SameTable DEF ApartInv, TypeInv
<1>11. RecordsShowInputs'
  <2>1. \A k \in 1..Len(records) : \A p \in DOMAIN records[k].args \cap Touched :
          Private(p) => Tree(heap', records[k].args[p]) = records[k].was[p]
    BY <1>2, <1>3, <1>6, <1>7, StillShown DEF ApartInv
  <2> QED BY <1>1, <2>1, SameTable DEF RecordsShowInputs
<1> QED BY <1>9, <1>10, <1>11 DEF ApartInv

(* Stuttering steps too leave things apart. *)
LEMMA StutterApart == ApartInv /\ UNCHANGED vars => ApartInv'
<1> SUFFICES ASSUME ApartInv, UNCHANGED vars PROVE ApartInv'
  OBVIOUS
<1>1. UNCHANGED <<heap, initial, binding, queue, given, bound, records, origin, pc>>
  BY DEF vars
<1>2. Held' = Held
  BY <1>1 DEF Held, Kept
<1> QED
  BY <1>1, <1>2, SameHeap DEF ApartInv, TypeInv, Apart

LEMMA StepApart == ApartInv /\ [Next]_vars => ApartInv'
BY PopQueueApart, SolveApart, ResolveApart, AttemptApart, TargetWritesApart, TargetReturnsApart,
   StutterApart DEF Next

(* For any signature, any arguments and seeds, however their containers are shared or *)
(* hold themselves, and whatever targets write: a record goes on showing the arguments *)
(* that were run, at every parameter that has leaves and shares nothing with one that *)
(* is passed by reference.                                                   *)
THEOREM RecordsShowInputsHolds == Spec => []RecordsShowInputs
<1>1. Init => ApartInv
  BY InitApart
<1>2. ApartInv /\ [Next]_vars => ApartInv'
  BY StepApart
<1>3. ApartInv => RecordsShowInputs
  BY DEF ApartInv
<1> QED
  BY <1>1, <1>2, <1>3, PTL DEF Spec

-----------------------------------------------------------------------------
(* Two descents side by side. *)

LEMMA DescendAlong ==
  ASSUME NEW h \in Heaps, NEW S, Closed(h, S), NEW v \in Holding(S),
         NEW g \in Heaps, NEW T, Closed(g, T), NEW u \in Holding(T),
         NEW route \in Seq(Segments), NEW Alike, <<v, u>> \in Alike,
         \A a \in Holding(S), b \in Holding(T), segment \in Segments :
           <<a, b>> \in Alike => <<Step(h, a, segment), Step(g, b, segment)>> \in Alike
  PROVE  <<Descend(h, v, route), Descend(g, u, route)>> \in Alike
<1> DEFINE N == Len(route)
<1>1. N \in Nat /\ \A n \in 1..N : route[n] \in Segments
  BY LenProperties, ElementOfSeq
<1>2. PICK e \in [0..N -> Holding(S)] :
        /\ e[0] = v
        /\ \A n \in 1..N : e[n] = Step(h, e[n - 1], route[n])
        /\ Descend(h, v, route) = e[N]
  BY <1>1, DescendUnrolled
<1>3. PICK f \in [0..N -> Holding(T)] :
        /\ f[0] = u
        /\ \A n \in 1..N : f[n] = Step(g, f[n - 1], route[n])
        /\ Descend(g, u, route) = f[N]
  BY <1>1, DescendUnrolled
<1> HIDE DEF N
<1> DEFINE Good == {n \in 0..N : <<e[n], f[n]>> \in Alike}
<1>4. 0 \in Good
  <2>1. <<e[0], f[0]>> \in Alike
    BY <1>2, <1>3, Zenon
  <2> QED BY <1>1, <2>1
<1>5. ASSUME NEW n \in 1..N, n - 1 \in Good PROVE n \in Good
  <2>1. n \in 0..N /\ n - 1 \in 0..N /\ <<e[n - 1], f[n - 1]>> \in Alike
    BY <1>1, <1>5
  <2>2. e[n - 1] \in Holding(S) /\ f[n - 1] \in Holding(T)
    BY <1>2, <1>3, <2>1
  <2>3. <<Step(h, e[n - 1], route[n]), Step(g, f[n - 1], route[n])>> \in Alike
    BY <1>1, <2>1, <2>2
  <2> QED BY <1>2, <1>3, <2>1, <2>3
<1> HIDE DEF Good
<1>6. \A n \in 0..N : n \in Good
  BY <1>1, <1>4, <1>5, InductionFromZero
<1>7. <<e[N], f[N]>> \in Alike
  BY <1>1, <1>6 DEF Good
<1> QED BY <1>2, <1>3, <1>7

LEMMA DescendSame ==
  ASSUME NEW h \in Heaps, NEW g \in Heaps, NEW S, Closed(h, S), S \subseteq DOMAIN g, \A i \in S : g[i] = h[i],
         NEW v \in Holding(S), NEW route \in Seq(Segments)
  PROVE  Descend(g, v, route) = Descend(h, v, route)
<1> DEFINE Alike == {<<a, a>> : a \in Holding(S)}
<1>1. Closed(g, S)
  BY DEF Closed
<1>2. <<v, v>> \in Alike
  OBVIOUS
<1>3. ASSUME NEW a \in Holding(S), NEW b \in Holding(S), NEW segment \in Segments, <<a, b>> \in Alike
      PROVE  <<Step(h, a, segment), Step(g, b, segment)>> \in Alike
  <2>1. a = b
    BY <1>3
  <2>2. Step(g, a, segment) = Step(h, a, segment)
    <3>1. IsRef(a) => g[a.val] = h[a.val]
      BY DEF Holding
    <3> QED BY <3>1 DEF Step, Object
  <2>3. Step(h, a, segment) \in Holding(S)
    BY StepStays
  <2> QED BY <2>1, <2>2, <2>3
<1> HIDE DEF Alike
<1>4. <<Descend(h, v, route), Descend(g, v, route)>> \in Alike
  BY <1>1, <1>2, <1>3, DescendAlong
<1> QED BY <1>4 DEF Alike

-----------------------------------------------------------------------------
(* Places of leaves. *)

\* Arguments of a call in the heap they are in.
Bases == UNION {States(ns) : ns \in SUBSET Names}

\* p has primitives where the table has leaves, none of them wrapped.
Fits(b, p) ==
    /\ p \in DOMAIN b.args
    /\ \A i \in 1..Len(binding) : binding[i].param = p =>
         LET v == Descend(b.heap, b.args[p], binding[i].route)
         IN  v.sort \in Sorts /\ v.sym = NoSymbol

Original(b, i) == Descend(b.heap, b.args[binding[i].param], binding[i].route)
HolderOf(b, i) == Descend(b.heap, b.args[binding[i].param], Front(binding[i].route))

\* The cell or the parameter that a leaf is in.
Spot(b, i) ==
    IF binding[i].route = <<>> THEN <<binding[i].param>>
    ELSE <<HolderOf(b, i).val, Last(binding[i].route).at, binding[i].param>>

LEMMA BaseFacts ==
  ASSUME NEW b \in Bases
  PROVE  /\ b.heap \in Heaps /\ b = [heap |-> b.heap, args |-> b.args] /\ GivenIn(b.heap, b.args)
         /\ b \in States(DOMAIN b.args) /\ DOMAIN b.args \subseteq Names
         /\ \A p \in DOMAIN b.args :
              /\ b.args[p] \in Values /\ In(b.heap, b.args[p])
              /\ Closed(b.heap, Reach(b.heap, b.args[p]))
              /\ b.args[p] \in Holding(Reach(b.heap, b.args[p]))
<1>1. PICK ns \in SUBSET Names : b \in States(ns)
  BY DEF Bases
<1>2. /\ b.heap \in Heaps /\ b = [heap |-> b.heap, args |-> b.args] /\ b.args \in [ns -> Values]
      /\ \A p \in ns : In(b.heap, b.args[p])
  BY <1>1 DEF States
<1>3. DOMAIN b.args = ns /\ b.args \in [DOMAIN b.args -> Values]
  BY <1>2
<1>4. \A p \in DOMAIN b.args :
        /\ b.args[p] \in Values /\ In(b.heap, b.args[p])
        /\ Closed(b.heap, Reach(b.heap, b.args[p]))
        /\ b.args[p] \in Holding(Reach(b.heap, b.args[p]))
  BY <1>2, <1>3, ReachFacts DEF Holding
<1> QED BY <1>1, <1>2, <1>3, <1>4 DEF GivenIn

(* A leaf is in a cell of a container that its parameter holds, or is the parameter. *)
LEMMA SpotFacts ==
  ASSUME NEW b \in Bases, Table, NEW i \in 1..Len(binding), Fits(b, binding[i].param)
  PROVE  LET p == binding[i].param
             id == HolderOf(b, i).val
             last == Last(binding[i].route)
         IN  /\ p \in Touched /\ p \in DOMAIN b.args
             /\ Original(b, i).sort \in Sorts /\ Original(b, i).sym = NoSymbol
             /\ binding[i].route = <<>> => Original(b, i) = b.args[p] /\ Spot(b, i) = <<p>>
             /\ binding[i].route # <<>> =>
                  /\ IsRef(HolderOf(b, i)) /\ IsRef(b.args[p])
                  /\ Spot(b, i) = <<id, last.at, p>>
                  /\ id \in Reach(b.heap, b.args[p]) /\ id \in DOMAIN b.heap
                  /\ last.at \in DOMAIN b.heap[id].cells
                  /\ b.heap[id].kind # "opaque" /\ Access(b.heap[id].kind) = last.by
                  /\ Original(b, i) = b.heap[id].cells[last.at]
<1> DEFINE p == binding[i].param
           route == binding[i].route
           v == b.args[p]
           S == Reach(b.heap, v)
           holder == HolderOf(b, i)
           last == Last(route)
<1>1. /\ p \in Touched /\ p \in DOMAIN b.args /\ route \in Seq(Segments)
      /\ Original(b, i).sort \in Sorts /\ Original(b, i).sym = NoSymbol
  BY TableFacts DEF Fits, Original
<1>2. b.heap \in Heaps /\ Closed(b.heap, S) /\ v \in Holding(S)
  BY <1>1, BaseFacts
<1>3. CASE route = <<>>
  <2>1. Descend(b.heap, v, <<>>) = v
    BY <1>1, <1>2, DescendFacts
  <2>2. Original(b, i) = v /\ Spot(b, i) = <<p>>
    BY <1>3, <2>1 DEF Original, Spot
  <2> QED BY <1>1, <1>3, <2>2
<1>4. CASE route # <<>>
  <2>1. /\ Front(route) \in Seq(Segments) /\ last \in Segments /\ route = Append(Front(route), last)
    BY <1>1, <1>4, RouteParts
  <2>2. holder \in Holding(S) /\ Original(b, i) = Step(b.heap, holder, last)
    <3>1. /\ Descend(b.heap, v, Front(route)) \in Holding(S)
          /\ Descend(b.heap, v, Append(Front(route), last))
               = Step(b.heap, Descend(b.heap, v, Front(route)), last)
      BY <1>2, <2>1, DescendFacts
    <3> QED BY <2>1, <3>1, Zenon DEF HolderOf, Original
  <2>3. Original(b, i) # Raised
    BY <1>1, RaisedFacts DEF Sorts
  <2>4. /\ IsRef(holder) /\ holder.val \in S /\ holder.val \in DOMAIN b.heap
        /\ b.heap[holder.val].kind # "opaque" /\ Access(b.heap[holder.val].kind) = last.by
        /\ last.at \in DOMAIN b.heap[holder.val].cells
        /\ Original(b, i) = b.heap[holder.val].cells[last.at]
    BY <1>2, <2>2, <2>3 DEF Step, Object, Holding, Closed
  <2>5. IsRef(v)
    <3>1. ~IsRef(v) => S = {}
      BY DEF Reach
    <3> QED BY <2>4, <3>1
  <2>6. Spot(b, i) = <<holder.val, last.at, p>>
    BY <1>4 DEF Spot
  <2> QED BY <1>1, <1>4, <2>4, <2>5, <2>6
<1> QED BY <1>3, <1>4
-----------------------------------------------------------------------------
(* What copies hold while leaves are written. *)

\* Leaves up to the n-th that are at a spot and were written, w[j] for the leaf j.
Writers(b, w, n, s) == {j \in 1..n : j \in DOMAIN w /\ Spot(b, j) = s}

\* What is at a spot then, v at first.
Now(b, w, n, s, v) == IF Writers(b, w, n, s) = {} THEN v ELSE w[Max(Writers(b, w, n, s))]

\* The same in a copy, where containers have become others.
Carried(b, to, w, n, s, v) == IF IsRef(v) THEN Ref(to[v.val]) ELSE Now(b, w, n, s, v)

\* at has a copy of the parameter p of b, with what was written up to the n-th leaf.
Landed(b, p, at, to, w, n) ==
    LET S == Reach(b.heap, b.args[p])
    IN  /\ to \in [S -> New(b.heap, at.heap)]
        /\ \A i, j \in S : to[i] = to[j] => i = j
        /\ \A id \in S :
             /\ at.heap[to[id]].kind = b.heap[id].kind
             /\ DOMAIN at.heap[to[id]].cells = DOMAIN b.heap[id].cells
             /\ \A c \in DOMAIN b.heap[id].cells :
                  at.heap[to[id]].cells[c] = Carried(b, to, w, n, <<id, c, p>>, b.heap[id].cells[c])
        /\ at.args[p] = Carried(b, to, w, n, <<p>>, b.args[p])

LEMMA NowFacts ==
  ASSUME NEW b, NEW w, NEW s, NEW v
  PROVE  /\ Now(b, w, 0, s, v) = v
         /\ \A n \in Nat \ {0} :
              Now(b, w, n, s, v) = IF n \in DOMAIN w /\ Spot(b, n) = s THEN w[n] ELSE Now(b, w, n - 1, s, v)
<1>1. Now(b, w, 0, s, v) = v
  <2>1. Writers(b, w, 0, s) = {}
    BY DEF Writers
  <2> QED BY <2>1 DEF Now
<1>2. ASSUME NEW n \in Nat \ {0}
      PROVE  Now(b, w, n, s, v) = IF n \in DOMAIN w /\ Spot(b, n) = s THEN w[n] ELSE Now(b, w, n - 1, s, v)
  <2>1. CASE n \in DOMAIN w /\ Spot(b, n) = s
    <3>1. n \in Writers(b, w, n, s) /\ Writers(b, w, n, s) \in SUBSET (0..n)
      BY <2>1 DEF Writers
    <3>2. Max(Writers(b, w, n, s)) \in 0..n /\ n <= Max(Writers(b, w, n, s))
      BY <3>1, Greatest
    <3>3. Max(Writers(b, w, n, s)) = n
      BY <3>2
    <3> QED BY <2>1, <3>1, <3>3 DEF Now
  <2>2. CASE ~(n \in DOMAIN w /\ Spot(b, n) = s)
    <3>1. Writers(b, w, n, s) = Writers(b, w, n - 1, s)
      <4>1. \A j : j \in 1..n <=> j \in 1..n - 1 \/ j = n
        OBVIOUS
      <4> QED BY <2>2, <4>1, Zenon DEF Writers
    <3> QED BY <2>2, <3>1, Zenon DEF Now
  <2> QED BY <2>1, <2>2
<1> QED BY <1>1, <1>2

LEMMA NowHere ==
  ASSUME NEW b, NEW w, NEW n \in Nat, n # 0, NEW v
  PROVE  Now(b, w, n, Spot(b, n), v) = IF n \in DOMAIN w THEN w[n] ELSE Now(b, w, n - 1, Spot(b, n), v)
<1> DEFINE s == Spot(b, n)
<1>1. Now(b, w, n, s, v) = IF n \in DOMAIN w /\ Spot(b, n) = s THEN w[n] ELSE Now(b, w, n - 1, s, v)
  BY NowFacts
<1> QED BY <1>1

LEMMA NowElsewhere ==
  ASSUME NEW b, NEW w, NEW n \in Nat \ {0}, NEW s, Spot(b, n) # s, NEW v
  PROVE  Now(b, w, n, s, v) = Now(b, w, n - 1, s, v)
<1>1. Now(b, w, n, s, v) = IF n \in DOMAIN w /\ Spot(b, n) = s THEN w[n] ELSE Now(b, w, n - 1, s, v)
  BY NowFacts
<1> QED BY <1>1

(* Where a route comes to a container, it comes to its copy in the copy. *)
LEMMA CopyWalk ==
  ASSUME NEW b \in Bases, NEW p \in DOMAIN b.args \cap Touched,
         NEW at, Grown(b.heap, b.args, at), NEW to, NEW w, NEW n, Landed(b, p, at, to, w, n),
         NEW route \in Seq(Segments), IsRef(Descend(b.heap, b.args[p], route))
  PROVE  /\ Descend(b.heap, b.args[p], route).val \in Reach(b.heap, b.args[p])
         /\ Descend(at.heap, at.args[p], route) = Ref(to[Descend(b.heap, b.args[p], route).val])
<1> DEFINE S == Reach(b.heap, b.args[p])
           T == New(b.heap, at.heap)
           Alike == {x \in Holding(S) \X Holding(T) : IsRef(x[1]) => x[2] = Ref(to[x[1].val])}
<1>1. b.heap \in Heaps /\ Closed(b.heap, S) /\ b.args[p] \in Holding(S) /\ S \subseteq DOMAIN b.heap
  BY BaseFacts DEF Closed
<1>2. at.heap \in Heaps /\ Closed(at.heap, T)
  BY <1>1, GrownFacts
<1>3. at.args[p] \in Holding(T)
  BY DEF Grown
<1>4. <<b.args[p], at.args[p]>> \in Alike
  BY <1>1, <1>3 DEF Landed, Carried
<1>5. ASSUME NEW v \in Holding(S), NEW u \in Holding(T), NEW segment \in Segments, <<v, u>> \in Alike
      PROVE  <<Step(b.heap, v, segment), Step(at.heap, u, segment)>> \in Alike
  <2> DEFINE x == Step(b.heap, v, segment)
             y == Step(at.heap, u, segment)
  <2>1. x \in Holding(S) /\ y \in Holding(T)
    BY <1>1, <1>2, StepStays
  <2>2. ASSUME IsRef(x) PROVE y = Ref(to[x.val])
    <3>1. x # Raised
      BY <2>2, RaisedFacts
    <3>2. /\ IsRef(v) /\ b.heap[v.val].kind # "opaque" /\ Access(b.heap[v.val].kind) = segment.by
          /\ segment.at \in DOMAIN b.heap[v.val].cells /\ x = b.heap[v.val].cells[segment.at]
      BY <3>1 DEF Step, Object
    <3>3. v.val \in S /\ u = Ref(to[v.val]) /\ to[v.val] \in T
      BY <1>5, <3>2 DEF Holding, Landed
    <3>4. IsRef(u) /\ u.val = to[v.val]
      <4>1. to[v.val] \in Int
        BY <1>1, <1>2, <3>3, HeapFacts DEF New
      <4> QED BY <3>3, <4>1, RefFacts
    <3>5. /\ at.heap[u.val].kind = b.heap[v.val].kind
          /\ DOMAIN at.heap[u.val].cells = DOMAIN b.heap[v.val].cells
          /\ at.heap[u.val].cells[segment.at] = Carried(b, to, w, n, <<v.val, segment.at, p>>, x)
      BY <3>2, <3>3, <3>4 DEF Landed
    <3>6. y = at.heap[u.val].cells[segment.at]
      BY <3>2, <3>4, <3>5 DEF Step, Object
    <3> QED BY <2>2, <3>5, <3>6 DEF Carried
  <2>3. <<x, y>> \in Alike
    <3> HIDE DEF x, y, S, T
    <3> QED BY <2>1, <2>2
  <2> QED BY <2>3
<1> HIDE DEF Alike
<1>6. <<Descend(b.heap, b.args[p], route), Descend(at.heap, at.args[p], route)>> \in Alike
  BY <1>1, <1>2, <1>3, <1>4, <1>5, DescendAlong
<1> QED BY <1>6 DEF Alike, Holding

(* The container of a leaf has its copy where the route comes to. *)
LEMMA HolderLanded ==
  ASSUME NEW b \in Bases, Table, NEW at, Grown(b.heap, b.args, at),
         NEW i \in 1..Len(binding), Fits(b, binding[i].param), binding[i].route # <<>>,
         NEW to, NEW w, NEW n, Landed(b, binding[i].param, at, to, w, n)
  PROVE  LET id == HolderOf(b, i).val
         IN  /\ Descend(at.heap, at.args[binding[i].param], Front(binding[i].route)) = Ref(to[id])
             /\ to[id] \in New(b.heap, at.heap) /\ id \in Reach(b.heap, b.args[binding[i].param])
<1> DEFINE p == binding[i].param
           id == HolderOf(b, i).val
<1>1. /\ p \in DOMAIN b.args \cap Touched /\ binding[i].route \in Seq(Segments)
      /\ IsRef(HolderOf(b, i)) /\ id \in Reach(b.heap, b.args[p])
  BY SpotFacts, TableFacts
<1>2. Front(binding[i].route) \in Seq(Segments)
  BY <1>1, RouteParts
<1>3. Descend(b.heap, b.args[p], Front(binding[i].route)) = HolderOf(b, i)
  BY DEF HolderOf
<1>4. Descend(at.heap, at.args[p], Front(binding[i].route)) = Ref(to[id])
  BY <1>1, <1>2, <1>3, CopyWalk
<1>5. to[id] \in New(b.heap, at.heap)
  BY <1>1 DEF Landed
<1> QED BY <1>1, <1>4, <1>5

(* A leaf is at the same spot of the copy. *)
LEMMA GetLanded ==
  ASSUME NEW b \in Bases, Table, NEW at, Grown(b.heap, b.args, at),
         NEW i \in 1..Len(binding), Fits(b, binding[i].param),
         NEW to, NEW w, NEW n, Landed(b, binding[i].param, at, to, w, n)
  PROVE  Get(at.heap, at.args, binding[i]) = Now(b, w, n, Spot(b, i), Original(b, i))
<1> DEFINE p == binding[i].param
           route == binding[i].route
           id == HolderOf(b, i).val
           last == Last(route)
           T == New(b.heap, at.heap)
<1>1. /\ p \in DOMAIN b.args \cap Touched /\ route \in Seq(Segments)
      /\ Original(b, i).sort \in Sorts /\ ~IsRef(Original(b, i))
      /\ route = <<>> => Original(b, i) = b.args[p] /\ Spot(b, i) = <<p>>
      /\ route # <<>> =>
           /\ IsRef(HolderOf(b, i)) /\ Spot(b, i) = <<id, last.at, p>>
           /\ id \in Reach(b.heap, b.args[p]) /\ last.at \in DOMAIN b.heap[id].cells
           /\ b.heap[id].kind # "opaque" /\ Access(b.heap[id].kind) = last.by
           /\ Original(b, i) = b.heap[id].cells[last.at]
  BY SpotFacts, TableFacts DEF IsRef, Sorts
<1>2. /\ b.heap \in Heaps /\ at.heap \in Heaps /\ Closed(at.heap, T) /\ at.args[p] \in Holding(T)
      /\ DOMAIN at.args = DOMAIN b.args
  BY <1>1, BaseFacts, GrownFacts DEF Grown
<1>3. Get(at.heap, at.args, binding[i]) = Descend(at.heap, at.args[p], route)
  BY <1>1, <1>2 DEF Get
<1>4. CASE route = <<>>
  <2>1. Descend(at.heap, at.args[p], <<>>) = at.args[p]
    BY <1>1, <1>2, DescendFacts
  <2>2. at.args[p] = Now(b, w, n, <<p>>, b.args[p])
    BY <1>1, <1>4 DEF Landed, Carried
  <2> QED BY <1>1, <1>3, <1>4, <2>1, <2>2
<1>5. CASE route # <<>>
  <2>1. Front(route) \in Seq(Segments) /\ last \in Segments /\ route = Append(Front(route), last)
    BY <1>1, <1>5, RouteParts
  <2>2. Descend(at.heap, at.args[p], Front(route)) = Ref(to[id])
    BY <1>5, HolderLanded
  <2>3. Descend(at.heap, at.args[p], route) = Step(at.heap, Ref(to[id]), last)
    <3>1. Descend(at.heap, at.args[p], Append(Front(route), last))
            = Step(at.heap, Descend(at.heap, at.args[p], Front(route)), last)
      BY <1>2, <2>1, DescendFacts
    <3> QED BY <2>1, <2>2, <3>1, Zenon
  <2>4. to[id] \in T
    BY <1>1, <1>5 DEF Landed
  <2>5. /\ at.heap[to[id]].kind = b.heap[id].kind
        /\ DOMAIN at.heap[to[id]].cells = DOMAIN b.heap[id].cells
        /\ at.heap[to[id]].cells[last.at] = Now(b, w, n, Spot(b, i), Original(b, i))
    BY <1>1, <1>5 DEF Landed, Carried
  <2>6. IsRef(Ref(to[id])) /\ Ref(to[id]).val = to[id]
    <3>1. to[id] \in Int
      BY <1>2, <2>4, HeapFacts DEF New
    <3> QED BY <3>1, RefFacts
  <2>7. Step(at.heap, Ref(to[id]), last) = at.heap[to[id]].cells[last.at]
    BY <1>1, <1>5, <2>5, <2>6 DEF Step, Object
  <2> QED BY <1>1, <1>3, <1>5, <2>2, <2>3, <2>4, <2>5, <2>7
<1> QED BY <1>4, <1>5
\* The other parameters with leaves are in Z, which the copy of p is not.
Elsewhere(b, p, at, to, Z) ==
    /\ Closed(at.heap, Z) /\ Z \subseteq New(b.heap, at.heap)
    /\ \A id \in Reach(b.heap, b.args[p]) : to[id] \notin Z
    /\ \A q \in (DOMAIN b.args \cap Touched) \ {p} : at.args[q] \in Holding(Z)

Tracked(b, p, at, to, w, n) ==
    /\ Grown(b.heap, b.args, at)
    /\ Landed(b, p, at, to, w, n)
    /\ \E Z : Elsewhere(b, p, at, to, Z)

(* A write to a leaf of p. *)
LEMMA PutOwn ==
  ASSUME NEW b \in Bases, Table, NEW i \in 1..Len(binding), Fits(b, binding[i].param),
         NEW at, NEW to, NEW w, Tracked(b, binding[i].param, at, to, w, i - 1),
         NEW v \in Values, ~IsRef(v), v = Now(b, w, i, Spot(b, i), Original(b, i)),
         Put(at, binding[i], v) # Raised
  PROVE  Tracked(b, binding[i].param, Put(at, binding[i], v), to, w, i)
<1> DEFINE p == binding[i].param
           route == binding[i].route
           id == HolderOf(b, i).val
           last == Last(route)
           T == New(b.heap, at.heap)
           S == Reach(b.heap, b.args[p])
           r == Put(at, binding[i], v)
<1>1. /\ p \in DOMAIN b.args \cap Touched /\ route \in Seq(Segments) /\ i \in Nat \ {0}
      /\ ~IsRef(Original(b, i))
      /\ route = <<>> => Original(b, i) = b.args[p] /\ Spot(b, i) = <<p>>
      /\ route # <<>> =>
           /\ IsRef(b.args[p]) /\ Spot(b, i) = <<id, last.at, p>>
           /\ id \in S /\ last.at \in DOMAIN b.heap[id].cells
           /\ Original(b, i) = b.heap[id].cells[last.at]
  <2>1. i \in Nat \ {0} /\ route \in Seq(Segments)
    BY TableFacts
  <2> QED BY <2>1, SpotFacts DEF IsRef, Sorts
<1>2. Grown(b.heap, b.args, at) /\ Landed(b, p, at, to, w, i - 1)
  BY DEF Tracked
<1>3. PICK Z : Elsewhere(b, p, at, to, Z)
  BY DEF Tracked
<1>4. b.heap \in Heaps /\ at.heap \in Heaps /\ at = [heap |-> at.heap, args |-> at.args]
      /\ at.args \in [DOMAIN b.args -> Values] /\ DOMAIN at.heap = 1..Len(at.heap) /\ Len(at.heap) \in Nat
  BY <1>2, BaseFacts, GrownFacts, HeapFacts DEF Grown, States
<1>5. Grown(b.heap, b.args, r)
  BY <1>1, <1>2, <1>4, PutGrown DEF Holding
<1>6. \A s, x : Spot(b, i) # s => Now(b, w, i, s, x) = Now(b, w, i - 1, s, x)
  BY <1>1, NowElsewhere
<1> HIDE DEF r
<1>7. CASE route = <<>>
  <2>1. r = [heap |-> at.heap, args |-> [at.args EXCEPT ![p] = v]]
    <3>1. r = [at EXCEPT !.args[p] = v]
      BY <1>7 DEF Put, r
    <3> QED BY <1>4, <3>1
  <2>2. r.heap = at.heap /\ r.args[p] = v /\ \A q \in DOMAIN b.args \ {p} : r.args[q] = at.args[q]
    BY <1>1, <1>4, <2>1
  <2>3. S = {}
    BY <1>1, <1>7 DEF Reach
  <2>4. Landed(b, p, r, to, w, i)
    <3>1. r.args[p] = Carried(b, to, w, i, <<p>>, b.args[p])
      BY <1>1, <1>7, <2>2 DEF Carried
    <3>2. to \in [S -> New(b.heap, r.heap)]
      BY <1>2, <2>2 DEF Landed
    <3> HIDE DEF S
    <3> QED BY <2>3, <3>1, <3>2 DEF Landed, S
  <2>5. Elsewhere(b, p, r, to, Z)
    BY <1>3, <2>2 DEF Elsewhere
  <2> QED BY <1>5, <2>4, <2>5 DEF Tracked, r
<1>8. CASE route # <<>>
  <2>1. /\ Descend(at.heap, at.args[p], Front(route)) = Ref(to[id])
        /\ to[id] \in T /\ id \in S
    BY <1>2, <1>8, HolderLanded
  <2>2. Ref(to[id]).val = to[id] /\ to[id] \in DOMAIN at.heap
    <3>1. to[id] \in Int /\ to[id] \in DOMAIN at.heap
      BY <1>4, <2>1, HeapFacts DEF New
    <3> QED BY <3>1, RefFacts
  <2>3. r = [at EXCEPT !.heap[to[id]].cells[last.at] = v]
    BY <1>8, <2>1, <2>2 DEF Put, r
  <2>4. r.heap = CellPut(at.heap, to[id], last.at, v) /\ r.args = at.args
    <3> DEFINE t == to[id]
               c == last.at
    <3>1. r = [at EXCEPT !.heap[t].cells[c] = v]
      BY <2>3
    <3> HIDE DEF t, c
    <3>2. r = [heap |-> [at.heap EXCEPT ![t].cells[c] = v], args |-> at.args]
      BY <1>4, <3>1
    <3> QED BY <3>2 DEF CellPut, t, c
  <2>5. /\ Len(r.heap) = Len(at.heap) /\ DOMAIN r.heap = DOMAIN at.heap
        /\ \A k \in DOMAIN at.heap : k # to[id] => r.heap[k] = at.heap[k]
        /\ r.heap[to[id]].kind = at.heap[to[id]].kind
        /\ DOMAIN r.heap[to[id]].cells = DOMAIN at.heap[to[id]].cells
        /\ \A c \in DOMAIN at.heap[to[id]].cells :
             r.heap[to[id]].cells[c] = IF c = last.at THEN v ELSE at.heap[to[id]].cells[c]
    <3> DEFINE k == to[id]
    <3>1. v \in Holding(DOMAIN at.heap) /\ k \in DOMAIN at.heap
      BY <2>2 DEF Holding
    <3> HIDE DEF k
    <3> QED BY <1>4, <2>4, <3>1, PutCell DEF k
  <2> HIDE DEF id, last
  <2>6. \A k \in S : to[k] \in DOMAIN at.heap /\ (to[k] = to[id] <=> k = id)
    BY <1>2, <1>4, <2>1 DEF Landed, New
  <2>7. Landed(b, p, r, to, w, i)
    <3>1. r.args[p] = Carried(b, to, w, i, <<p>>, b.args[p])
      BY <1>1, <1>2, <1>8, <2>4 DEF Landed, Carried
    <3>2. to \in [S -> New(b.heap, r.heap)]
      BY <1>2, <2>5 DEF Landed, New
    <3>3. ASSUME NEW k \in S
          PROVE  /\ r.heap[to[k]].kind = b.heap[k].kind
                 /\ DOMAIN r.heap[to[k]].cells = DOMAIN b.heap[k].cells
                 /\ \A c \in DOMAIN b.heap[k].cells :
                      r.heap[to[k]].cells[c] = Carried(b, to, w, i, <<k, c, p>>, b.heap[k].cells[c])
      <4>1. /\ at.heap[to[k]].kind = b.heap[k].kind
            /\ DOMAIN at.heap[to[k]].cells = DOMAIN b.heap[k].cells
            /\ \A c \in DOMAIN b.heap[k].cells :
                 at.heap[to[k]].cells[c] = Carried(b, to, w, i - 1, <<k, c, p>>, b.heap[k].cells[c])
        BY <1>2 DEF Landed
      <4>2. ASSUME NEW c \in DOMAIN b.heap[k].cells, k # id \/ c # last.at
            PROVE  r.heap[to[k]].cells[c] = Carried(b, to, w, i, <<k, c, p>>, b.heap[k].cells[c])
        <5>1. r.heap[to[k]].cells[c] = at.heap[to[k]].cells[c]
          BY <2>5, <2>6, <4>1, <4>2
        <5>2. Spot(b, i) # <<k, c, p>>
          BY <1>1, <1>8, <4>2
        <5> QED BY <1>6, <4>1, <5>1, <5>2 DEF Carried
      <4>3. ASSUME NEW c \in DOMAIN b.heap[k].cells, k = id, c = last.at
            PROVE  r.heap[to[k]].cells[c] = Carried(b, to, w, i, <<k, c, p>>, b.heap[k].cells[c])
        <5>1. r.heap[to[k]].cells[c] = v
          BY <2>5, <4>1, <4>3
        <5> QED BY <1>1, <1>8, <4>3, <5>1 DEF Carried
      <4> QED BY <2>5, <2>6, <4>1, <4>2, <4>3
    <3> QED BY <1>2, <3>1, <3>2, <3>3 DEF Landed
  <2>8. Elsewhere(b, p, r, to, Z)
    <3>1. to[id] \notin Z /\ Z \subseteq DOMAIN at.heap
      BY <1>3, <2>1 DEF Elsewhere, Closed
    <3>2. Closed(r.heap, Z)
      BY <1>3, <2>5, <3>1 DEF Elsewhere, Closed
    <3> QED BY <1>3, <2>4, <2>5, <3>2 DEF Elsewhere, New
  <2> QED BY <1>5, <2>7, <2>8 DEF Tracked, r
<1> QED BY <1>7, <1>8

LEMMA LandedSame ==
  ASSUME NEW b, NEW p, NEW at, NEW to, NEW w, NEW n, Landed(b, p, at, to, w, n),
         NEW r, NEW m, New(b.heap, at.heap) \subseteq New(b.heap, r.heap), r.args[p] = at.args[p],
         \A id \in Reach(b.heap, b.args[p]) : r.heap[to[id]] = at.heap[to[id]],
         \A s \in {<<p>>} \cup {<<id, c, p>> : id \in Reach(b.heap, b.args[p]), c \in Nat} : \A v :
           Now(b, w, m, s, v) = Now(b, w, n, s, v),
         b.heap \in Heaps, Closed(b.heap, Reach(b.heap, b.args[p]))
  PROVE  Landed(b, p, r, to, w, m)
<1> DEFINE S == Reach(b.heap, b.args[p])
<1>1. \A id \in S : \A c \in DOMAIN b.heap[id].cells : c \in Nat
  BY HeapFacts DEF Closed
<1>2. \A v : Carried(b, to, w, m, <<p>>, v) = Carried(b, to, w, n, <<p>>, v)
  BY DEF Carried
<1>3. \A id \in S : \A c \in DOMAIN b.heap[id].cells : \A v :
        Carried(b, to, w, m, <<id, c, p>>, v) = Carried(b, to, w, n, <<id, c, p>>, v)
  BY <1>1 DEF Carried
<1>4. to \in [S -> New(b.heap, r.heap)]
  BY DEF Landed
<1> QED BY <1>2, <1>3, <1>4 DEF Landed

(* A write to a leaf of another parameter. *)
LEMMA PutOther ==
  ASSUME NEW b \in Bases, Table, NEW p \in DOMAIN b.args \cap Touched,
         NEW i \in 1..Len(binding), binding[i].param # p, binding[i].param \in DOMAIN b.args,
         NEW at, NEW to, NEW w, Grown(b.heap, b.args, at), Landed(b, p, at, to, w, i - 1),
         NEW Z, Elsewhere(b, p, at, to, Z),
         NEW v \in Holding(Z), Put(at, binding[i], v) # Raised
  PROVE  Tracked(b, p, Put(at, binding[i], v), to, w, i)
<1> DEFINE q == binding[i].param
           S == Reach(b.heap, b.args[p])
           r == Put(at, binding[i], v)
<1>1. /\ q \in Touched /\ binding[i].route \in Seq(Segments) /\ i \in Nat \ {0}
  BY TableFacts
<1>2. /\ b.heap \in Heaps /\ Closed(b.heap, S) /\ at.heap \in Heaps /\ at \in States(DOMAIN b.args)
      /\ at.args[q] \in Holding(Z) /\ Closed(at.heap, Z) /\ Z \subseteq New(b.heap, at.heap)
      /\ New(b.heap, at.heap) \subseteq DOMAIN at.heap
  BY <1>1, BaseFacts, GrownFacts DEF Grown, Elsewhere, Closed
<1>3. /\ Len(r.heap) = Len(at.heap) /\ Closed(r.heap, Z)
      /\ \A k \in DOMAIN at.heap \ Z : r.heap[k] = at.heap[k]
      /\ r.args[q] \in Holding(Z)
      /\ \A x \in DOMAIN b.args \ {q} : r.args[x] = at.args[x]
  BY <1>1, <1>2, PutFacts
<1>4. Grown(b.heap, b.args, r)
  BY <1>2, PutGrown DEF Holding
<1> HIDE DEF r
<1>5. Landed(b, p, r, to, w, i)
  <2>1. New(b.heap, at.heap) = New(b.heap, r.heap)
    BY <1>3 DEF New
  <2>2. \A id \in S : r.heap[to[id]] = at.heap[to[id]]
    BY <1>2, <1>3 DEF Landed, Elsewhere
  <2>3. \A s \in {<<p>>} \cup {<<id, c, p>> : id \in S, c \in Nat} : \A x :
          Now(b, w, i, s, x) = Now(b, w, i - 1, s, x)
    <3>1. \A id, c : Spot(b, i) # <<id, c, p>>
      BY DEF Spot
    <3>2. Spot(b, i) # <<p>>
      BY DEF Spot
    <3> HIDE DEF S
    <3>3. \A s \in {<<p>>} \cup {<<id, c, p>> : id \in S, c \in Nat} : Spot(b, i) # s
      BY <3>1, <3>2
    <3> QED BY <1>1, <3>3, NowElsewhere
  <2>4. r.args[p] = at.args[p]
    BY <1>3
  <2> QED BY <1>2, <2>1, <2>2, <2>3, <2>4, LandedSame
<1>6. Elsewhere(b, p, r, to, Z)
  BY <1>3 DEF Elsewhere, New
<1> QED BY <1>4, <1>5, <1>6 DEF Tracked, r

(* Containers more, of values that are elsewhere. *)
LEMMA MoreOther ==
  ASSUME NEW b \in Bases, Table, NEW p \in DOMAIN b.args \cap Touched,
         NEW at, NEW to, NEW w, NEW n, Grown(b.heap, b.args, at), Landed(b, p, at, to, w, n),
         NEW Z, Elsewhere(b, p, at, to, Z),
         NEW g \in Heaps, Len(at.heap) <= Len(g), \A k \in 1..Len(at.heap) : g[k] = at.heap[k],
         Closed(g, Z \cup New(at.heap, g))
  PROVE  LET r == [at EXCEPT !.heap = g]
         IN  /\ Grown(b.heap, b.args, r) /\ Landed(b, p, r, to, w, n)
             /\ Elsewhere(b, p, r, to, Z \cup New(at.heap, g))
<1> DEFINE S == Reach(b.heap, b.args[p])
           N == Len(at.heap)
           r == [at EXCEPT !.heap = g]
           Y == Z \cup New(at.heap, g)
<1>1. /\ b.heap \in Heaps /\ Closed(b.heap, S) /\ at.heap \in Heaps /\ N \in Nat
      /\ DOMAIN at.heap = 1..N /\ Len(b.heap) \in Nat /\ Len(b.heap) <= N
      /\ Len(g) \in Nat /\ DOMAIN g = 1..Len(g)
      /\ Closed(at.heap, New(b.heap, at.heap))
  BY BaseFacts, GrownFacts, HeapFacts DEF Grown, Extends
<1>2. Z \subseteq New(b.heap, at.heap) /\ Closed(at.heap, Z)
  BY DEF Elsewhere
<1>3. Closed(g, New(b.heap, at.heap) \cup New(at.heap, g))
  <2>1. \A k \in New(b.heap, at.heap) : k \in 1..N /\ k \in 1..Len(g)
    BY <1>1 DEF New
  <2>2. ASSUME NEW k \in New(b.heap, at.heap) \cup New(at.heap, g), NEW c \in DOMAIN g[k].cells,
               IsRef(g[k].cells[c])
        PROVE  g[k].cells[c].val \in New(b.heap, at.heap) \cup New(at.heap, g)
    <3>1. CASE k \in New(b.heap, at.heap)
      BY <1>1, <2>1, <2>2, <3>1 DEF Closed
    <3>2. CASE k \in New(at.heap, g)
      BY <1>2, <2>2, <3>2 DEF Closed
    <3> QED BY <2>2, <3>1, <3>2
  <2>3. New(at.heap, g) \subseteq DOMAIN g
    BY DEF Closed
  <2> QED BY <1>1, <2>1, <2>2, <2>3 DEF Closed
<1>4. /\ Grown(b.heap, b.args, r) /\ r.heap = g /\ r.args = at.args
      /\ New(b.heap, g) = New(b.heap, at.heap) \cup New(at.heap, g)
  BY <1>1, <1>3, MoreGrown
<1> HIDE DEF r
<1>5. \A id \in S : to[id] \in New(b.heap, at.heap) /\ to[id] \in 1..N /\ to[id] \notin New(at.heap, g)
  <2>1. \A k \in New(b.heap, at.heap) : k \in 1..N /\ k \notin New(at.heap, g)
    BY <1>1 DEF New
  <2> QED BY <2>1 DEF Landed
<1> HIDE DEF N
<1>6. Landed(b, p, r, to, w, n)
  <2>1. \A id \in S : r.heap[to[id]] = at.heap[to[id]]
    BY <1>4, <1>5 DEF N
  <2>2. New(b.heap, at.heap) \subseteq New(b.heap, r.heap) /\ r.args[p] = at.args[p]
    BY <1>4
  <2> QED BY <1>1, <2>1, <2>2, LandedSame
<1>7. Elsewhere(b, p, r, to, Y)
  <2>1. \A id \in S : to[id] \notin Y
    BY <1>5 DEF Elsewhere
  <2>2. \A q \in (DOMAIN b.args \cap Touched) \ {p} : r.args[q] \in Holding(Y)
    BY <1>4 DEF Elsewhere, Holding
  <2>3. Closed(r.heap, Y) /\ Y \subseteq New(b.heap, r.heap)
    BY <1>2, <1>4
  <2> HIDE DEF Y
  <2> QED BY <2>1, <2>2, <2>3 DEF Elsewhere
<1> QED BY <1>4, <1>6, <1>7 DEF r

LEMMA NowIn ==
  ASSUME NEW b, NEW w, NEW n \in Nat, NEW s, NEW A, NEW v \in A,
         \A j \in 1..n : j \in DOMAIN w /\ Spot(b, j) = s => w[j] \in A
  PROVE  Now(b, w, n, s, v) \in A
<1>1. CASE Writers(b, w, n, s) = {}
  BY <1>1 DEF Now
<1>2. CASE Writers(b, w, n, s) # {}
  <2>1. Writers(b, w, n, s) \in SUBSET (0..n)
    BY DEF Writers
  <2>2. Max(Writers(b, w, n, s)) \in Writers(b, w, n, s)
    BY <1>2, <2>1, Greatest
  <2> QED BY <1>2, <2>2 DEF Now, Writers
<1> QED BY <1>1, <1>2

(* Copies are apart from one another. *)
LEMMA TrackedStart ==
  ASSUME NEW b \in Bases, Table, NEW p \in DOMAIN b.args \cap Touched,
         CopyTouched(b.heap, b.args) # Raised
  PROVE  \E to : \A w : Tracked(b, p, CopyTouched(b.heap, b.args), to, w, 0)
<1> DEFINE at == CopyTouched(b.heap, b.args)
           ps == Touched \cap DOMAIN b.args
           S == Reach(b.heap, b.args[p])
           P == Places(b.heap, b.args, ps)
           T == New(b.heap, at.heap)
<1>1. b.heap \in Heaps /\ GivenIn(b.heap, b.args)
      /\ \A q \in ps : /\ Closed(b.heap, Reach(b.heap, b.args[q])) /\ Reach(b.heap, b.args[q]) \subseteq DOMAIN b.heap
                       /\ b.args[q] \in Holding(Reach(b.heap, b.args[q]))
  BY BaseFacts DEF Closed
<1>2. Copied(b.heap, b.args, ps, at)
  BY <1>1, CopyTouchedFacts
<1>3. Grown(b.heap, b.args, at)
  BY <1>2, CopiedGrown
<1> HIDE DEF at
<1>4. PICK tt : CopiedTo(b.heap, b.args, ps, at, tt)
  BY <1>2 DEF Copied
<1>5. \A q \in ps : \A id \in Reach(b.heap, b.args[q]) : <<q, id>> \in P
  BY <1>1 DEF Places
<1>6. \A x \in P : x[1] \in ps /\ x[2] \in Reach(b.heap, b.args[x[1]]) /\ x = <<x[1], x[2]>>
  BY DEF Places
<1>7. T \subseteq DOMAIN at.heap /\ \A k \in T : k \in Int
  <2>1. at.heap \in Heaps /\ Len(b.heap) \in Nat /\ Len(at.heap) \in Nat /\ Len(b.heap) <= Len(at.heap)
        /\ DOMAIN at.heap = 1..Len(at.heap)
    BY <1>1, <1>3, HeapFacts DEF Grown, Extends
  <2> QED BY <2>1 DEF New
<1> DEFINE to == [id \in S |-> tt[<<p, id>>]]
           Z == {tt[x] : x \in {y \in P : y[1] # p}}
<1> HIDE DEF P, T
<1>8. \A x \in P : /\ tt[x] \in T
                   /\ DOMAIN at.heap[tt[x]].cells = DOMAIN b.heap[x[2]].cells
                   /\ at.heap[tt[x]].kind = b.heap[x[2]].kind
                   /\ \A c \in DOMAIN b.heap[x[2]].cells :
                        at.heap[tt[x]].cells[c] = Moved(tt, x[1], b.heap[x[2]].cells[c])
  BY <1>4 DEF CopiedTo, P, T
<1>9. \A x, y \in P : tt[x] = tt[y] => x = y
  BY <1>4 DEF CopiedTo, P
<1>10. p \in ps /\ \A q \in ps : at.args[q] = Moved(tt, q, b.args[q])
  BY <1>4 DEF CopiedTo
<1>11. \A id \in S : to[id] = tt[<<p, id>>] /\ <<p, id>> \in P
  BY <1>5, <1>10
<1>12. to \in [S -> T]
  BY <1>8, <1>11
<1> HIDE DEF to
<1>13. ASSUME NEW w PROVE Landed(b, p, at, to, w, 0)
  <2>1. \A s, v : Now(b, w, 0, s, v) = v
    BY NowFacts
  <2>2. \A s : \A v \in Holding(S) : Carried(b, to, w, 0, s, v) = Moved(tt, p, v)
    BY <1>11, <2>1 DEF Carried, Moved, Holding
  <2>3. \A id \in S : \A c \in DOMAIN b.heap[id].cells : b.heap[id].cells[c] \in Holding(S)
    <3>1. Closed(b.heap, S)
      BY <1>1, <1>10
    <3> QED BY <1>1, <3>1, HeapFacts DEF Closed, Holding
  <2>4. \A i, j \in S : to[i] = to[j] => i = j
    BY <1>9, <1>11
  <2>5. at.args[p] = Carried(b, to, w, 0, <<p>>, b.args[p])
    BY <1>1, <1>10, <2>2
  <2>6. ASSUME NEW id \in S
        PROVE  /\ at.heap[to[id]].kind = b.heap[id].kind
               /\ DOMAIN at.heap[to[id]].cells = DOMAIN b.heap[id].cells
               /\ \A c \in DOMAIN b.heap[id].cells :
                    at.heap[to[id]].cells[c] = Carried(b, to, w, 0, <<id, c, p>>, b.heap[id].cells[c])
    <3> DEFINE x == <<p, id>>
    <3>1. x \in P /\ x[1] = p /\ x[2] = id /\ to[id] = tt[x]
      BY <1>11
    <3> HIDE DEF x
    <3> QED BY <1>8, <2>2, <2>3, <3>1
  <2> HIDE DEF S
  <2> QED BY <1>12, <2>4, <2>5, <2>6 DEF Landed, S, T
<1>14. Elsewhere(b, p, at, to, Z)
  <2>1. Z \subseteq T
    BY <1>8
  <2>2. ASSUME NEW k \in Z, NEW c \in DOMAIN at.heap[k].cells, IsRef(at.heap[k].cells[c])
        PROVE  at.heap[k].cells[c].val \in Z
    <3>1. PICK x \in P : x[1] # p /\ k = tt[x]
      BY <2>2
    <3> DEFINE v == b.heap[x[2]].cells[c]
               y == <<x[1], v.val>>
    <3>2. c \in DOMAIN b.heap[x[2]].cells /\ at.heap[k].cells[c] = Moved(tt, x[1], v)
      BY <1>8, <2>2, <3>1
    <3>3. IsRef(v)
      BY <2>2, <3>2 DEF Moved
    <3>4. v.val \in Reach(b.heap, b.args[x[1]])
      BY <1>1, <1>6, <3>1, <3>2, <3>3 DEF Closed
    <3>5. y \in P /\ y[1] # p
      BY <1>5, <1>6, <3>1, <3>4
    <3>6. at.heap[k].cells[c] = Ref(tt[y])
      BY <3>2, <3>3 DEF Moved
    <3>7. tt[y] \in Z /\ tt[y] \in Int
      BY <1>7, <1>8, <3>5
    <3> HIDE DEF y, v, Z
    <3> QED BY <3>6, <3>7, RefFacts
  <2>3. Closed(at.heap, Z)
    BY <1>7, <2>1, <2>2 DEF Closed
  <2>4. \A id \in S : to[id] \notin Z
    <3> SUFFICES ASSUME NEW id \in S, to[id] \in Z PROVE FALSE
      OBVIOUS
    <3>1. PICK x \in P : x[1] # p /\ to[id] = tt[x]
      OBVIOUS
    <3>2. <<p, id>> \in P /\ tt[x] = tt[<<p, id>>]
      BY <1>11, <3>1
    <3>3. x = <<p, id>>
      BY <1>9, <3>2
    <3> QED BY <3>1, <3>3
  <2>5. ASSUME NEW q \in (DOMAIN b.args \cap Touched) \ {p} PROVE at.args[q] \in Holding(Z)
    <3>1. q \in ps /\ at.args[q] = Moved(tt, q, b.args[q]) /\ b.args[q] \in Holding(Reach(b.heap, b.args[q]))
      BY <1>1, <1>10
    <3>2. CASE IsRef(b.args[q])
      <4> DEFINE y == <<q, b.args[q].val>>
      <4>1. y \in P /\ y[1] # p
        BY <1>5, <3>1, <3>2 DEF Holding
      <4>2. tt[y] \in Z /\ tt[y] \in Int
        BY <1>7, <1>8, <4>1
      <4>3. at.args[q] = Ref(tt[y])
        BY <3>1, <3>2 DEF Moved
      <4> HIDE DEF y, Z
      <4> QED BY <4>2, <4>3, RefFacts DEF Holding
    <3>3. CASE ~IsRef(b.args[q])
      BY <3>1, <3>3 DEF Moved, Holding
    <3> QED BY <3>2, <3>3
  <2> QED BY <2>1, <2>3, <2>4, <2>5 DEF Elsewhere, T
<1>15. \A w : Tracked(b, p, at, to, w, 0)
  BY <1>3, <1>13, <1>14 DEF Tracked
<1> QED BY <1>15 DEF at

\* Values that are written at leaves.
Plain == {v \in Values : ~IsRef(v)}

(* A leaf of the model is written where it is, in any parameter. *)
LEMMA ApplyToTracked ==
  ASSUME NEW b \in Bases, Table, NEW p \in DOMAIN b.args \cap Touched, Fits(b, p),
         NEW i \in 1..Len(binding), NEW m, \A j \in 1..Len(binding) : j \in DOMAIN m => m[j] \in Plain,
         NEW at, NEW to, Tracked(b, p, at, to, m, i - 1), ApplyTo(at, i, m) # Raised
  PROVE  Tracked(b, p, ApplyTo(at, i, m), to, m, i)
<1> DEFINE q == binding[i].param
           x == Get(at.heap, at.args, binding[i])
           v == IF i \in DOMAIN m THEN m[i] ELSE x
<1>1. ApplyTo(at, i, m) = Put(at, binding[i], v) /\ x # Raised
  BY DEF ApplyTo
<1>2. Grown(b.heap, b.args, at) /\ Landed(b, p, at, to, m, i - 1) /\ b.heap \in Heaps
  BY BaseFacts DEF Tracked
<1>3. q \in DOMAIN b.args /\ i \in Nat \ {0} /\ Len(binding) \in Nat /\ q \in Touched
  BY <1>1, <1>2, GrownFacts, TableFacts
<1>4. CASE q = p
  <2>1. x = Now(b, m, i - 1, Spot(b, i), Original(b, i))
    <3>1. Fits(b, q) /\ Landed(b, q, at, to, m, i - 1)
      BY <1>2, <1>4
    <3> QED BY <1>2, <3>1, GetLanded
  <2>2. v = Now(b, m, i, Spot(b, i), Original(b, i))
    <3>1. Now(b, m, i, Spot(b, i), Original(b, i))
            = IF i \in DOMAIN m THEN m[i] ELSE Now(b, m, i - 1, Spot(b, i), Original(b, i))
      <4>1. i \in Nat /\ i # 0
        BY <1>3
      <4>2. \A o : Now(b, m, i, Spot(b, i), o) = IF i \in DOMAIN m THEN m[i] ELSE Now(b, m, i - 1, Spot(b, i), o)
        BY ONLY <4>1, NowHere
      <4> QED BY <4>2
    <3> QED BY <2>1, <3>1, Zenon
  <2>3. Original(b, i) \in Plain
    <3>1. Original(b, i) \in Values
      <4>1. b.args[p] \in Holding(Reach(b.heap, b.args[p])) /\ Closed(b.heap, Reach(b.heap, b.args[p]))
        BY BaseFacts
      <4>2. Descend(b.heap, b.args[p], binding[i].route) \in Holding(Reach(b.heap, b.args[p]))
        BY <1>2, <4>1, TableFacts, DescendFacts
      <4> QED BY <1>4, <4>2 DEF Original, Holding
    <3> QED BY <1>4, <3>1, SpotFacts DEF Plain, IsRef, Sorts
  <2>4. v \in Plain
    <3>1. \A j \in 1..i : j \in 1..Len(binding)
      BY <1>3
    <3> QED BY <1>3, <2>2, <2>3, <3>1, NowIn
  <2> HIDE DEF v
  <2> QED BY <1>1, <1>4, <2>2, <2>4, PutOwn DEF Plain
<1>5. CASE q # p
  <2>1. PICK Z : Elsewhere(b, p, at, to, Z)
    BY DEF Tracked
  <2>2. x \in Holding(Z)
    <3>1. at \in States(DOMAIN b.args) /\ Closed(at.heap, Z) /\ at.args[q] \in Holding(Z)
      BY <1>2, <1>3, <1>5, <2>1 DEF Grown, Elsewhere
    <3> QED BY <3>1, TableFacts, GetFacts
  <2>3. v \in Holding(Z)
    BY <2>2 DEF Plain, Holding
  <2> HIDE DEF v
  <2> QED BY <1>1, <1>2, <1>3, <1>5, <2>1, <2>3, PutOther
<1> QED BY <1>4, <1>5
(* So all of a model is written, where the leaves are. *)
LEMMA ApplyModelTracked ==
  ASSUME NEW b \in Bases, Table, NEW p \in DOMAIN b.args \cap Touched, Fits(b, p),
         NEW m, \A j \in 1..Len(binding) : j \in DOMAIN m => m[j] \in Plain,
         ApplyModel(b.heap, b.args, m) # Raised
  PROVE  \E to : Tracked(b, p, ApplyModel(b.heap, b.args, m), to, m, Len(binding))
<1> DEFINE N == Len(binding)
<1>1. b.heap \in Heaps /\ GivenIn(b.heap, b.args) /\ N \in Nat
  BY BaseFacts, TableFacts
<1>2. PICK f \in [0..N -> Growths(b.heap, b.args)] :
        /\ f[0] = CopyTouched(b.heap, b.args)
        /\ \A i \in 1..N : f[i] = ApplyTo(f[i - 1], i, m)
        /\ ApplyModel(b.heap, b.args, m) = f[N]
  BY <1>1, ApplyModelUnrolled DEF Plain
<1>3. \A i \in 1..N : f[i] # Raised => f[i - 1] # Raised
  BY <1>2 DEF ApplyTo
<1>4. f[0] # Raised
  <2> DEFINE Bad == {n \in 0..N : f[n] = Raised}
  <2> SUFFICES ASSUME f[0] = Raised PROVE FALSE
    OBVIOUS
  <2>1. 0 \in Bad
    BY <1>1
  <2>2. ASSUME NEW n \in 1..N, n - 1 \in Bad PROVE n \in Bad
    BY <1>1, <1>3, <2>2
  <2> HIDE DEF Bad
  <2>3. N \in Bad
    BY <1>1, <2>1, <2>2, InductionFromZero
  <2> QED BY <1>2, <2>3 DEF Bad
<1>5. PICK to : \A w : Tracked(b, p, f[0], to, w, 0)
  BY <1>2, <1>4, TrackedStart
<1> DEFINE Good == {n \in 0..N : f[n] # Raised => Tracked(b, p, f[n], to, m, n)}
<1>6. 0 \in Good
  BY <1>1, <1>5
<1>7. ASSUME NEW n \in 1..N, n - 1 \in Good PROVE n \in Good
  <2>1. n \in 0..N
    BY <1>1
  <2> SUFFICES ASSUME f[n] # Raised PROVE Tracked(b, p, f[n], to, m, n)
    BY <2>1
  <2>2. Tracked(b, p, f[n - 1], to, m, n - 1)
    BY <1>3, <1>7
  <2>3. ApplyTo(f[n - 1], n, m) # Raised /\ f[n] = ApplyTo(f[n - 1], n, m)
    BY <1>2
  <2>4. Tracked(b, p, ApplyTo(f[n - 1], n, m), to, m, n)
    BY <2>2, <2>3, ApplyToTracked
  <2> QED BY <2>3, <2>4
<1> HIDE DEF Good
<1> HIDE DEF N
<1>8. \A n \in 0..N : n \in Good
  BY <1>1, <1>6, <1>7, InductionFromZero
<1>9. N \in Good
  BY <1>1, <1>8
<1> QED BY <1>2, <1>9 DEF Good, N

-----------------------------------------------------------------------------
(* What exploration started from. *)

\* No container of a parameter of its own has been written since.
Unspoilt ==
    /\ initial = origin.args /\ origin.heap \in Heaps /\ GivenIn(origin.heap, origin.args)
    /\ \A p \in Touched : Private(p) =>
         \A id \in Reach(origin.heap, origin.args[p]) : id \in DOMAIN heap /\ heap[id] = origin.heap[id]

Restored == [heap |-> heap, args |-> initial]

(* Leaves are where they were. *)
LEMMA StartFacts ==
  ASSUME ApartInv, Unspoilt
  PROVE  /\ Restored \in Bases /\ Restored.heap = heap /\ Restored.args = initial
         /\ \A p \in Touched : /\ p \in DOMAIN initial
                               /\ Private(p) => Reach(heap, initial[p]) = Reach(origin.heap, origin.args[p])
                               /\ Private(p) => Fits(Restored, p)
         /\ \A i \in 1..Len(binding) : Private(binding[i].param) =>
              /\ Spot(Restored, i) = Cell(i)
              /\ Original(Restored, i) = Get(origin.heap, origin.args, binding[i])
              /\ Original(Restored, i).sort = binding[i].sort
              /\ Original(Restored, i).sym = NoSymbol
<1>1. /\ heap \in Heaps /\ Table /\ GivenIn(heap, initial) /\ initial = origin.args /\ origin.heap \in Heaps
      /\ GivenIn(origin.heap, origin.args)
  BY DEF ApartInv, TypeInv, Held, Kept, Unspoilt
<1>2. Restored \in Bases /\ Restored.heap = heap /\ Restored.args = initial
  <2>1. Restored \in States(DOMAIN initial) /\ DOMAIN initial \in SUBSET Names
    BY <1>1 DEF Restored, States, GivenIn
  <2> QED BY <2>1 DEF Bases, Restored
<1>3. \A i \in 1..Len(binding) :
        /\ binding[i].param \in DOMAIN initial
        /\ Descend(origin.heap, origin.args[binding[i].param], binding[i].route).sort = binding[i].sort
        /\ Descend(origin.heap, origin.args[binding[i].param], binding[i].route).sym = NoSymbol
        /\ binding[i].sort \in Sorts
        /\ binding[i].route \in Seq(Segments)
  <2> SUFFICES ASSUME NEW i \in 1..Len(binding)
               PROVE  /\ binding[i].param \in DOMAIN initial
                      /\ Descend(origin.heap, origin.args[binding[i].param], binding[i].route).sort = binding[i].sort
                      /\ Descend(origin.heap, origin.args[binding[i].param], binding[i].route).sym = NoSymbol
                      /\ binding[i].sort \in Sorts
                      /\ binding[i].route \in Seq(Segments)
    OBVIOUS
  <2>1. binding[i] \in Leaves(origin.heap, origin.args)
    BY <1>1, ElementOfSeq DEF Table
  <2> QED BY <1>1, <2>1 DEF Leaves
<1>4. \A p \in Touched : p \in DOMAIN initial
  BY <1>3 DEF Touched
<1>5. ASSUME NEW p \in Touched, Private(p)
      PROVE  /\ Reach(heap, initial[p]) = Reach(origin.heap, origin.args[p])
             /\ \A route \in Seq(Segments) :
                  Descend(heap, initial[p], route) = Descend(origin.heap, origin.args[p], route)
  <2> DEFINE S == Reach(origin.heap, origin.args[p])
             v == initial[p]
  <2>1. v \in Values /\ In(origin.heap, v) /\ v = origin.args[p]
    BY <1>1, <1>4 DEF GivenIn
  <2>2. Closed(origin.heap, S) /\ v \in Holding(S)
    BY <1>1, <2>1, ReachFacts DEF Holding
  <2>3. S \subseteq DOMAIN heap /\ \A id \in S : heap[id] = origin.heap[id]
    BY <1>5 DEF Unspoilt
  <2> HIDE DEF v
  <2>4. Reach(heap, v) = S
    <3>1. IsRef(v) => v.val \in S
      BY <2>2 DEF Holding
    <3>2. Reach(heap, v) = Reach(origin.heap, v)
      BY <1>1, <2>2, <2>3, <3>1, ReachSame
    <3> QED BY <2>1, <3>2
  <2> HIDE DEF S
  <2>5. \A route \in Seq(Segments) : Descend(heap, v, route) = Descend(origin.heap, v, route)
    BY <1>1, <2>2, <2>3, DescendSame
  <2> QED BY <2>1, <2>4, <2>5 DEF v, S
<1>6. ASSUME NEW i \in 1..Len(binding), Private(binding[i].param)
      PROVE  /\ Spot(Restored, i) = Cell(i)
             /\ Original(Restored, i) = Get(origin.heap, origin.args, binding[i])
             /\ Original(Restored, i).sort = binding[i].sort
             /\ Original(Restored, i).sym = NoSymbol
  <2> DEFINE q == binding[i].param
             route == binding[i].route
  <2>1. /\ q \in Touched /\ q \in DOMAIN origin.args /\ route \in Seq(Segments)
        /\ route # <<>> => Front(route) \in Seq(Segments)
    BY <1>1, <1>3, RouteParts DEF Touched
  <2>2. Original(Restored, i) = Descend(origin.heap, origin.args[q], route)
    BY <1>2, <1>5, <1>6, <2>1 DEF Original
  <2>3. route # <<>> => HolderOf(Restored, i) = Descend(origin.heap, origin.args[q], Front(route))
    BY <1>2, <1>5, <1>6, <2>1 DEF HolderOf
  <2> QED BY <1>3, <2>1, <2>2, <2>3 DEF Get, Spot, Cell
<1>7. ASSUME NEW p \in Touched, Private(p) PROVE Fits(Restored, p)
  BY <1>2, <1>3, <1>4, <1>5, <1>7 DEF Fits
<1> QED BY <1>2, <1>4, <1>5, <1>6, <1>7

(* What Solve leaves behind. *)
LEMMA SolveFacts ==
  ASSUME ApartInv, Solve
  PROVE  \/ heap' = heap /\ pc' # "given"
         \/ \E m \in Models :
              LET made == ApplyModel(heap, initial, m)
              IN  /\ made # Raised /\ Grown(heap, initial, made)
                  /\ heap' = made.heap /\ given' = made.args /\ model' = m /\ pc' = "given"
<1>1. heap \in Heaps /\ Table /\ GivenIn(heap, initial) /\ pc = "next"
  BY DEF ApartInv, TypeInv, Held, Kept, Solve
<1> DEFINE Made(m) == ApplyModel(heap, initial, m)
<1>2. PICK m \in Models :
        \/ pc' = "raised" /\ UNCHANGED <<heap, given>>
        \/ UNCHANGED <<heap, given, model, pc>>
        \/ Made(m) # Raised /\ heap' = Made(m).heap /\ given' = Made(m).args /\ model' = m /\ pc' = "given"
  BY DEF Solve
<1>3. Made(m) # Raised => Grown(heap, initial, Made(m))
  BY <1>1, ModelFacts, ApplyModelGrown DEF Growths
<1> HIDE DEF Made
<1>4. CASE heap' = heap /\ pc' # "given"
  BY <1>4
<1>5. CASE Made(m) # Raised /\ heap' = Made(m).heap /\ given' = Made(m).args /\ model' = m /\ pc' = "given"
  BY <1>3, <1>5 DEF Made
<1> QED BY <1>1, <1>2, <1>4, <1>5

(* Whatever is done, what inputs hold for parameters of their own stays. *)
LEMMA PrivateStays ==
  ASSUME ApartInv, [Next]_vars
  PROVE  \E F : /\ Closed(heap, F) /\ F \subseteq DOMAIN heap' /\ \A i \in F : heap'[i] = heap[i]
                /\ \A args \in Kept : \A p \in DOMAIN args \cap Touched : Private(p) => args[p] \in Holding(F)
<1>1. heap \in Heaps /\ Table /\ Kept \subseteq Held /\ \A args \in Kept : GivenIn(heap, args)
  BY DEF ApartInv, TypeInv, Held
<1>2. PICK F, W : Apart(F, W)
  BY DEF ApartInv
<1>3. /\ Closed(heap, F)
      /\ \A args \in Kept : \A p \in DOMAIN args \cap Touched : Private(p) => args[p] \in Holding(F)
  BY <1>1, <1>2 DEF Apart, Parted
<1>4. CASE Extends(heap, heap')
  <2>1. F \subseteq DOMAIN heap' /\ \A i \in F : heap'[i] = heap[i]
    BY <1>1, <1>3, <1>4, ExtendsFacts DEF Closed
  <2> QED BY <1>3, <2>1
<1>5. CASE heap' = heap
  BY <1>1, <1>4, <1>5, ExtendsRefl
<1>6. CASE TargetWrites
  BY <1>2, <1>3, <1>6, TargetWritesPassed
<1>7. CASE TargetReturns
  <2>1. heap' = Collected(heap)
    BY <1>7 DEF TargetReturns
  <2> QED BY <1>1, <2>1, CollectedFacts
<1>8. CASE Solve
  BY <1>4, <1>5, <1>8, SolveFacts DEF Grown
<1>9. CASE Attempt
  <2>1. pc = "given" /\ GivenIn(heap, given)
    BY <1>9 DEF Attempt, ApartInv, TypeInv, Held
  <2>2. WrapLeaves(heap, given) # Raised => Grown(heap, given, WrapLeaves(heap, given))
    BY <1>1, <2>1, WrapLeavesGrown DEF Growths
  <2>3. heap' = heap \/ Extends(heap, heap')
    BY <1>9, <2>2 DEF Attempt, Grown
  <2> QED BY <1>4, <1>5, <2>3
<1>10. CASE PopQueue \/ Resolve \/ UNCHANGED vars
  BY <1>5, <1>10 DEF PopQueue, Resolve, vars
<1> QED BY <1>6, <1>7, <1>8, <1>9, <1>10 DEF Next

LEMMA FixedFacts == [Next]_vars => UNCHANGED <<initial, origin, binding>>
BY DEF Next, PopQueue, Solve, Resolve, Attempt, TargetWrites, TargetReturns, vars

LEMMA UnspoiltStays ==
  ASSUME ApartInv, Unspoilt, [Next]_vars
  PROVE  Unspoilt'
<1>1. UNCHANGED <<initial, origin, binding>>
  BY FixedFacts
<1>2. PICK F : /\ Closed(heap, F) /\ F \subseteq DOMAIN heap' /\ \A i \in F : heap'[i] = heap[i]
               /\ \A args \in Kept : \A p \in DOMAIN args \cap Touched : Private(p) => args[p] \in Holding(F)
  BY PrivateStays
<1>3. heap \in Heaps /\ initial \in Kept /\ GivenIn(heap, initial)
  BY DEF ApartInv, TypeInv, Held, Kept
<1>4. ASSUME NEW p \in Touched, Private(p) PROVE Reach(origin.heap, origin.args[p]) \subseteq F
  <2>1. p \in DOMAIN initial /\ Reach(heap, initial[p]) = Reach(origin.heap, origin.args[p])
    BY <1>4, StartFacts
  <2>2. In(heap, initial[p]) /\ (IsRef(initial[p]) => initial[p].val \in F)
    BY <1>2, <1>3, <1>4, <2>1 DEF GivenIn, Holding
  <2> QED BY <1>2, <1>3, <2>1, <2>2, ReachFacts
<1>5. \A p \in Touched : Private(p) =>
        \A id \in Reach(origin.heap, origin.args[p]) : id \in DOMAIN heap' /\ heap'[id] = origin.heap[id]
  BY <1>2, <1>4 DEF Unspoilt
<1>6. \A p \in Touched' : Private(p)' =>
        \A id \in Reach(origin.heap, origin.args[p]) : id \in DOMAIN heap' /\ heap'[id] = origin.heap[id]
  BY <1>1, <1>5, SameTable
<1> QED BY <1>1, <1>6 DEF Unspoilt
(* Spots are one exactly where cells are. *)
LEMMA SpotsAreCells ==
  ASSUME ApartInv, Unspoilt, NEW i \in 1..Len(binding), Private(binding[i].param)
  PROVE  \A j \in 1..Len(binding) : Spot(Restored, j) = Spot(Restored, i) <=> j \in SameCell(i)
<1> SUFFICES ASSUME NEW j \in 1..Len(binding)
             PROVE  Spot(Restored, j) = Spot(Restored, i) <=> Cell(j) = Cell(i)
  BY DEF SameCell
<1>1. CASE binding[j].param = binding[i].param
  BY <1>1, StartFacts
<1>2. CASE binding[j].param # binding[i].param
  <2>1. Cell(j) # Cell(i)
    BY <1>2 DEF Cell
  <2>2. Spot(Restored, j) # Spot(Restored, i)
    BY <1>2 DEF Spot
  <2> QED BY <2>1, <2>2
<1> QED BY <1>1, <1>2

(* A model that was solved for is in the new input. *)
LEMMA SolveLands ==
  ASSUME ApartInv, Unspoilt, Solve
  PROVE  ModelLands'
<1>1. UNCHANGED <<initial, origin, binding>>
  BY FixedFacts DEF Next
<1> SUFFICES ASSUME pc' = "given", model' # NoModel,
                    NEW i \in 1..Len(binding), Private(binding[i].param)
             PROVE  LET named == SameCell(i) \cap DOMAIN model'
                    IN  Get(heap', given', binding[i])
                          = IF named = {} THEN Get(origin.heap, origin.args, binding[i])
                            ELSE model'[Max(named)]
  BY <1>1, SameTable DEF ModelLands, SameCell, Cell
<1>2. PICK m \in Models :
        /\ ApplyModel(heap, initial, m) # Raised
        /\ heap' = ApplyModel(heap, initial, m).heap /\ given' = ApplyModel(heap, initial, m).args
        /\ model' = m
  BY SolveFacts
<1> DEFINE p == binding[i].param
           at == ApplyModel(heap, initial, m)
           N == Len(binding)
           s == Spot(Restored, i)
<1>3. /\ Restored \in Bases /\ Restored.heap = heap /\ Restored.args = initial
      /\ p \in DOMAIN Restored.args \cap Touched /\ Fits(Restored, p) /\ Table
      /\ Original(Restored, i) = Get(origin.heap, origin.args, binding[i])
  BY StartFacts, TableFacts DEF ApartInv, TypeInv
<1>4. \A j \in 1..N : j \in DOMAIN m => m[j] \in Plain
  BY <1>3, ModelFacts DEF Plain
<1>5. PICK to : Tracked(Restored, p, at, to, m, N)
  BY <1>2, <1>3, <1>4, ApplyModelTracked
<1> HIDE DEF at
<1>6. Get(at.heap, at.args, binding[i]) = Now(Restored, m, N, s, Original(Restored, i))
  <2>1. Grown(Restored.heap, Restored.args, at) /\ Landed(Restored, p, at, to, m, N)
    BY <1>5 DEF Tracked
  <2> HIDE DEF N, s
  <2>2. Get(at.heap, at.args, binding[i]) = Now(Restored, m, N, Spot(Restored, i), Original(Restored, i))
    BY <1>3, <2>1, GetLanded
  <2> QED BY <2>2 DEF s
<1>7. Writers(Restored, m, N, s) = SameCell(i) \cap DOMAIN m
  <2>1. \A j \in 1..N : Spot(Restored, j) = s <=> j \in SameCell(i)
    BY SpotsAreCells
  <2>2. SameCell(i) \subseteq 1..N
    BY DEF SameCell
  <2> HIDE DEF s, N
  <2> QED BY <2>1, <2>2 DEF Writers
<1> HIDE DEF s, N
<1> QED BY <1>2, <1>3, <1>6, <1>7 DEF Now, at

LandsInv == ApartInv /\ Unspoilt /\ ModelLands

LEMMA LandsStays ==
  ASSUME LandsInv, [Next]_vars, ApartInv'
  PROVE  LandsInv'
<1>1. Unspoilt'
  BY UnspoiltStays DEF LandsInv
<1>2. CASE Solve
  BY <1>1, <1>2, SolveLands DEF LandsInv
<1>3. CASE PopQueue \/ Resolve \/ Attempt \/ TargetWrites \/ TargetReturns
  <2>1. pc' # "given" \/ model' = NoModel
    BY <1>3 DEF PopQueue, Resolve, Attempt, TargetWrites, TargetReturns
  <2> QED BY <1>1, <2>1 DEF LandsInv, ModelLands
<1>4. CASE UNCHANGED vars
  <2>1. UNCHANGED <<heap, given, model, pc, origin, binding>>
    BY <1>4 DEF vars
  <2>2. \A i : SameCell(i)' = SameCell(i)
    BY <2>1 DEF SameCell, Cell
  <2>3. ModelLands'
    BY <2>1, <2>2, SameTable DEF LandsInv, ModelLands
  <2> QED BY <1>1, <2>3 DEF LandsInv
<1> QED BY <1>2, <1>3, <1>4 DEF Next

LEMMA InitLands == Init => Unspoilt /\ ModelLands
<1> SUFFICES ASSUME Init PROVE Unspoilt /\ ModelLands
  OBVIOUS
<1>1. PICK t \in Templates :
        /\ heap = t.heap
        /\ initial = t.args
        /\ origin = [heap |-> t.heap, args |-> t.args, starts |-> {t.args} \cup ToSet(t.seeds)]
  BY DEF Init
<1>2. t.heap \in Heaps /\ GivenIn(t.heap, t.args)
  BY BindingAssumption
<1>3. pc = "next" /\ Table
  BY InitApart DEF Init, ApartInv, TypeInv
<1>4. origin.heap = heap /\ origin.args = initial /\ heap \in Heaps /\ GivenIn(heap, initial)
  BY <1>1, <1>2
<1>5. ASSUME NEW p \in Touched, NEW id \in Reach(origin.heap, origin.args[p])
      PROVE  id \in DOMAIN heap
  <2>1. p \in DOMAIN initial
    <3>1. PICK i \in 1..Len(binding) : p = binding[i].param
      BY DEF Touched
    <3>2. binding[i] \in Leaves(origin.heap, origin.args)
      BY <1>3, ElementOfSeq DEF Table
    <3> QED BY <1>4, <3>1, <3>2 DEF Leaves
  <2>2. Closed(heap, Reach(heap, initial[p]))
    BY <1>4, <2>1, ReachFacts DEF GivenIn
  <2> QED BY <1>4, <1>5, <2>2 DEF Closed
<1> QED BY <1>3, <1>4, <1>5 DEF Unspoilt, ModelLands

(* However many attempts lie between, and whatever their targets wrote: an input made *)
(* from a model has the model's values at the leaves of every parameter that shares    *)
(* nothing with one passed by reference, the last leaf counting where two are one      *)
(* cell, and at the leaves the model leaves out what exploration started from.         *)
THEOREM ModelLandsHolds == Spec => []ModelLands
<1>1. Init => ApartInv /\ LandsInv
  BY InitApart, InitLands DEF LandsInv
<1>2. ApartInv /\ LandsInv /\ [Next]_vars => (ApartInv /\ LandsInv)'
  BY StepApart, LandsStays
<1>3. LandsInv => ModelLands
  BY DEF LandsInv
<1> QED
  BY <1>1, <1>2, <1>3, PTL DEF Spec
-----------------------------------------------------------------------------
(* What the target is shown. *)

(* One spot has one value, and is in one parameter. *)
LEMMA SameSpot ==
  ASSUME NEW b \in Bases, Table, NEW i \in 1..Len(binding), Fits(b, binding[i].param),
         NEW j \in 1..Len(binding), Spot(b, j) = Spot(b, i)
  PROVE  binding[j].param = binding[i].param /\ Original(b, j) = Original(b, i)
<1>1. binding[j].param = binding[i].param
  BY DEF Spot
<1>2. Fits(b, binding[j].param)
  BY <1>1
<1>3. CASE binding[i].route = <<>>
  <2>1. binding[j].route = <<>>
    BY <1>3 DEF Spot
  <2> QED BY <1>1, <1>2, <1>3, <2>1, SpotFacts
<1>4. CASE binding[i].route # <<>>
  <2>1. binding[j].route # <<>>
    BY <1>4 DEF Spot
  <2>2. HolderOf(b, j).val = HolderOf(b, i).val /\ Last(binding[j].route).at = Last(binding[i].route).at
    BY <1>4, <2>1 DEF Spot
  <2>3. /\ Original(b, i) = b.heap[HolderOf(b, i).val].cells[Last(binding[i].route).at]
        /\ Original(b, j) = b.heap[HolderOf(b, j).val].cells[Last(binding[j].route).at]
    BY <1>2, <1>4, <2>1, SpotFacts
  <2> QED BY <1>1, <2>2, <2>3
<1> QED BY <1>3, <1>4

(* In the copy, too, spots are one exactly where they were. *)
LEMMA SpotsLanded ==
  ASSUME NEW b \in Bases, Table, NEW i \in 1..Len(binding), Fits(b, binding[i].param),
         NEW at, NEW to, NEW w, NEW n, Tracked(b, binding[i].param, at, to, w, n),
         NEW j \in 1..Len(binding)
  PROVE  Spot(at, j) = Spot(at, i) <=> Spot(b, j) = Spot(b, i)
<1> DEFINE p == binding[i].param
<1>1. b.heap \in Heaps /\ Grown(b.heap, b.args, at) /\ Landed(b, p, at, to, w, n)
  BY BaseFacts DEF Tracked
<1>2. ASSUME NEW k \in 1..Len(binding), binding[k].param = p, binding[k].route # <<>>
      PROVE  /\ HolderOf(at, k).val = to[HolderOf(b, k).val]
             /\ HolderOf(b, k).val \in Reach(b.heap, b.args[p])
  <2>1. Fits(b, binding[k].param) /\ Landed(b, binding[k].param, at, to, w, n)
    BY <1>1, <1>2
  <2>2. /\ HolderOf(at, k) = Ref(to[HolderOf(b, k).val]) /\ to[HolderOf(b, k).val] \in New(b.heap, at.heap)
        /\ HolderOf(b, k).val \in Reach(b.heap, b.args[p])
    BY <1>1, <1>2, <2>1, HolderLanded DEF HolderOf
  <2>3. to[HolderOf(b, k).val] \in Int
    BY <1>1, <2>2, GrownFacts, HeapFacts DEF New
  <2> QED BY <2>2, <2>3, RefFacts
<1>3. \A x, y \in Reach(b.heap, b.args[p]) : to[x] = to[y] => x = y
  BY <1>1 DEF Landed
<1>4. CASE binding[j].param # p
  <2>1. Spot(at, j) # Spot(at, i)
    BY <1>4 DEF Spot
  <2>2. Spot(b, j) # Spot(b, i)
    BY <1>4 DEF Spot
  <2> QED BY <2>1, <2>2
<1>5. CASE binding[j].param = p /\ binding[i].route # <<>> /\ binding[j].route # <<>>
  BY <1>2, <1>3, <1>5 DEF Spot
<1>6. CASE binding[j].param = p /\ (binding[i].route = <<>> \/ binding[j].route = <<>>)
  BY <1>6 DEF Spot
<1> QED BY <1>4, <1>5, <1>6

\* The first leaf at the spot of a leaf.
FirstAt(b, i) == Min({k \in 1..Len(binding) : Spot(b, k) = Spot(b, i)})

\* The leaves of b, each under the variable of the first leaf at its spot.
Symbols(b) == [j \in 1..Len(binding) |-> [Original(b, j) EXCEPT !.sym = FirstAt(b, j)]]

LEMMA FirstAtFacts ==
  ASSUME NEW b, Table, NEW i \in 1..Len(binding)
  PROVE  /\ FirstAt(b, i) \in 1..Len(binding) /\ Spot(b, FirstAt(b, i)) = Spot(b, i)
         /\ \A j \in 1..Len(binding) : Spot(b, j) = Spot(b, i) => FirstAt(b, i) <= j /\ FirstAt(b, j) = FirstAt(b, i)
<1> DEFINE A(j) == {k \in 1..Len(binding) : Spot(b, k) = Spot(b, j)}
<1>1. A(i) \in SUBSET Nat /\ i \in A(i) /\ \A j : FirstAt(b, j) = Min(A(j))
  BY TableFacts DEF FirstAt
<1>2. \A j \in 1..Len(binding) : Spot(b, j) = Spot(b, i) => A(j) = A(i) /\ j \in A(i)
  OBVIOUS
<1>3. \A k \in A(i) : k \in 1..Len(binding) /\ Spot(b, k) = Spot(b, i)
  OBVIOUS
<1> HIDE DEF A
<1>4. Min(A(i)) \in A(i) /\ \A x \in A(i) : Min(A(i)) <= x
  BY <1>1, MinProperties
<1> QED BY <1>1, <1>2, <1>3, <1>4

(* What is at a spot while leaves are named is what was there until the first of its   *)
(* leaves is named, and is then under that name.                                       *)
LEMMA NowNamed ==
  ASSUME NEW b \in Bases, Table, NEW i \in 1..Len(binding), Fits(b, binding[i].param),
         NEW n \in 0..Len(binding)
  PROVE  LET v == Now(b, Symbols(b), n, Spot(b, i), Original(b, i))
         IN  /\ v \in Plain /\ v.sort \in Sorts
             /\ v = IF \E j \in 1..n : Spot(b, j) = Spot(b, i) THEN Symbols(b)[i] ELSE Original(b, i)
             /\ n = i - 1 => Named(v, i) = Symbols(b)[i]
             /\ Symbols(b)[i].sym = FirstAt(b, i) /\ Symbols(b)[i].sort = Original(b, i).sort
             /\ Symbols(b)[i].val = Original(b, i).val
             /\ Symbols(b)[i] \in Plain
<1> DEFINE o == Original(b, i)
           w == Symbols(b)
           s == Spot(b, i)
           v == Now(b, w, n, s, o)
<1>1. o \in Values /\ o.sort \in Sorts /\ o.sym = NoSymbol /\ Len(binding) \in Nat
  <2>1. binding[i].param \in DOMAIN b.args /\ b.heap \in Heaps /\ o.sort \in Sorts /\ o.sym = NoSymbol
    BY SpotFacts, BaseFacts
  <2>2. /\ b.args[binding[i].param] \in Holding(Reach(b.heap, b.args[binding[i].param]))
        /\ Closed(b.heap, Reach(b.heap, b.args[binding[i].param]))
    BY <2>1, BaseFacts
  <2>3. o \in Holding(Reach(b.heap, b.args[binding[i].param]))
    BY <2>1, <2>2, TableFacts, DescendFacts DEF Original
  <2> QED BY <2>1, <2>3, TableFacts DEF Holding
<1>2. w[i] = [o EXCEPT !.sym = FirstAt(b, i)] /\ FirstAt(b, i) \in 1..Len(binding)
  BY FirstAtFacts DEF Symbols
<1>3. /\ w[i].sym = FirstAt(b, i) /\ w[i].sort = o.sort /\ w[i].val = o.val /\ w[i] \in Plain
      /\ w[i].sym # NoSymbol
  <2>1. FirstAt(b, i) \in Nat /\ FirstAt(b, i) # NoSymbol
    BY <1>1, <1>2 DEF NoSymbol
  <2> HIDE DEF o, w
  <2> QED BY <1>1, <1>2, <2>1 DEF Plain, Values, IsRef, Sorts
<1>4. o \in Plain
  BY <1>1 DEF Plain, IsRef, Sorts
<1>5. \A j \in 1..Len(binding) : Spot(b, j) = s => w[j] = w[i]
  <2> SUFFICES ASSUME NEW j \in 1..Len(binding), Spot(b, j) = Spot(b, i) PROVE w[j] = w[i]
    OBVIOUS
  <2>1. Original(b, j) = o /\ FirstAt(b, j) = FirstAt(b, i)
    BY SameSpot, FirstAtFacts
  <2> QED BY <2>1 DEF Symbols
<1>6. DOMAIN w = 1..Len(binding) /\ \A j \in 1..n : j \in 1..Len(binding)
  BY <1>1 DEF Symbols
<1> HIDE DEF w, o, s
<1>7. v = IF \E j \in 1..n : Spot(b, j) = s THEN w[i] ELSE o
  <2>1. CASE \E j \in 1..n : Spot(b, j) = s
    <3>1. Writers(b, w, n, s) # {} /\ Writers(b, w, n, s) \in SUBSET (0..n) /\ n \in Nat
      BY <1>1, <1>6, <2>1 DEF Writers
    <3>2. Max(Writers(b, w, n, s)) \in Writers(b, w, n, s)
      BY <3>1, Greatest
    <3>3. w[Max(Writers(b, w, n, s))] = w[i]
      BY <1>5, <1>6, <3>2 DEF Writers
    <3> QED BY <2>1, <3>1, <3>3 DEF Now
  <2>2. CASE ~\E j \in 1..n : Spot(b, j) = s
    <3>1. Writers(b, w, n, s) = {}
      BY <2>2 DEF Writers
    <3> QED BY <2>2, <3>1 DEF Now
  <2> QED BY <2>1, <2>2
<1> HIDE DEF v
<1>8. v \in Plain /\ v.sort \in Sorts
  BY <1>1, <1>3, <1>4, <1>7
<1>9. ASSUME n = i - 1 PROVE Named(v, i) = w[i]
  <2>1. CASE \E j \in 1..n : Spot(b, j) = s
    BY <1>3, <1>7, <2>1 DEF Named
  <2>2. CASE ~\E j \in 1..n : Spot(b, j) = s
    <3>1. FirstAt(b, i) <= i /\ Spot(b, FirstAt(b, i)) = s
      BY FirstAtFacts DEF s
    <3>2. FirstAt(b, i) = i
      BY <1>1, <1>2, <1>9, <2>2, <3>1
    <3> QED BY <1>1, <1>2, <1>7, <2>2, <3>2 DEF Named
  <2> QED BY <2>1, <2>2
<1> QED BY <1>3, <1>7, <1>8, <1>9 DEF v, w, o, s

(* A leaf is named where it is, in any parameter. *)
LEMMA WrapLeafTracked ==
  ASSUME NEW b \in Bases, Table, NEW p \in DOMAIN b.args \cap Touched, Fits(b, p),
         NEW i \in 1..Len(binding), NEW at, NEW to, Tracked(b, p, at, to, Symbols(b), i - 1),
         WrapLeaf(at, i) # Raised
  PROVE  Tracked(b, p, WrapLeaf(at, i), to, Symbols(b), i)
<1> DEFINE q == binding[i].param
           v == Get(at.heap, at.args, binding[i])
           w == Symbols(b)
<1>1. WrapLeaf(at, i) = WrapAt(at, binding[i], i, v) /\ v # Raised
  BY DEF WrapLeaf
<1>2. Grown(b.heap, b.args, at) /\ Landed(b, p, at, to, w, i - 1) /\ b.heap \in Heaps
  BY BaseFacts DEF Tracked
<1>3. q \in DOMAIN b.args /\ i \in Nat /\ i # 0 /\ Len(binding) \in Nat /\ q \in Touched
  BY <1>1, <1>2, GrownFacts, TableFacts
<1>4. CASE q = p
  <2>1. v = Now(b, w, i - 1, Spot(b, i), Original(b, i))
    <3>1. Fits(b, q) /\ Landed(b, q, at, to, w, i - 1)
      BY <1>2, <1>4
    <3> QED BY <1>2, <3>1, GetLanded
  <2>2. v \in Plain /\ v.sort \in Sorts /\ Named(v, i) = w[i] /\ w[i] \in Plain
    <3>1. i - 1 \in 0..Len(binding) /\ Fits(b, binding[i].param)
      BY <1>3, <1>4
    <3> QED BY <2>1, <3>1, NowNamed
  <2> HIDE DEF v
  <2>3. WrapLeaf(at, i) = Put(at, binding[i], w[i])
    <3>1. ~IsList(at.heap, v)
      BY <2>2 DEF Plain, IsList
    <3> QED BY <1>1, <2>2, <3>1 DEF WrapAt
  <2>4. w[i] = Now(b, w, i, Spot(b, i), Original(b, i))
    <3>1. i \in DOMAIN w
      BY DEF Symbols
    <3> HIDE DEF w
    <3>2. Now(b, w, i, Spot(b, i), Original(b, i))
            = IF i \in DOMAIN w THEN w[i] ELSE Now(b, w, i - 1, Spot(b, i), Original(b, i))
      <4>1. i \in Nat /\ i # 0
        BY <1>3
      <4>2. \A o : Now(b, w, i, Spot(b, i), o) = IF i \in DOMAIN w THEN w[i] ELSE Now(b, w, i - 1, Spot(b, i), o)
        BY ONLY <4>1, NowHere
      <4> QED BY <4>2
    <3> QED BY <3>1, <3>2
  <2> DEFINE u == w[i]
  <2> HIDE DEF u, w
  <2>5. u \in Values /\ ~IsRef(u) /\ u = Now(b, w, i, Spot(b, i), Original(b, i)) /\ WrapLeaf(at, i) = Put(at, binding[i], u)
    BY <2>2, <2>3, <2>4 DEF u, Plain
  <2>6. Tracked(b, binding[i].param, Put(at, binding[i], u), to, w, i)
    BY <1>4, <2>5, PutOwn DEF w
  <2> QED BY <1>4, <2>5, <2>6 DEF w
<1>5. CASE q # p
  <2>1. PICK Z : Elsewhere(b, p, at, to, Z)
    BY DEF Tracked
  <2>2. v \in Holding(Z) /\ Closed(at.heap, Z)
    <3>1. at \in States(DOMAIN b.args) /\ Closed(at.heap, Z) /\ at.args[q] \in Holding(Z)
      BY <1>2, <1>3, <1>5, <2>1 DEF Grown, Elsewhere
    <3> QED BY <3>1, TableFacts, GetFacts
  <2> HIDE DEF v, w
  <2>3. CASE ~IsList(at.heap, v)
    <3>1. WrapLeaf(at, i) = Put(at, binding[i], Named(v, i))
      BY <1>1, <2>3 DEF WrapAt
    <3>2. Named(v, i) \in Holding(Z)
      BY <1>3, <2>2, NamedFacts
    <3> QED BY <1>2, <1>3, <1>5, <2>1, <3>1, <3>2, PutOther DEF w
  <2>4. CASE IsList(at.heap, v)
    <3> DEFINE g == WrappedList(at.heap, v, i).heap
               u == WrappedList(at.heap, v, i).value
               r == [at EXCEPT !.heap = g]
               Y == Z \cup New(at.heap, g)
    <3>1. ~Endless(at.heap, v) /\ WrapLeaf(at, i) = Put(r, binding[i], u)
      BY <1>1, <2>4 DEF WrapAt
    <3>2. at.heap \in Heaps
      BY <1>2, GrownFacts
    <3>3. /\ g \in Heaps /\ Len(at.heap) <= Len(g) /\ \A k \in 1..Len(at.heap) : g[k] = at.heap[k]
          /\ u \in Holding(New(at.heap, g)) /\ Closed(g, Y)
      BY <1>3, <2>2, <2>4, <3>1, <3>2, WrappedListFacts
    <3> HIDE DEF g, u
    <3>4. /\ Grown(b.heap, b.args, r) /\ Landed(b, p, r, to, w, i - 1)
          /\ Elsewhere(b, p, r, to, Y)
      BY <1>2, <2>1, <3>3, MoreOther
    <3>5. u \in Holding(Y)
      BY <3>3 DEF Holding
    <3> HIDE DEF r, Y
    <3>6. Tracked(b, p, Put(r, binding[i], u), to, w, i)
      BY <1>3, <1>5, <3>1, <3>4, <3>5, PutOther
    <3> QED BY <3>1, <3>6 DEF w
  <2> QED BY <2>3, <2>4
<1> QED BY <1>4, <1>5

(* So all leaves are named, where they are. *)
LEMMA WrapLeavesTracked ==
  ASSUME NEW b \in Bases, Table, NEW p \in DOMAIN b.args \cap Touched, Fits(b, p),
         WrapLeaves(b.heap, b.args) # Raised
  PROVE  \E to : Tracked(b, p, WrapLeaves(b.heap, b.args), to, Symbols(b), Len(binding))
<1> DEFINE N == Len(binding)
<1>1. b.heap \in Heaps /\ GivenIn(b.heap, b.args) /\ N \in Nat
  BY BaseFacts, TableFacts
<1>2. PICK f \in [0..N -> Growths(b.heap, b.args)] :
        /\ f[0] = CopyTouched(b.heap, b.args)
        /\ \A i \in 1..N : f[i] = WrapLeaf(f[i - 1], i)
        /\ WrapLeaves(b.heap, b.args) = f[N]
  BY <1>1, WrapLeavesUnrolled
<1>3. \A i \in 1..N : f[i] # Raised => f[i - 1] # Raised
  BY <1>2 DEF WrapLeaf
<1>4. f[0] # Raised
  <2> DEFINE Bad == {n \in 0..N : f[n] = Raised}
  <2> SUFFICES ASSUME f[0] = Raised PROVE FALSE
    OBVIOUS
  <2>1. 0 \in Bad
    BY <1>1
  <2>2. ASSUME NEW n \in 1..N, n - 1 \in Bad PROVE n \in Bad
    BY <1>1, <1>3, <2>2
  <2> HIDE DEF Bad, N
  <2>3. \A n \in 0..N : n \in Bad
    BY <1>1, <2>1, <2>2, InductionFromZero
  <2>4. N \in Bad
    BY <1>1, <2>3
  <2> QED BY <1>2, <2>4 DEF Bad, N
<1>5. PICK to : \A w : Tracked(b, p, f[0], to, w, 0)
  BY <1>2, <1>4, TrackedStart
<1> DEFINE w == Symbols(b)
           Good == {n \in 0..N : f[n] # Raised => Tracked(b, p, f[n], to, w, n)}
<1>6. 0 \in Good
  BY <1>1, <1>5
<1>7. ASSUME NEW n \in 1..N, n - 1 \in Good PROVE n \in Good
  <2>1. n \in 0..N
    BY <1>1
  <2> SUFFICES ASSUME f[n] # Raised PROVE Tracked(b, p, f[n], to, w, n)
    BY <2>1
  <2>2. Tracked(b, p, f[n - 1], to, w, n - 1)
    BY <1>3, <1>7
  <2>3. WrapLeaf(f[n - 1], n) # Raised /\ f[n] = WrapLeaf(f[n - 1], n)
    BY <1>2
  <2>4. Tracked(b, p, WrapLeaf(f[n - 1], n), to, w, n)
    BY <2>2, <2>3, WrapLeafTracked
  <2> QED BY <2>3, <2>4
<1> HIDE DEF Good, N
<1>8. \A n \in 0..N : n \in Good
  BY <1>1, <1>6, <1>7, InductionFromZero
<1>9. N \in Good
  BY <1>1, <1>8
<1> QED BY <1>2, <1>9 DEF Good, N
(* Without a gap every value that reaches the target is in its own parameter. *)
LEMMA SplitArgsInPlace ==
  ASSUME NEW args, ~Gap(args), NEW n \in 1..Len(Signature), Reaches(args, n)
  PROVE  SplitArgs(args)[n] = args[Signature[n].name]
<1> DEFINE slots == {i \in 1..Len(Signature) : Signature[i].positional}
           filling == {i \in slots : Reaches(args, i)}
           Sources(i) ==
             IF i \in slots THEN {j \in filling : Rank(filling, j) = Rank(slots, i)}
             ELSE {j \in {i} : Reaches(args, j)}
           ValueAt(i) ==
             IF Sources(i) = {} THEN Default
             ELSE args[Signature[CHOOSE j \in Sources(i) : TRUE].name]
           N == Len(Signature)
<1>1. N \in Nat
  BY SignatureFacts
<1>2. SplitArgs(args) = [i \in 1..N |-> ValueAt(i)]
  BY DEF SplitArgs
<1>3. Sources(n) = {n}
  <2>1. CASE n \notin slots
    BY <2>1
  <2>2. CASE n \in slots
    <3>1. \A j \in filling : j \in 1..N /\ j \in slots
      OBVIOUS
    <3>2. \A j \in filling : \A k \in slots : k <= j => k \in filling
      BY DEF Gap
    <3>3. n \in filling
      BY <2>2
    <3> DEFINE Upto(j) == {k \in slots : k <= j}
    <3>4. ASSUME NEW j \in filling PROVE Rank(filling, j) = Cardinality(Upto(j))
      <4>1. {k \in filling : k <= j} = Upto(j)
        BY <3>2, <3>4
      <4> QED BY <4>1, Zenon DEF Rank
    <3>5. \A j \in 1..N : IsFiniteSet(Upto(j))
      <4>1. IsFiniteSet(1..N)
        BY <1>1, FS_Interval
      <4> QED BY <4>1, FS_Subset
    <3>6. ASSUME NEW j \in slots, NEW k \in slots, Cardinality(Upto(j)) = Cardinality(Upto(k)) PROVE j = k
      <4>1. j \in Upto(j) /\ k \in Upto(k) /\ j \in 1..N /\ k \in 1..N
        BY <1>1
      <4>2. Upto(j) \subseteq Upto(k) \/ Upto(k) \subseteq Upto(j)
        BY <1>1
      <4> HIDE DEF Upto
      <4>3. Upto(j) = Upto(k)
        BY <3>5, <3>6, <4>1, <4>2, FS_Subset
      <4>4. j \in Upto(k) /\ k \in Upto(j)
        BY <4>1, <4>3
      <4> QED BY <1>1, <4>1, <4>4 DEF Upto
    <3>7. Rank(slots, n) = Cardinality(Upto(n))
      BY DEF Rank
    <3> HIDE DEF slots, filling, Upto
    <3> QED BY <2>2, <3>1, <3>3, <3>4, <3>6, <3>7
  <2> QED BY <2>1, <2>2
<1>4. ValueAt(n) = args[Signature[n].name]
  <2> HIDE DEF Sources
  <2>1. (CHOOSE j \in {n} : TRUE) = n
    OBVIOUS
  <2> QED BY <1>3, <2>1
<1> HIDE DEF ValueAt
<1> QED BY <1>2, <1>4

Tried == [heap |-> heap, args |-> given]

\* An input made from a model has leaves where the first arguments have them.
Matching ==
    pc = "given" /\ model # NoModel =>
        \A i \in 1..Len(binding) : Private(binding[i].param) =>
            /\ Fits(Tried, binding[i].param)
            /\ Original(Tried, i).sort = binding[i].sort
            /\ \A j \in 1..Len(binding) : Spot(Tried, j) = Spot(Tried, i) <=> j \in SameCell(i)

(* What is said of an input's leaves changes with the table alone. *)
LEMMA SameLeaves ==
  ASSUME UNCHANGED <<binding, origin>>
  PROVE  /\ \A b, p : Fits(b, p)' <=> Fits(b, p)
         /\ \A b, i : Original(b, i)' = Original(b, i) /\ Spot(b, i)' = Spot(b, i)
         /\ \A i : SameCell(i)' = SameCell(i)
<1>1. \A b, p : Fits(b, p)' <=> Fits(b, p)
  BY DEF Fits
<1>2. \A b, i : Original(b, i)' = Original(b, i)
  BY DEF Original
<1>3. \A b, i : Spot(b, i)' = Spot(b, i)
  BY DEF Spot, HolderOf
<1>4. \A i : SameCell(i)' = SameCell(i)
  BY DEF SameCell, Cell
<1> QED BY <1>1, <1>2, <1>3, <1>4

(* In a tracked copy every leaf of the parameter is what was last written to its spot. *)
LEMMA TrackedGet ==
  ASSUME NEW b \in Bases, Table, NEW p, Fits(b, p), NEW at, NEW to, NEW w, NEW n,
         Tracked(b, p, at, to, w, n), NEW k \in 1..Len(binding), binding[k].param = p
  PROVE  Get(at.heap, at.args, binding[k]) = Now(b, w, n, Spot(b, k), Original(b, k))
<1>1. Grown(b.heap, b.args, at) /\ Landed(b, binding[k].param, at, to, w, n)
  BY DEF Tracked
<1>2. Fits(b, binding[k].param)
  OBVIOUS
<1> QED BY <1>1, <1>2, GetLanded

(* An input made from a model has leaves of the variables' sorts, where the first had them. *)
LEMMA SolveMatches ==
  ASSUME ApartInv, Unspoilt, Solve
  PROVE  Matching'
<1>1. UNCHANGED <<initial, origin, binding>>
  BY FixedFacts DEF Next
<1> SUFFICES ASSUME pc' = "given", model' # NoModel,
                    NEW i \in 1..Len(binding), Private(binding[i].param),
                    NEW at, at = [heap |-> heap', args |-> given']
             PROVE  /\ Fits(at, binding[i].param)
                    /\ Original(at, i).sort = binding[i].sort
                    /\ \A j \in 1..Len(binding) : Spot(at, j) = Spot(at, i) <=> j \in SameCell(i)
  <2>1. Tried' = [heap |-> heap', args |-> given']
    BY DEF Tried
  <2> QED BY <1>1, <2>1, SameTable, SameLeaves DEF Matching
<1>2. PICK m \in Models :
        /\ ApplyModel(heap, initial, m) # Raised
        /\ heap' = ApplyModel(heap, initial, m).heap /\ given' = ApplyModel(heap, initial, m).args
        /\ Grown(heap, initial, ApplyModel(heap, initial, m))
  BY SolveFacts
<1> DEFINE p == binding[i].param
           N == Len(binding)
<1>3. /\ Restored \in Bases /\ Restored.heap = heap /\ Restored.args = initial
      /\ p \in DOMAIN Restored.args \cap Touched /\ Fits(Restored, p) /\ Table /\ N \in Nat /\ heap \in Heaps
  BY StartFacts, TableFacts DEF ApartInv, TypeInv
<1>4. \A j \in 1..N : j \in DOMAIN m => m[j] \in Plain /\ m[j].sort = binding[j].sort /\ m[j].sym = NoSymbol
  BY <1>3, ModelFacts DEF Plain
<1>5. at = ApplyModel(heap, initial, m) /\ DOMAIN at.args = DOMAIN initial
  BY <1>2, <1>3, GrownFacts
<1>6. PICK to : Tracked(Restored, p, at, to, m, N)
  BY <1>2, <1>3, <1>4, <1>5, ApplyModelTracked
<1>7. ASSUME NEW k \in 1..N, binding[k].param = p
      PROVE  Original(at, k).sort = binding[k].sort /\ Original(at, k).sym = NoSymbol
  <2>1. /\ Fits(Restored, binding[k].param) /\ Original(Restored, k).sort = binding[k].sort
        /\ Original(Restored, k).sym = NoSymbol
    BY <1>3, <1>7, StartFacts
  <2> HIDE DEF N
  <2>2. Get(at.heap, at.args, binding[k]) = Now(Restored, m, N, Spot(Restored, k), Original(Restored, k))
    BY <1>3, <1>6, <1>7, TrackedGet DEF N
  <2> DEFINE A == {v \in {Original(Restored, k)} \cup {m[j] : j \in 1..N} :
                     v.sort = binding[k].sort /\ v.sym = NoSymbol}
  <2>3. ASSUME NEW j \in 1..N, j \in DOMAIN m, Spot(Restored, j) = Spot(Restored, k) PROVE m[j] \in A
    <3>1. Original(Restored, j) = Original(Restored, k) /\ binding[j].param = p
      BY <1>3, <1>7, <2>1, <2>3, SameSpot DEF N
    <3>2. Original(Restored, j).sort = binding[j].sort
      BY <3>1, StartFacts DEF N
    <3> QED BY <1>4, <2>1, <2>3, <3>1, <3>2
  <2>4. Original(Restored, k) \in A
    BY <2>1
  <2> HIDE DEF A
  <2>5. Now(Restored, m, N, Spot(Restored, k), Original(Restored, k)) \in A
    BY <1>3, <2>3, <2>4, NowIn
  <2>6. Original(at, k) = Get(at.heap, at.args, binding[k])
    BY <1>3, <1>5, <1>7 DEF Original, Get
  <2> QED BY <2>2, <2>5, <2>6 DEF A
<1>8. Fits(at, p)
  <2>1. \A k \in 1..N : binding[k].sort \in Sorts
    BY <1>3, TableFacts
  <2> QED BY <1>3, <1>5, <1>7, <2>1 DEF Fits, Original
<1>9. \A j \in 1..N : Spot(at, j) = Spot(at, i) <=> j \in SameCell(i)
  <2>1. \A j \in 1..N : Spot(at, j) = Spot(at, i) <=> Spot(Restored, j) = Spot(Restored, i)
    BY <1>3, <1>6, SpotsLanded
  <2> QED BY <2>1, SpotsAreCells
<1> QED BY <1>7, <1>8, <1>9

(* The target is shown the leaves of the input under their variables. *)
LEMMA AttemptShows ==
  ASSUME ApartInv, Unspoilt, ModelLands, Matching, Attempt
  PROVE  SymbolsMatchModel'
<1>1. UNCHANGED <<initial, origin, binding, given, model>> /\ pc = "given"
  BY DEF Attempt
<1> SUFFICES ASSUME pc' = "running", model # NoModel, ~Gap(concolic'),
                    NEW i \in 1..Len(binding), Private(binding[i].param), Reaches(concolic', Slot(i)),
                    NEW x, x = Descend(heap', bound'[Slot(i)], binding[i].route)
             PROVE  LET named == SameCell(i) \cap DOMAIN model
                    IN  /\ x.sym = Min(SameCell(i))
                        /\ x.sort = binding[i].sort
                        /\ named # {} => x.val = model[Max(named)].val
  <2>1. \A n : Slot(n)' = Slot(n) /\ Shown(n)' = Descend(heap', bound'[Slot(n)], binding[n].route)
    BY <1>1 DEF Slot, Shown
  <2>2. \A n : Reaches(concolic', n) <=> Reaches(concolic, n)'
    BY DEF Reaches
  <2>3. Gap(concolic') <=> Gap(concolic)'
    BY DEF Gap, Reaches
  <2> QED BY <1>1, <2>1, <2>2, <2>3, SameTable, SameLeaves DEF SymbolsMatchModel
<1>2. WrapLeaves(heap, given) # Raised
  BY DEF Attempt
<1> DEFINE r == WrapLeaves(heap, given)
           p == binding[i].param
           N == Len(binding)
<1>3. heap' = r.heap /\ concolic' = r.args /\ bound' = SplitArgs(r.args)
  BY <1>2 DEF Attempt
<1>4. PICK b : b = Tried
  OBVIOUS
<1>5. heap \in Heaps /\ Table /\ GivenIn(heap, given) /\ N \in Nat /\ p \in Touched
  BY <1>1, TableFacts DEF ApartInv, TypeInv, Held
<1>6. b \in Bases /\ b.heap = heap /\ b.args = given
  <2>1. b \in States(DOMAIN given) /\ DOMAIN given \in SUBSET Names /\ b.heap = heap /\ b.args = given
    BY <1>4, <1>5 DEF Tried, States, GivenIn
  <2> QED BY <2>1 DEF Bases
<1>7. /\ Fits(b, p) /\ Original(b, i).sort = binding[i].sort
      /\ \A j \in 1..N : Spot(b, j) = Spot(b, i) <=> j \in SameCell(i)
  BY <1>1, <1>4 DEF Matching
<1>8. p \in DOMAIN b.args
  BY <1>7 DEF Fits
<1>9. PICK to : Tracked(b, p, r, to, Symbols(b), N)
  BY <1>2, <1>5, <1>6, <1>7, <1>8, WrapLeavesTracked
<1>10. Grown(b.heap, b.args, r) /\ Landed(b, p, r, to, Symbols(b), N) /\ DOMAIN r.args = DOMAIN b.args
  BY <1>5, <1>6, <1>9, GrownFacts DEF Tracked
<1> HIDE DEF r
<1>11. x = Get(r.heap, r.args, binding[i])
  <2>1. Slot(i) \in 1..Len(Signature) /\ Signature[Slot(i)].name = p
    <3>1. \E n \in 1..Len(Signature) : Signature[n].name = p
      BY <1>5, TableFacts
    <3> QED BY <3>1 DEF Slot
  <2>2. bound'[Slot(i)] = r.args[p]
    BY <1>3, <2>1, SplitArgsInPlace
  <2> QED BY <1>3, <1>8, <1>10, <2>2 DEF Get
<1>12. Get(r.heap, r.args, binding[i]) = Now(b, Symbols(b), N, Spot(b, i), Original(b, i))
  <2> HIDE DEF N
  <2> QED BY <1>5, <1>6, <1>7, <1>9, TrackedGet
<1>13. x = Symbols(b)[i]
  <2>1. N \in 0..N /\ i \in 1..N
    BY <1>5
  <2> QED BY <1>5, <1>6, <1>7, <1>11, <1>12, <2>1, NowNamed
<1>14. x.sym = FirstAt(b, i) /\ x.sort = Original(b, i).sort /\ x.val = Original(b, i).val
  <2>1. N \in 0..N
    BY <1>5
  <2> QED BY <1>5, <1>6, <1>7, <1>13, <2>1, NowNamed
<1>15. FirstAt(b, i) = Min(SameCell(i))
  <2>1. {j \in 1..N : Spot(b, j) = Spot(b, i)} = SameCell(i)
    <3>1. SameCell(i) \subseteq 1..N
      BY DEF SameCell
    <3> QED BY <1>7, <3>1
  <2> QED BY <2>1 DEF FirstAt
<1>16. Original(b, i) = Get(heap, given, binding[i])
  BY <1>6, <1>8 DEF Original, Get
<1>17. ASSUME SameCell(i) \cap DOMAIN model # {}
       PROVE  Original(b, i) = model[Max(SameCell(i) \cap DOMAIN model)]
  BY <1>1, <1>16, <1>17 DEF ModelLands
<1> QED BY <1>7, <1>14, <1>15, <1>17

ShownInv == LandsInv /\ Matching /\ writes \in Nat /\ SymbolsMatchModel

(* Nothing is shown before the first attempt. *)
LEMMA InitShown == Init => Matching /\ writes \in Nat /\ SymbolsMatchModel
BY DEF Init, Matching, SymbolsMatchModel

(* What the target is shown stays right in every step. *)
LEMMA ShownStays ==
  ASSUME ShownInv, [Next]_vars, LandsInv'
  PROVE  ShownInv'
<1>1. ApartInv /\ Unspoilt /\ ModelLands /\ Matching /\ SymbolsMatchModel /\ writes \in Nat
  BY DEF ShownInv, LandsInv
<1>2. writes' \in Nat
  BY <1>1 DEF Next, PopQueue, Solve, Resolve, Attempt, TargetWrites, TargetReturns, vars
<1>3. CASE Solve
  <2>1. SymbolsMatchModel'
    BY <1>3 DEF Solve, SymbolsMatchModel
  <2> QED BY <1>1, <1>2, <1>3, <2>1, SolveMatches DEF ShownInv
<1>4. CASE Attempt
  <2>1. Matching'
    BY <1>4 DEF Attempt, Matching
  <2> QED BY <1>1, <1>2, <1>4, <2>1, AttemptShows DEF ShownInv
<1>5. CASE TargetWrites
  <2>1. pc' = "running" /\ writes' # 0
    BY <1>1, <1>5 DEF TargetWrites
  <2> QED BY <1>2, <2>1 DEF ShownInv, Matching, SymbolsMatchModel
<1>6. CASE PopQueue \/ Resolve \/ TargetReturns
  <2>1. pc' # "running" /\ (pc' # "given" \/ model' = NoModel)
    BY <1>6 DEF PopQueue, Resolve, TargetReturns
  <2> QED BY <1>2, <2>1 DEF ShownInv, Matching, SymbolsMatchModel
<1>7. CASE UNCHANGED vars
  <2>1. UNCHANGED <<heap, given, concolic, bound, model, pc, origin, binding, writes>>
    BY <1>7 DEF vars
  <2>2. Tried' = Tried
    BY <2>1 DEF Tried
  <2>3. Matching'
    BY <1>1, <2>1, <2>2, SameTable, SameLeaves DEF Matching
  <2>4. \A n : Slot(n)' = Slot(n) /\ Shown(n)' = Shown(n) /\ (Reaches(concolic, n)' <=> Reaches(concolic, n))
    BY <2>1 DEF Slot, Shown, Reaches
  <2>5. Gap(concolic)' <=> Gap(concolic)
    BY <2>1 DEF Gap, Reaches
  <2>6. SymbolsMatchModel'
    BY <1>1, <2>1, <2>4, <2>5, SameTable, SameLeaves DEF SymbolsMatchModel
  <2> QED BY <1>2, <2>3, <2>6 DEF ShownInv
<1> QED BY <1>3, <1>4, <1>5, <1>6, <1>7 DEF Next

(* Where a place has one variable, the branch a model was to flip is evaluated on the  *)
(* model's value: what the target is shown at every place of the table has the first   *)
(* variable of that place and the value that the last of them has in the model, until  *)
(* the target writes.                                                                  *)
THEOREM SymbolsMatchModelHolds == Spec => []SymbolsMatchModel
<1>1. Init => ApartInv /\ LandsInv /\ ShownInv
  BY InitApart, InitLands, InitShown DEF LandsInv, ShownInv
<1>2. ApartInv /\ LandsInv /\ ShownInv /\ [Next]_vars => (ApartInv /\ LandsInv /\ ShownInv)'
  BY StepApart, LandsStays, ShownStays
<1>3. ShownInv => SymbolsMatchModel
  BY DEF ShownInv
<1> QED
  BY <1>1, <1>2, <1>3, PTL DEF Spec
-----------------------------------------------------------------------------
(* That writing works. *)

\* All parameters with leaves can be copied, and all leaves written.
Ready(b) ==
    /\ b \in Bases
    /\ \A p \in Touched : Fits(b, p) /\ IsCopyable(b.heap, b.args[p])
    /\ \A i \in 1..Len(binding) : binding[i].route # <<>> => b.heap[HolderOf(b, i).val].kind # "tuple"

\* Where copies of them are, and what was written up to the n-th leaf.
Copies(b, at, w, n) == \A p \in Touched : \E to : Tracked(b, p, at, to, w, n)

LEMMA PutWorks ==
  ASSUME NEW b, Ready(b), Table, NEW at, NEW w, NEW n, Copies(b, at, w, n),
         NEW i \in 1..Len(binding), NEW v
  PROVE  Put(at, binding[i], v) # Raised
<1> DEFINE p == binding[i].param
           id == HolderOf(b, i).val
<1>1. b \in Bases /\ p \in Touched /\ Fits(b, p)
  BY TableFacts DEF Ready
<1>2. PICK to : Grown(b.heap, b.args, at) /\ Landed(b, p, at, to, w, n)
  BY <1>1 DEF Copies, Tracked
<1>3. "heap" \notin DOMAIN Raised
  BY DEF Raised, Value
<1>4. "heap" \in DOMAIN at
  BY <1>2 DEF Grown, States
<1>5. CASE binding[i].route = <<>>
  BY <1>3, <1>4, <1>5 DEF Put
<1>6. CASE binding[i].route # <<>>
  <2>1. /\ Descend(at.heap, at.args[p], Front(binding[i].route)) = Ref(to[id])
        /\ to[id] \in New(b.heap, at.heap) /\ id \in Reach(b.heap, b.args[p])
    BY <1>1, <1>2, <1>6, HolderLanded
  <2>2. at.heap[to[id]].kind # "tuple"
    BY <1>2, <1>6, <2>1 DEF Landed, Ready
  <2>3. to[id] \in Int
    <3>1. b.heap \in Heaps /\ at.heap \in Heaps
      BY <1>1, <1>2, BaseFacts, GrownFacts
    <3> QED BY <2>1, <3>1, HeapFacts DEF New
  <2>4. IsRef(Ref(to[id])) /\ Object(at.heap, Ref(to[id])).kind # "tuple"
    BY <2>2, <2>3, RefFacts DEF Object
  <2> HIDE DEF id
  <2> QED BY <1>3, <1>4, <1>6, <2>1, <2>4 DEF Put
<1> QED BY <1>5, <1>6

(* A leaf of the model is written, whatever was written before. *)
LEMMA ApplyToWorks ==
  ASSUME NEW b, Ready(b), Table, NEW i \in 1..Len(binding),
         NEW m, \A j \in 1..Len(binding) : j \in DOMAIN m => m[j] \in Plain /\ m[j].sort \in Sorts /\ m[j].sym = NoSymbol,
         NEW at, Copies(b, at, m, i - 1)
  PROVE  ApplyTo(at, i, m) # Raised /\ Copies(b, ApplyTo(at, i, m), m, i)
<1> DEFINE p == binding[i].param
           x == Get(at.heap, at.args, binding[i])
           N == Len(binding)
<1>1. b \in Bases /\ p \in Touched /\ Fits(b, p) /\ N \in Nat /\ \A q \in Touched : Fits(b, q) /\ q \in DOMAIN b.args
  BY TableFacts DEF Ready, Fits
<1>2. PICK to : Tracked(b, p, at, to, m, i - 1)
  BY <1>1 DEF Copies
<1>3. x # Raised
  <2>1. x = Now(b, m, i - 1, Spot(b, i), Original(b, i))
    BY <1>1, <1>2, TrackedGet
  <2> DEFINE A == {v \in {Original(b, i)} \cup {m[j] : j \in 1..N} : v.sort \in Sorts}
  <2>2. Original(b, i) \in A
    BY <1>1, SpotFacts
  <2>3. \A j \in 1..i - 1 : j \in DOMAIN m /\ Spot(b, j) = Spot(b, i) => m[j] \in A
    <3>1. \A j \in 1..i - 1 : j \in 1..N
      BY <1>1
    <3> QED BY <3>1
  <2> HIDE DEF A
  <2>4. i - 1 \in Nat
    BY <1>1
  <2>5. Now(b, m, i - 1, Spot(b, i), Original(b, i)) \in A
    BY <2>2, <2>3, <2>4, NowIn
  <2> QED BY <2>1, <2>5, RaisedFacts DEF A, Sorts
<1>4. at # Raised
  BY <1>2, NotRaised DEF Tracked, Grown
<1>5. ApplyTo(at, i, m) # Raised
  BY <1>3, <1>4, PutWorks DEF ApplyTo
<1>6. ASSUME NEW q \in Touched PROVE \E t : Tracked(b, q, ApplyTo(at, i, m), t, m, i)
  <2>1. PICK t : Tracked(b, q, at, t, m, i - 1)
    BY <1>6 DEF Copies
  <2>2. q \in DOMAIN b.args \cap Touched /\ Fits(b, q)
    BY <1>1
  <2>3. Tracked(b, q, ApplyTo(at, i, m), t, m, i)
    BY <1>1, <1>5, <2>1, <2>2, ApplyToTracked
  <2> QED BY <2>3
<1> QED BY <1>5, <1>6 DEF Copies

(* A leaf is named, whatever was named before. *)
LEMMA WrapLeafWorks ==
  ASSUME NEW b, Ready(b), Table, NEW i \in 1..Len(binding), NEW at, Copies(b, at, Symbols(b), i - 1)
  PROVE  WrapLeaf(at, i) # Raised /\ Copies(b, WrapLeaf(at, i), Symbols(b), i)
<1> DEFINE p == binding[i].param
           x == Get(at.heap, at.args, binding[i])
           w == Symbols(b)
<1>1. /\ b \in Bases /\ p \in Touched /\ Fits(b, p) /\ Len(binding) \in Nat
      /\ \A q \in Touched : Fits(b, q) /\ q \in DOMAIN b.args
  BY TableFacts DEF Ready, Fits
<1>2. PICK to : Tracked(b, p, at, to, w, i - 1)
  BY <1>1 DEF Copies
<1>3. x.sort \in Sorts
  <2>1. x = Now(b, w, i - 1, Spot(b, i), Original(b, i))
    BY <1>1, <1>2, TrackedGet
  <2>2. i - 1 \in 0..Len(binding)
    BY <1>1
  <2> QED BY <1>1, <2>1, <2>2, NowNamed
<1>4. at # Raised /\ x # Raised
  BY <1>2, <1>3, NotRaised, RaisedFacts DEF Tracked, Grown, Sorts
<1>5. WrapLeaf(at, i) # Raised
  <2>1. ~IsList(at.heap, x)
    BY <1>3 DEF Sorts, IsList, IsRef
  <2> QED BY <1>4, <2>1, PutWorks DEF WrapLeaf, WrapAt
<1>6. ASSUME NEW q \in Touched PROVE \E t : Tracked(b, q, WrapLeaf(at, i), t, w, i)
  <2>1. PICK t : Tracked(b, q, at, t, w, i - 1)
    BY <1>6 DEF Copies
  <2>2. q \in DOMAIN b.args \cap Touched /\ Fits(b, q)
    BY <1>1
  <2>3. Tracked(b, q, WrapLeaf(at, i), t, w, i)
    BY <1>1, <1>5, <2>1, <2>2, WrapLeafTracked
  <2> QED BY <2>3
<1> QED BY <1>5, <1>6 DEF Copies

LEMMA CopiesStart ==
  ASSUME NEW b, Ready(b), Table
  PROVE  CopyTouched(b.heap, b.args) # Raised /\ \A w : Copies(b, CopyTouched(b.heap, b.args), w, 0)
<1>1. b \in Bases /\ b.heap \in Heaps /\ GivenIn(b.heap, b.args) /\ \A p \in Touched : p \in DOMAIN b.args
  BY BaseFacts DEF Ready, Fits
<1>2. CopyTouched(b.heap, b.args) # Raised
  BY <1>1, CopyTouchedWorks DEF Ready
<1>3. ASSUME NEW p \in Touched
      PROVE  \E to : \A w : Tracked(b, p, CopyTouched(b.heap, b.args), to, w, 0)
  BY <1>1, <1>2, TrackedStart
<1>4. ASSUME NEW w PROVE Copies(b, CopyTouched(b.heap, b.args), w, 0)
  BY <1>3 DEF Copies
<1> QED BY <1>2, <1>4

(* A model is applied. *)
LEMMA ApplyModelWorks ==
  ASSUME NEW b, Ready(b), Table,
         NEW m, \A j \in 1..Len(binding) : j \in DOMAIN m => m[j] \in Plain /\ m[j].sort \in Sorts /\ m[j].sym = NoSymbol
  PROVE  ApplyModel(b.heap, b.args, m) # Raised /\ Copies(b, ApplyModel(b.heap, b.args, m), m, Len(binding))
<1> DEFINE N == Len(binding)
<1>1. b.heap \in Heaps /\ GivenIn(b.heap, b.args) /\ N \in Nat
  BY BaseFacts, TableFacts DEF Ready
<1>2. PICK f \in [0..N -> Growths(b.heap, b.args)] :
        /\ f[0] = CopyTouched(b.heap, b.args)
        /\ \A i \in 1..N : f[i] = ApplyTo(f[i - 1], i, m)
        /\ ApplyModel(b.heap, b.args, m) = f[N]
  BY <1>1, ApplyModelUnrolled DEF Plain
<1> DEFINE Good == {n \in 0..N : f[n] # Raised /\ Copies(b, f[n], m, n)}
<1>3. 0 \in Good
  <2>1. f[0] # Raised /\ Copies(b, f[0], m, 0)
    BY <1>2, CopiesStart
  <2> QED BY <1>1, <2>1
<1>4. ASSUME NEW n \in 1..N, n - 1 \in Good PROVE n \in Good
  <2>1. Copies(b, f[n - 1], m, n - 1) /\ f[n] = ApplyTo(f[n - 1], n, m) /\ n \in 0..N
    BY <1>1, <1>2, <1>4
  <2>2. ApplyTo(f[n - 1], n, m) # Raised /\ Copies(b, ApplyTo(f[n - 1], n, m), m, n)
    BY <2>1, ApplyToWorks
  <2> QED BY <2>1, <2>2
<1> HIDE DEF Good, N
<1>5. \A n \in 0..N : n \in Good
  BY <1>1, <1>3, <1>4, InductionFromZero
<1>6. N \in Good
  BY <1>1, <1>5
<1> QED BY <1>2, <1>6 DEF Good, N

(* Arguments are wrapped. *)
LEMMA WrapLeavesWorks ==
  ASSUME NEW b, Ready(b), Table
  PROVE  WrapLeaves(b.heap, b.args) # Raised
<1> DEFINE N == Len(binding)
           w == Symbols(b)
<1>1. b.heap \in Heaps /\ GivenIn(b.heap, b.args) /\ N \in Nat
  BY BaseFacts, TableFacts DEF Ready
<1>2. PICK f \in [0..N -> Growths(b.heap, b.args)] :
        /\ f[0] = CopyTouched(b.heap, b.args)
        /\ \A i \in 1..N : f[i] = WrapLeaf(f[i - 1], i)
        /\ WrapLeaves(b.heap, b.args) = f[N]
  BY <1>1, WrapLeavesUnrolled
<1> DEFINE Good == {n \in 0..N : f[n] # Raised /\ Copies(b, f[n], w, n)}
<1>3. 0 \in Good
  <2>1. f[0] # Raised /\ Copies(b, f[0], w, 0)
    BY <1>2, CopiesStart
  <2> QED BY <1>1, <2>1
<1>4. ASSUME NEW n \in 1..N, n - 1 \in Good PROVE n \in Good
  <2>1. Copies(b, f[n - 1], w, n - 1) /\ f[n] = WrapLeaf(f[n - 1], n) /\ n \in 0..N
    BY <1>1, <1>2, <1>4
  <2>2. WrapLeaf(f[n - 1], n) # Raised /\ Copies(b, WrapLeaf(f[n - 1], n), w, n)
    BY <2>1, WrapLeafWorks
  <2> QED BY <2>1, <2>2
<1> HIDE DEF Good, N
<1>5. \A n \in 0..N : n \in Good
  BY <1>1, <1>3, <1>4, InductionFromZero
<1>6. N \in Good
  BY <1>1, <1>5
<1> QED BY <1>2, <1>6 DEF Good
-----------------------------------------------------------------------------
(* What exploration writes and wraps. *)

\* No leaf is in a tuple or shared with a parameter passed by reference.
Tidy == \A i \in 1..Len(binding) : ~InTuple(i) /\ Private(binding[i].param)

(* The arguments exploration started from can be written at every leaf, as long as none *)
(* is in a tuple: no target has changed them.                                           *)
LEMMA RestoredReady ==
  ASSUME ApartInv, Unspoilt, Tidy
  PROVE  Ready(Restored)
<1>1. /\ Restored \in Bases /\ Restored.heap = heap /\ Restored.args = initial /\ Table
      /\ initial = origin.args
  BY StartFacts DEF ApartInv, TypeInv, Unspoilt
<1>2. ASSUME NEW p \in Touched
      PROVE  /\ Private(p) /\ Fits(Restored, p)
             /\ Reach(heap, initial[p]) = Reach(origin.heap, origin.args[p])
             /\ \A id \in Reach(origin.heap, origin.args[p]) : heap[id] = origin.heap[id]
             /\ IsCopyable(origin.heap, origin.args[p])
  <2>1. PICK i \in 1..Len(binding) : binding[i].param = p
    BY <1>2 DEF Touched
  <2>2. Private(p)
    BY <2>1 DEF Tidy
  <2>3. IsCopyable(origin.heap, origin.args[p])
    <3>1. binding[i] \in Leaves(origin.heap, origin.args)
      BY <1>1, <2>1, ElementOfSeq DEF Table
    <3> QED BY <2>1, <3>1 DEF Leaves
  <2> QED BY <2>2, <2>3, StartFacts DEF Unspoilt
<1>3. ASSUME NEW p \in Touched PROVE Fits(Restored, p) /\ IsCopyable(Restored.heap, Restored.args[p])
  BY <1>1, <1>2 DEF IsCopyable
<1>4. ASSUME NEW i \in 1..Len(binding), binding[i].route # <<>>
      PROVE  Restored.heap[HolderOf(Restored, i).val].kind # "tuple"
  <2> DEFINE p == binding[i].param
             id == HolderOf(Restored, i).val
             start == Descend(origin.heap, origin.args[p], Front(binding[i].route))
  <2>1. p \in Touched
    BY <1>1, TableFacts
  <2>2. Spot(Restored, i) = Cell(i)
    BY <1>2, <2>1, StartFacts
  <2>3. id = start.val
    <3>1. Spot(Restored, i)[1] = id
      BY <1>4 DEF Spot
    <3>2. Cell(i)[1] = start.val
      BY <1>4 DEF Cell
    <3> QED BY <2>2, <3>1, <3>2
  <2>4. id \in Reach(heap, initial[p])
    BY <1>1, <1>2, <1>4, <2>1, SpotFacts
  <2>5. heap[id] = origin.heap[id]
    BY <1>2, <2>1, <2>4
  <2>6. origin.heap[start.val].kind # "tuple"
    BY <1>4 DEF Tidy, InTuple, Object
  <2> QED BY <1>1, <2>3, <2>5, <2>6
<1> QED BY <1>1, <1>3, <1>4 DEF Ready

(* So can an input made from a model. *)
LEMMA MadeReady ==
  ASSUME NEW b, Ready(b), Table,
         NEW m, \A j \in 1..Len(binding) : j \in DOMAIN m => m[j] \in Plain /\ m[j].sort \in Sorts /\ m[j].sym = NoSymbol,
         NEW at, Grown(b.heap, b.args, at), Copies(b, at, m, Len(binding))
  PROVE  Ready(at)
<1> DEFINE N == Len(binding)
<1>1. /\ b \in Bases /\ b.heap \in Heaps /\ N \in Nat
      /\ \A p \in Touched : Fits(b, p) /\ p \in DOMAIN b.args /\ IsCopyable(b.heap, b.args[p])
  BY BaseFacts, TableFacts DEF Ready, Fits
<1>2. at.heap \in Heaps /\ DOMAIN at.args = DOMAIN b.args
  BY <1>1, GrownFacts
<1>3. at \in Bases
  BY <1>1, BaseFacts DEF Grown, Bases
<1>4. ASSUME NEW i \in 1..N PROVE Original(at, i).sort \in Sorts /\ Original(at, i).sym = NoSymbol
  <2>1. binding[i].param \in Touched
    BY TableFacts
  <2>2. PICK to : Tracked(b, binding[i].param, at, to, m, N)
    BY <2>1 DEF Copies
  <2>3. Get(at.heap, at.args, binding[i]) = Now(b, m, N, Spot(b, i), Original(b, i))
    BY <1>1, <2>1, <2>2, TrackedGet
  <2> DEFINE A == {v \in {Original(b, i)} \cup {m[j] : j \in 1..N} : v.sort \in Sorts /\ v.sym = NoSymbol}
  <2>4. Original(b, i) \in A
    BY <1>1, <2>1, SpotFacts
  <2>5. \A j \in 1..N : j \in DOMAIN m /\ Spot(b, j) = Spot(b, i) => m[j] \in A
    OBVIOUS
  <2> HIDE DEF A, N
  <2>6. Now(b, m, N, Spot(b, i), Original(b, i)) \in A
    BY <1>1, <2>4, <2>5, NowIn
  <2>7. Original(at, i) = Get(at.heap, at.args, binding[i])
    BY <1>1, <1>2, <2>1 DEF Original, Get
  <2> QED BY <2>3, <2>6, <2>7 DEF A
<1>5. ASSUME NEW p \in Touched PROVE Fits(at, p)
  BY <1>1, <1>2, <1>4 DEF Fits, Original
<1>6. ASSUME NEW p \in Touched PROVE IsCopyable(at.heap, at.args[p])
  <2> DEFINE S == Reach(b.heap, b.args[p])
             v == at.args[p]
  <2>1. PICK to : Landed(b, p, at, to, m, N)
    BY <1>6 DEF Copies, Tracked
  <2> DEFINE Z == {to[id] : id \in S}
  <2>2. Closed(b.heap, S) /\ b.args[p] \in Holding(S) /\ S \subseteq DOMAIN b.heap
    BY <1>1, BaseFacts DEF Closed
  <2>3. /\ Z \subseteq DOMAIN at.heap /\ \A id \in S : to[id] \in Int
        /\ \A id \in S : at.heap[to[id]].kind = b.heap[id].kind
    <3>1. \A id \in S : to[id] \in New(b.heap, at.heap)
      BY <2>1 DEF Landed
    <3>2. Extends(b.heap, at.heap)
      BY DEF Grown
    <3>3. \A k \in New(b.heap, at.heap) : k \in DOMAIN at.heap /\ k \in Int
      BY <1>1, <1>2, <3>2, ExtendsFacts, HeapFacts
    <3>4. \A id \in S : at.heap[to[id]].kind = b.heap[id].kind
      BY <2>1 DEF Landed
    <3> QED BY <3>1, <3>3, <3>4
  <2>4. ASSUME NEW s, NEW u, NEW n \in Nat, ~IsRef(u), \A j \in 1..N : j \in DOMAIN m => ~IsRef(m[j]), n <= N
        PROVE  ~IsRef(Now(b, m, n, s, u))
    <3> DEFINE A == {y \in {u} \cup {m[j] : j \in 1..N} : ~IsRef(y)}
    <3>1. u \in A /\ \A j \in 1..n : j \in DOMAIN m /\ Spot(b, j) = s => m[j] \in A
      BY <1>1, <2>4
    <3> HIDE DEF A
    <3>2. Now(b, m, n, s, u) \in A
      BY <3>1, NowIn
    <3> QED BY <3>2 DEF A
  <2>5. \A j \in 1..N : j \in DOMAIN m => ~IsRef(m[j])
    BY DEF Plain
  <2> HIDE DEF S
  <2>6. ASSUME NEW s, NEW u \in Holding(S), IsRef(Carried(b, to, m, N, s, u))
        PROVE  Carried(b, to, m, N, s, u).val \in Z
    <3>1. IsRef(u)
      BY <1>1, <2>4, <2>5, <2>6 DEF Carried
    <3>2. u.val \in S /\ Carried(b, to, m, N, s, u) = Ref(to[u.val])
      BY <3>1 DEF Carried, Holding
    <3> QED BY <2>3, <3>2, RefFacts
  <2>7. Closed(at.heap, Z)
    <3> SUFFICES ASSUME NEW id \in S, NEW c \in DOMAIN at.heap[to[id]].cells, IsRef(at.heap[to[id]].cells[c])
                 PROVE  at.heap[to[id]].cells[c].val \in Z
      BY <2>3 DEF Closed
    <3>1. c \in DOMAIN b.heap[id].cells
          /\ at.heap[to[id]].cells[c] = Carried(b, to, m, N, <<id, c, p>>, b.heap[id].cells[c])
      BY <2>1 DEF Landed, S
    <3>2. b.heap[id].cells[c] \in Holding(S)
      BY <1>1, <2>2, <3>1, HeapFacts DEF Closed, Holding
    <3> QED BY <2>6, <3>1, <3>2
  <2>8. IsRef(v) => v.val \in Z
    BY <2>1, <2>2, <2>6 DEF Landed
  <2>9. In(at.heap, v)
    BY <2>3, <2>8 DEF In
  <2> HIDE DEF v, Z
  <2>10. Reach(at.heap, v) \subseteq Z
    BY <1>2, <2>7, <2>8, <2>9, ReachFacts
  <2> QED BY <1>1, <2>3, <2>10 DEF IsCopyable, Z, S, v
<1>7. ASSUME NEW i \in 1..N, binding[i].route # <<>>
      PROVE  at.heap[HolderOf(at, i).val].kind # "tuple"
  <2> DEFINE p == binding[i].param
             id == HolderOf(b, i).val
  <2>1. p \in Touched
    BY TableFacts
  <2>2. PICK to : Landed(b, p, at, to, m, N)
    BY <2>1 DEF Copies, Tracked
  <2>3. HolderOf(at, i) = Ref(to[id]) /\ to[id] \in New(b.heap, at.heap) /\ id \in Reach(b.heap, b.args[p])
    BY <1>1, <1>7, <2>1, <2>2, HolderLanded DEF HolderOf
  <2>4. to[id] \in Int
    BY <1>1, <1>2, <2>3, HeapFacts DEF New
  <2> QED BY <1>7, <2>2, <2>3, <2>4, RefFacts DEF Landed, Ready
<1> QED BY <1>3, <1>5, <1>6, <1>7 DEF Ready

\* The first attempt is with the initial arguments.
InitialFirst ==
    records = <<>> =>
        \/ pc = "next" /\ queue # <<>> /\ Head(queue) = initial
        \/ pc = "given" /\ given = initial

\* What conforms to the table is ready when it is tried.
Prepared == pc = "given" /\ (model # NoModel \/ records = <<>>) => Ready(Tried)

WritableInv == ApartInv /\ Unspoilt /\ InitialFirst /\ (Tidy => Prepared /\ TableWritable)

LEMMA SameReady ==
  ASSUME UNCHANGED <<binding, origin>>
  PROVE  (Tidy' <=> Tidy) /\ \A b : Ready(b)' <=> Ready(b)
<1>1. Tidy' <=> Tidy
  BY SameTable DEF Tidy, InTuple
<1>2. \A b : Ready(b)' <=> Ready(b)
  <2>1. \A b, p : Fits(b, p)' <=> Fits(b, p)
    BY SameLeaves
  <2>2. \A b, i : HolderOf(b, i)' = HolderOf(b, i)
    BY DEF HolderOf
  <2> QED BY <2>1, <2>2, SameTable DEF Ready
<1> QED BY <1>1, <1>2

LEMMA InitWritable == Init => InitialFirst /\ Prepared /\ TableWritable
BY DEF Init, InitialFirst, Prepared, TableWritable

(* The first input popped is what exploration started from. *)
LEMMA PopQueueWritable ==
  ASSUME WritableInv, PopQueue
  PROVE  InitialFirst' /\ (Tidy => Prepared' /\ TableWritable')
<1>1. /\ UNCHANGED <<heap, initial, origin, binding, records>>
      /\ pc = "next" /\ model' = NoModel /\ pc' \in {"next", "given"}
  BY DEF PopQueue
<1>2. ASSUME records = <<>> PROVE pc' = "given" /\ given' = initial
  <2>1. ~Seen(heap, Head(queue))
    BY <1>2 DEF Seen
  <2>2. Head(queue) = initial
    BY <1>1, <1>2 DEF WritableInv, InitialFirst
  <2> QED BY <2>1, <2>2 DEF PopQueue
<1>3. InitialFirst'
  BY <1>1, <1>2 DEF InitialFirst
<1>4. ASSUME Tidy PROVE Prepared'
  <2>1. Ready(Restored)
    BY <1>4, RestoredReady DEF WritableInv
  <2>2. records = <<>> => Tried' = Restored
    BY <1>1, <1>2 DEF Tried, Restored
  <2> QED BY <1>1, <2>1, <2>2, SameReady DEF Prepared
<1>5. ASSUME Tidy PROVE TableWritable'
  BY <1>1, <1>5 DEF WritableInv, TableWritable, Conforms
<1> QED BY <1>3, <1>4, <1>5

(* Models are written into what exploration started from, and what results can be wrapped. *)
LEMMA SolveWritable ==
  ASSUME WritableInv, Solve
  PROVE  InitialFirst' /\ (Tidy => Prepared' /\ TableWritable')
<1>1. UNCHANGED <<initial, origin, binding, records>> /\ pc = "next" /\ records # <<>>
  BY DEF Solve, CanSolve
<1>2. InitialFirst'
  BY <1>1 DEF InitialFirst
<1>3. ASSUME Tidy PROVE Prepared' /\ TableWritable'
  <2>1. Ready(Restored) /\ Restored.heap = heap /\ Restored.args = initial /\ Table
    BY <1>3, RestoredReady, StartFacts DEF WritableInv, ApartInv, TypeInv
  <2> DEFINE Made(m) == ApplyModel(heap, initial, m)
  <2>2. PICK m \in Models :
          IF Made(m) = Raised
          THEN pc' = "raised" /\ model' = m /\ UNCHANGED <<heap, given>>
          ELSE \/ UNCHANGED <<heap, given, model, pc>>
               \/ heap' = Made(m).heap /\ given' = Made(m).args /\ model' = m /\ pc' = "given"
    BY DEF Solve
  <2>3. \A j \in 1..Len(binding) : j \in DOMAIN m => m[j] \in Plain /\ m[j].sort \in Sorts /\ m[j].sym = NoSymbol
    BY <2>1, ModelFacts, TableFacts DEF Plain
  <2>4. Made(m) # Raised /\ Copies(Restored, Made(m), m, Len(binding))
    BY <2>1, <2>3, ApplyModelWorks
  <2>5. Grown(Restored.heap, Restored.args, Made(m))
    <3>1. heap \in Heaps /\ GivenIn(heap, initial)
      BY DEF WritableInv, ApartInv, TypeInv, Held, Kept
    <3> QED BY <2>1, <2>3, <2>4, <3>1, ApplyModelGrown DEF Growths, Plain
  <2> HIDE DEF Made
  <2>6. Ready(Made(m))
    BY <2>1, <2>3, <2>4, <2>5, MadeReady
  <2>7. TableWritable'
    BY <1>1, <1>3, <2>2, <2>4 DEF WritableInv, TableWritable, Conforms
  <2>8. CASE UNCHANGED <<heap, given, model, pc>>
    BY <1>1, <2>7, <2>8 DEF Prepared
  <2>9. CASE heap' = Made(m).heap /\ given' = Made(m).args
    <3>1. Made(m) = [heap |-> Made(m).heap, args |-> Made(m).args]
      BY <2>5 DEF Grown, States
    <3>2. Tried' = Made(m)
      BY <2>9, <3>1 DEF Tried
    <3> QED BY <1>1, <2>6, <2>7, <3>2, SameReady DEF Prepared
  <2> QED BY <2>2, <2>4, <2>8, <2>9
<1> QED BY <1>2, <1>3

(* What conforms to the table reaches the target. *)
LEMMA AttemptWritable ==
  ASSUME WritableInv, Attempt
  PROVE  InitialFirst' /\ (Tidy => Prepared' /\ TableWritable')
<1>1. UNCHANGED <<origin, binding>> /\ pc = "given" /\ pc' \in {"next", "running"}
  BY DEF Attempt, Record
<1> DEFINE N == Len(records)
           r == records'[N + 1]
           wrapped == WrapLeaves(heap, given)
<1>2. /\ Len(records') = N + 1 /\ N \in Nat /\ \A k \in 1..N : records'[k] = records[k]
      /\ r.from = IF model = NoModel THEN "other" ELSE "solver"
      /\ wrapped # Raised => r.outcome = "ran"
  <2>1. records \in Seq(ToSet(records))
    BY DEF WritableInv, ApartInv, TypeInv
  <2>2. PICK e : /\ records' = Append(records, e)
                 /\ e.from = IF model = NoModel THEN "other" ELSE "solver"
                 /\ wrapped # Raised => e.outcome = "ran"
    BY DEF Attempt, Record
  <2>3. records'[N + 1] = e /\ Len(records') = N + 1 /\ N \in Nat /\ \A k \in 1..N : records'[k] = records[k]
    BY <2>1, <2>2, AppendProperties, LenProperties
  <2> QED BY <2>2, <2>3
<1>3. InitialFirst' /\ Prepared'
  BY <1>1, <1>2 DEF InitialFirst, Prepared
<1>4. ASSUME Tidy PROVE TableWritable'
  <2> SUFFICES ASSUME NEW k \in 1..N + 1, records'[k].from = "solver" \/ k = 1
               PROVE  records'[k].outcome = "ran"
    BY <1>1, <1>2 DEF TableWritable, Conforms
  <2>1. CASE k \in 1..N
    BY <1>2, <1>4, <2>1 DEF WritableInv, TableWritable, Conforms
  <2>2. CASE k = N + 1
    <3>1. model # NoModel \/ records = <<>>
      <4>1. records \in Seq(ToSet(records))
        BY DEF WritableInv, ApartInv, TypeInv
      <4>2. N = 0 => records = <<>>
        BY <4>1
      <4> QED BY <1>2, <2>2, <4>2
    <3>2. Ready(Tried) /\ Table
      BY <1>1, <1>4, <3>1 DEF WritableInv, Prepared, ApartInv, TypeInv
    <3>3. WrapLeaves(Tried.heap, Tried.args) # Raised
      BY <3>2, WrapLeavesWorks
    <3> QED BY <1>2, <2>2, <3>3 DEF Tried
  <2> QED BY <1>2, <2>1, <2>2
<1> QED BY <1>3, <1>4

LEMMA WritableStays ==
  ASSUME WritableInv, [Next]_vars, ApartInv'
  PROVE  WritableInv'
<1>1. Unspoilt' /\ UNCHANGED <<initial, origin, binding>> /\ (Tidy' <=> Tidy)
  BY UnspoiltStays, FixedFacts, SameReady DEF WritableInv
<1> SUFFICES InitialFirst' /\ (Tidy => Prepared' /\ TableWritable')
  BY <1>1 DEF WritableInv
<1>2. CASE PopQueue
  BY <1>2, PopQueueWritable
<1>3. CASE Solve
  BY <1>3, SolveWritable
<1>4. CASE Attempt
  BY <1>4, AttemptWritable
<1>5. CASE Resolve
  <2>1. records # <<>> /\ UNCHANGED records /\ model' = NoModel /\ pc' = "given"
    BY <1>5 DEF Resolve, CanSolve
  <2> QED BY <1>1, <2>1 DEF WritableInv, InitialFirst, Prepared, TableWritable, Conforms
<1>6. CASE TargetWrites \/ TargetReturns
  <2>1. pc = "running" /\ UNCHANGED records /\ pc' \in {"running", "next"}
    BY <1>6 DEF TargetWrites, TargetReturns
  <2> QED BY <1>1, <2>1 DEF WritableInv, InitialFirst, Prepared, TableWritable, Conforms
<1>7. CASE UNCHANGED vars
  <2>1. UNCHANGED <<heap, initial, queue, given, records, model, pc>>
    BY <1>7 DEF vars
  <2>2. Tried' = Tried
    BY <2>1 DEF Tried
  <2> QED BY <1>1, <2>1, <2>2, SameReady DEF WritableInv, InitialFirst, Prepared, TableWritable, Conforms
<1> QED BY <1>2, <1>3, <1>4, <1>5, <1>6, <1>7 DEF Next

(* The table is only as large as what can be written on every attempt, where no leaf  *)
(* is in a tuple and none is shared with a parameter passed by reference: a model is  *)
(* always applied, and the first arguments and those made from models always reach    *)
(* the target, whatever targets write in between.                                     *)
THEOREM WritableButTuplesHolds == Spec => []WritableButTuples
<1>1. Init => ApartInv /\ WritableInv
  BY InitApart, InitLands, InitWritable DEF WritableInv
<1>2. ApartInv /\ WritableInv /\ [Next]_vars => (ApartInv /\ WritableInv)'
  BY StepApart, WritableStays
<1>3. WritableInv => WritableButTuples
  BY DEF WritableInv, WritableButTuples, Tidy
<1> QED
  BY <1>1, <1>2, <1>3, PTL DEF Spec

=============================================================================
