--------------------------- MODULE PathTreeProofs ---------------------------
(***************************************************************************)
(* Proofs about PathTree, for every set of conditions, every value of the  *)
(* constants, with the tracer's interrupts and the optimizer's rewrites    *)
(* unless a theorem says otherwise.                                        *)
(***************************************************************************)
EXTENDS PathTree, TLAPS, SequenceTheorems, ProofFacts

(* A registry that grows keeps every list of lists of ids. *)
LEMMA NestedSeqMonotonic ==
  ASSUME NEW S, NEW T, S \subseteq T, NEW s \in Seq(Seq(S))
  PROVE  s \in Seq(Seq(T))
<1>1. Seq(S) \subseteq Seq(T)
  BY SeqMonotonic
<1> QED
  BY <1>1, SeqMonotonic

-----------------------------------------------------------------------------
(* Type correctness.  TypeOK is not inductive alone: linking, enqueueing   *)
(* and advancing use the ids add_branch holds in its locals, so these must *)
(* be entries of the registry from the line that assigns them on.          *)
AlternativePcs == {"link_alternative", "enqueue", "tag_alternative", "tag_taken",
                   "advance", "deliver"}
TakenPcs == AlternativePcs \cup {"link_taken", "mark_taken", "register_alternative"}

LocalsOK ==
    /\ pc \in Branching => branch.expr \in Exprs
    /\ pc \in TakenPcs => branch.taken \in Ids
    /\ pc \in AlternativePcs => branch.alternative \in Ids

(* find_child answers one of the node's children that matches, or None when *)
(* none does.                                                               *)
LEMMA FindChildFinds ==
  ASSUME TypeOK, NEW n \in Ids, NEW e, NEW v
  PROVE  /\ FindChild(n, e, v) \in Ids \cup {0}
         /\ FindChild(n, e, v) = 0 <=>
               \A i \in DOMAIN children[n] : ~Matches(children[n][i], e, v)
         /\ FindChild(n, e, v) # 0 =>
               \E i \in DOMAIN children[n] : /\ FindChild(n, e, v) = children[n][i]
                                             /\ Matches(children[n][i], e, v)
<1> DEFINE hits == {i \in DOMAIN children[n] : Matches(children[n][i], e, v)}
           first == CHOOSE i \in hits : \A j \in hits : i <= j
<1>1. children[n] \in Seq(Ids)
  BY ElementOfSeq DEF TypeOK, Ids
<1>2. CASE hits = {}
  BY <1>2 DEF FindChild
<1>3. CASE hits # {}
  <2>1. hits \in SUBSET Nat
    BY <1>1
  <2>2. first \in hits
    <3> HIDE DEF hits
    <3> QED BY <1>3, <2>1, LeastNatural
  <2>3. children[n][first] \in Ids
    <3>1. first \in 1 .. Len(children[n])
      BY <2>2, <1>1
    <3> HIDE DEF first
    <3> QED BY <3>1, <1>1, ElementOfSeq
  <2>4. FindChild(n, e, v) = children[n][first]
    BY <1>3 DEF FindChild
  <2> QED
    <3> HIDE DEF first
    <3> QED BY <2>2, <2>3, <2>4 DEF Ids
<1> QED
  BY <1>2, <1>3

LEMMA InitTypes == Init => TypeOK /\ LocalsOK
<1> SUFFICES ASSUME Init PROVE TypeOK /\ LocalsOK
  OBVIOUS
<1> USE DEF Init
<1>1. registry \in Seq([parent : Nat, expr : Exprs \cup {NoExpr},
                        value : BOOLEAN, depth : Nat]) /\ Len(registry) = 1
  OBVIOUS
<1>2. children \in Seq(Seq(Ids)) /\ Len(children) = 1
  OBVIOUS
<1>3. chain \in Seq(Chains \cup {NoChain}) /\ Len(chain) = 1
  OBVIOUS
<1>4. pool \in Seq(Ids) /\ decisions \in Seq(Decision)
  OBVIOUS
<1>5. current \in Ids
  BY <1>1 DEF Ids, Root
<1>6. branch \in [expr : Exprs \cup {NoExpr}, value : BOOLEAN, chain : Chains \cup {NoChain},
                   taken : Ids \cup {0}, alternative : Ids \cup {0}]
  BY DEF NoBranch
<1>7. pc \in PCs /\ pc \notin Branching
  BY DEF PCs, Branching, Creating
<1>8. LocalsOK
  BY <1>7 DEF LocalsOK, Branching, Creating, TakenPcs, AlternativePcs
<1>9. processed = {} /\ rewritten = {} /\ dropped = {} /\ traced = FALSE
  OBVIOUS
<1> HIDE DEF Init
<1>10. processed \subseteq Ids /\ rewritten \subseteq Ids /\ dropped \subseteq Ids
  BY <1>9
<1>11. traced \in BOOLEAN
  BY <1>9
<1>12. Len(registry) >= 1 /\ Len(children) = Len(registry) /\ Len(chain) = Len(registry)
  BY <1>1, <1>2, <1>3
<1>13. TypeOK
  BY <1>1, <1>2, <1>3, <1>4, <1>5, <1>6, <1>7, <1>10, <1>11, <1>12, Zenon DEF TypeOK
<1> QED
  BY <1>8, <1>13

(* What registering a node leaves: one more entry, everything older as it was. *)
LEMMA RegisterExtends ==
  ASSUME TypeOK, NEW e \in Exprs, NEW v \in BOOLEAN, Register(e, v)
  PROVE  /\ registry' \in Seq([parent : Nat, expr : Exprs \cup {NoExpr},
                               value : BOOLEAN, depth : Nat])
         /\ Len(registry') = Len(registry) + 1
         /\ Ids \subseteq Ids' /\ Len(registry) + 1 \in Ids'
         /\ children' \in Seq(Seq(Ids')) /\ Len(children') = Len(registry')
         /\ chain' \in Seq(Chains \cup {NoChain}) /\ Len(chain') = Len(registry')
         /\ pool \in Seq(Ids')
         /\ \A n \in Ids : registry'[n] = registry[n] /\ children'[n] = children[n]
                           /\ chain'[n] = chain[n]
         /\ registry'[Len(registry) + 1] =
               [parent |-> current, expr |-> e, value |-> v,
                depth |-> registry[current].depth + 1]
         /\ children'[Len(registry) + 1] = <<>>
<1> DEFINE node == [parent |-> current, expr |-> e, value |-> v,
                    depth |-> registry[current].depth + 1]
           Nodes == [parent : Nat, expr : Exprs \cup {NoExpr}, value : BOOLEAN, depth : Nat]
<1>1. registry \in Seq(Nodes) /\ current \in 1 .. Len(registry) /\ Len(registry) \in Nat
  BY DEF TypeOK, Ids
<1>2. node \in Nodes
  <2>1. registry[current] \in Nodes
    BY <1>1, ElementOfSeq
  <2> QED BY <2>1, <1>1
<1>3. registry' = Append(registry, node) /\ children' = Append(children, <<>>)
      /\ chain' = Append(chain, NoChain)
  BY DEF Register
<1>4. /\ registry' \in Seq(Nodes) /\ Len(registry') = Len(registry) + 1
      /\ registry'[Len(registry) + 1] = node
      /\ \A n \in Ids : registry'[n] = registry[n]
  <2> HIDE DEF node, Nodes
  <2> QED BY <1>1, <1>2, <1>3 DEF Ids
<1>5. Ids \subseteq Ids' /\ Len(registry) + 1 \in Ids'
  BY <1>1, <1>4 DEF Ids
<1>6. children \in Seq(Seq(Ids')) /\ Len(children) = Len(registry) /\ pool \in Seq(Ids')
  BY <1>5, NestedSeqMonotonic, SeqMonotonic DEF TypeOK
<1>7. /\ children' \in Seq(Seq(Ids')) /\ Len(children') = Len(registry) + 1
      /\ children'[Len(registry) + 1] = <<>>
      /\ \A n \in Ids : children'[n] = children[n]
  <2>1. <<>> \in Seq(Ids')
    OBVIOUS
  <2>2. /\ Append(children, <<>>) \in Seq(Seq(Ids'))
        /\ Len(Append(children, <<>>)) = Len(children) + 1
        /\ \A i \in 1 .. Len(children) : Append(children, <<>>)[i] = children[i]
        /\ Append(children, <<>>)[Len(children) + 1] = <<>>
    BY <1>6, <2>1, AppendProperties
  <2> QED BY <1>3, <1>6, <2>2 DEF Ids
<1>8. /\ chain' \in Seq(Chains \cup {NoChain}) /\ Len(chain') = Len(registry) + 1
      /\ \A n \in Ids : chain'[n] = chain[n]
  BY <1>1, <1>3 DEF TypeOK, Ids
<1> QED
  BY <1>4, <1>5, <1>6, <1>7, <1>8

LEMMA TypeStep ==
  ASSUME TypeOK, LocalsOK, [Next]_vars
  PROVE  TypeOK' /\ LocalsOK'
<1> USE DEF TypeOK, LocalsOK, PCs, Branching, Creating, TakenPcs, AlternativePcs
<1>1. CASE Reset
  BY <1>1 DEF Reset, tree, Ids, Root
<1>2. ASSUME NEW c \in Conditions, NEW v \in BOOLEAN,
             BranchNew(c, v) \/ BranchKnown(c, v) \/ BranchInconsistent(c, v)
      PROVE  TypeOK' /\ LocalsOK'
  <2>1. Evaluates(c, v) /\ c.expr \in Exprs /\ c.chain \in Chains \cup {NoChain}
    BY <1>2, ConditionsAssumption DEF BranchNew, BranchKnown, BranchInconsistent
  <2>2. UNCHANGED <<registry, children, chain, rewritten, pool, current, traced, decisions,
                    dropped>>
    BY <2>1 DEF Evaluates
  <2>3. Ids' = Ids
    BY <2>2 DEF Ids
  <2>4. /\ branch'.expr = c.expr
        /\ branch'.taken \in Ids \cup {0} /\ branch'.alternative \in Ids \cup {0}
        /\ branch' \in [expr : Exprs \cup {NoExpr}, value : BOOLEAN, chain : Chains \cup {NoChain},
                        taken : Ids' \cup {0}, alternative : Ids' \cup {0}]
    BY <2>1, <2>3, FindChildFinds DEF Evaluates
  <2>5. CASE BranchNew(c, v)
    <3>1. pc' = "register_taken" /\ processed' = processed
      BY <2>5 DEF BranchNew
    <3> QED BY <2>1, <2>2, <2>3, <2>4, <3>1
  <2>6. CASE BranchKnown(c, v)
    <3>1. /\ pc' \in {"advance", "tag_alternative"} /\ processed' = processed
          /\ branch'.taken # 0 /\ branch'.alternative # 0
      BY <2>6 DEF BranchKnown, AfterLookup
    <3> QED BY <2>1, <2>2, <2>3, <2>4, <3>1
  <2>7. CASE BranchInconsistent(c, v)
    <3>1. pc' = "inconsistent" /\ processed' \subseteq Ids
      BY <2>4, <2>7 DEF BranchInconsistent
    <3> QED BY <2>1, <2>2, <2>3, <2>4, <3>1
  <2> QED BY <1>2, <2>5, <2>6, <2>7
<1>3. CASE RegisterTaken
  <2>1. pc = "register_taken" /\ pc' = "link_taken" /\ Register(branch.expr, branch.value)
        /\ branch' = [branch EXCEPT !.taken = Len(registry) + 1]
        /\ UNCHANGED <<processed, rewritten, pool, current, traced, decisions, dropped>>
    BY <1>3 DEF RegisterTaken
  <2>2. branch.expr \in Exprs /\ branch.value \in BOOLEAN
    BY <2>1
  <2>3. /\ registry' \in Seq([parent : Nat, expr : Exprs \cup {NoExpr},
                              value : BOOLEAN, depth : Nat])
        /\ Len(registry') = Len(registry) + 1
        /\ Ids \subseteq Ids' /\ Len(registry) + 1 \in Ids'
        /\ children' \in Seq(Seq(Ids')) /\ Len(children') = Len(registry')
        /\ chain' \in Seq(Chains \cup {NoChain}) /\ Len(chain') = Len(registry')
        /\ pool \in Seq(Ids')
    <3> HIDE DEF TypeOK, LocalsOK
    <3> QED BY <2>1, <2>2, RegisterExtends
  <2>4. branch' \in [expr : Exprs \cup {NoExpr}, value : BOOLEAN, chain : Chains \cup {NoChain},
                        taken : Ids' \cup {0}, alternative : Ids' \cup {0}]
    BY <2>1, <2>3
  <2>5. LocalsOK'
    BY <2>1, <2>2, <2>3
  <2>6. processed' \subseteq Ids' /\ rewritten' \subseteq Ids' /\ dropped' \subseteq Ids'
        /\ current' \in Ids' /\ pool' \in Seq(Ids') /\ Len(registry') >= 1
    BY <2>1, <2>3
  <2>7. pc' \in PCs /\ traced' \in BOOLEAN /\ decisions' \in Seq(Decision)
    BY <2>1
  <2> QED
    <3> HIDE DEF LocalsOK, PCs
    <3> QED BY <2>3, <2>4, <2>5, <2>6, <2>7, Zenon
<1>4. CASE LinkTaken
  BY <1>4 DEF LinkTaken, Link, Ids
<1>5. CASE MarkTaken
  BY <1>5 DEF MarkTaken, Ids
<1>6. CASE RegisterAlternative
  <2>1. pc = "register_alternative" /\ pc' = "link_alternative" /\ Register(branch.expr, ~branch.value)
        /\ branch' = [branch EXCEPT !.alternative = Len(registry) + 1]
        /\ UNCHANGED <<processed, rewritten, pool, current, traced, decisions, dropped>>
    BY <1>6 DEF RegisterAlternative
  <2>2. branch.expr \in Exprs /\ (~branch.value) \in BOOLEAN
    BY <2>1
  <2>3. /\ registry' \in Seq([parent : Nat, expr : Exprs \cup {NoExpr},
                              value : BOOLEAN, depth : Nat])
        /\ Len(registry') = Len(registry) + 1
        /\ Ids \subseteq Ids' /\ Len(registry) + 1 \in Ids'
        /\ children' \in Seq(Seq(Ids')) /\ Len(children') = Len(registry')
        /\ chain' \in Seq(Chains \cup {NoChain}) /\ Len(chain') = Len(registry')
        /\ pool \in Seq(Ids')
    <3> HIDE DEF TypeOK, LocalsOK
    <3> QED BY <2>1, <2>2, RegisterExtends
  <2>4. branch' \in [expr : Exprs \cup {NoExpr}, value : BOOLEAN, chain : Chains \cup {NoChain},
                        taken : Ids' \cup {0}, alternative : Ids' \cup {0}]
    BY <2>1, <2>3
  <2>5. LocalsOK'
    BY <2>1, <2>2, <2>3
  <2>6. processed' \subseteq Ids' /\ rewritten' \subseteq Ids' /\ dropped' \subseteq Ids'
        /\ current' \in Ids' /\ pool' \in Seq(Ids') /\ Len(registry') >= 1
    BY <2>1, <2>3
  <2>7. pc' \in PCs /\ traced' \in BOOLEAN /\ decisions' \in Seq(Decision)
    BY <2>1
  <2> QED
    <3> HIDE DEF LocalsOK, PCs
    <3> QED BY <2>3, <2>4, <2>5, <2>6, <2>7, Zenon
<1>7. CASE LinkAlternative
  BY <1>7 DEF LinkAlternative, Link, Ids
<1>8. CASE Enqueue
  BY <1>8 DEF Enqueue, AfterLookup, tree, Ids
<1>9. CASE TagAlternative
  BY <1>9 DEF TagAlternative, Tag, Ids
<1>10. CASE TagTaken
  BY <1>10 DEF TagTaken, Tag, Ids
<1>11. CASE Advance
  BY <1>11 DEF Advance, tree, Ids
<1>12. CASE Deliver
  BY <1>12 DEF Deliver, tree, Decision, NoBranch, Ids
<1>13. CASE Interrupt
  BY <1>13 DEF Interrupt, tree, NoBranch, Ids
<1>14. CASE Swallow
  BY <1>14 DEF Swallow, tree, NoBranch, Ids
<1>15. CASE Finish
  <2>1. pc' = "idle" /\ branch' = NoBranch /\ traced' = FALSE /\ decisions' = <<>>
        /\ UNCHANGED <<tree, pool, current, dropped>> /\ Ids' = Ids
    BY <1>15 DEF Finish, tree, Ids
  <2>2. branch' \in [expr : Exprs \cup {NoExpr}, value : BOOLEAN, chain : Chains \cup {NoChain},
                        taken : Ids' \cup {0}, alternative : Ids' \cup {0}]
    BY <2>1 DEF NoBranch
  <2>3. traced' \in BOOLEAN
    BY <2>1
  <2>4. decisions' \in Seq(Decision)
    BY <2>1
  <2> QED BY <2>1, <2>2, <2>3, <2>4 DEF tree
<1>16. ASSUME NEW i \in DOMAIN pool, Solve(i)
       PROVE  TypeOK' /\ LocalsOK'
  <2>1. UNCHANGED <<registry, children, chain, current, pc, branch, traced, decisions, dropped>>
        /\ Ids' = Ids
    BY <1>16 DEF Solve, Ids
  <2>2. pool[i] \in Ids /\ i \in 1 .. Len(pool)
    BY ElementOfSeq
  <2>3. pool' \in Seq(Ids)
    <3>1. SubSeq(pool, 1, i - 1) \in Seq(Ids) /\ SubSeq(pool, i + 1, Len(pool)) \in Seq(Ids)
      BY <2>2, SubSeqProperties, ElementOfSeq
    <3> QED BY <1>16, <3>1, ConcatProperties DEF Solve
  <2>4. processed' \subseteq Ids /\ rewritten' \subseteq Ids
    BY <1>16, <2>2 DEF Solve
  <2> QED BY <2>1, <2>3, <2>4
<1>17. CASE ClearPool
  <2>1. UNCHANGED <<tree, current, pc, branch, traced, decisions>> /\ Ids' = Ids
    BY <1>17 DEF ClearPool, tree, Ids
  <2>2. \A i \in DOMAIN pool : pool[i] \in Ids
    BY ElementOfSeq
  <2>3. dropped' \subseteq Ids /\ pool' \in Seq(Ids)
    BY <1>17, <2>2 DEF ClearPool
  <2> QED BY <2>1, <2>3 DEF tree
<1>18. CASE UNCHANGED vars
  BY <1>18 DEF vars, Ids
<1> QED
  BY <1>1, <1>2, <1>3, <1>4, <1>5, <1>6, <1>7, <1>8, <1>9, <1>10, <1>11, <1>12,
     <1>13, <1>14, <1>15, <1>16, <1>17, <1>18 DEF Next

(* TypeOK is an invariant: every id a part of the engine holds is an entry *)
(* of the registry, so ConstraintRegistry.get never fails, wherever the    *)
(* tracer's TimeoutError unwinds add_branch.                               *)
THEOREM TypeCorrect == Spec => []TypeOK
<1>1. Init => TypeOK /\ LocalsOK
  BY InitTypes
<1>2. TypeOK /\ LocalsOK /\ [Next]_vars => (TypeOK /\ LocalsOK)'
  BY TypeStep
<1> QED
  BY <1>1, <1>2, PTL DEF Spec

-----------------------------------------------------------------------------
(* The shape of the tree.  A node gets its parent and depth when it is     *)
(* registered and is linked one line later, so the invariant also has to   *)
(* speak of registered nodes that are not linked (for good, when the       *)
(* tracer interrupts between the two lines).                               *)
NodesAgree ==
    \A n \in Ids \ {Root} :
        /\ registry[n].parent \in 1 .. n - 1
        /\ registry[n].depth = registry[registry[n].parent].depth + 1

AboutToLink ==
    /\ pc = "link_taken" => branch.taken # Root /\ registry[branch.taken].parent = current
    /\ pc = "link_alternative" =>
          branch.alternative # Root /\ registry[branch.alternative].parent = current

LinksAgree ==
    \A n \in Ids : \A c \in ChildrenOf(n) : c # Root /\ registry[c].parent = n

ShapeInv ==
    /\ registry[Root].parent = 0
    /\ NodesAgree
    /\ LinksAgree
    /\ AboutToLink

(* What linking a node changes: the child set of the current node. *)
LEMMA LinkAdds ==
  ASSUME TypeOK, NEW id \in Ids, Link(id)
  PROVE  \A n \in Ids : ChildrenOf(n)' = IF n = current THEN ChildrenOf(n) \cup {id}
                                         ELSE ChildrenOf(n)
<1>1. children \in Seq(Seq(Ids)) /\ Len(children) = Len(registry) /\ current \in Ids
  BY DEF TypeOK
<1>2. ASSUME NEW n \in Ids, n # current
      PROVE  ChildrenOf(n)' = ChildrenOf(n)
  <2>1. children'[n] = children[n]
    BY <1>1, <1>2 DEF Link, Ids
  <2> QED BY <2>1 DEF ChildrenOf
<1>3. ASSUME NEW n \in Ids, n = current
      PROVE  ChildrenOf(n)' = ChildrenOf(n) \cup {id}
  <2> DEFINE s == children[n]
  <2>1. s \in Seq(Ids)
    BY <1>1, ElementOfSeq DEF Ids
  <2>2. children'[n] = Append(s, id)
    BY <1>1, <1>3 DEF Link, Ids
  <2>3. /\ DOMAIN Append(s, id) = DOMAIN s \cup {Len(s) + 1}
        /\ \A i \in DOMAIN s : Append(s, id)[i] = s[i]
        /\ Append(s, id)[Len(s) + 1] = id
    <3> HIDE DEF s
    <3> QED BY <2>1, AppendProperties, LenProperties
  <2>4. {Append(s, id)[i] : i \in DOMAIN Append(s, id)} = {s[i] : i \in DOMAIN s} \cup {id}
    <3> HIDE DEF s
    <3> QED BY <2>3
  <2> QED BY <2>2, <2>4 DEF ChildrenOf
<1> QED
  BY <1>2, <1>3

(* Children are registered nodes. *)
LEMMA ChildrenAreIds ==
  ASSUME TypeOK, NEW n \in Ids
  PROVE  ChildrenOf(n) \subseteq Ids
<1>1. children[n] \in Seq(Ids)
  BY ElementOfSeq DEF TypeOK, Ids
<1>2. \A i \in DOMAIN children[n] : children[n][i] \in Ids
  BY <1>1, ElementOfSeq, LenProperties
<1> QED
  BY <1>2 DEF ChildrenOf

(* What registering a node changes in the child sets: a new, empty one. *)
LEMMA RegisterKeepsLinks ==
  ASSUME TypeOK, NEW e \in Exprs, NEW v \in BOOLEAN, Register(e, v)
  PROVE  /\ \A n \in Ids : ChildrenOf(n)' = ChildrenOf(n)
         /\ \A n : n = Len(registry) + 1 => ChildrenOf(n)' = {}
<1>1. /\ \A n \in Ids : children'[n] = children[n]
      /\ children'[Len(registry) + 1] = <<>>
  BY RegisterExtends
<1>2. \A n \in Ids : ChildrenOf(n)' = ChildrenOf(n)
  BY <1>1 DEF ChildrenOf
<1>3. ASSUME NEW m, m = Len(registry) + 1 PROVE ChildrenOf(m)' = {}
  BY <1>1, <1>3 DEF ChildrenOf
<1> QED
  BY <1>2, <1>3

(* The steps that neither register nor link anything. *)
LEMMA OtherSteps ==
  ASSUME Next
  PROVE  \/ RegisterTaken \/ RegisterAlternative \/ LinkTaken \/ LinkAlternative
         \/ /\ UNCHANGED <<registry, children>>
            /\ pc' \notin {"link_taken", "mark_taken", "link_alternative"}
            /\ pc' = "register_alternative" => MarkTaken
            /\ pc' = "enqueue" => FALSE
<1> USE DEF tree
<1>1. ASSUME NEW c \in Conditions, NEW v \in BOOLEAN,
             BranchNew(c, v) \/ BranchKnown(c, v) \/ BranchInconsistent(c, v)
      PROVE  /\ UNCHANGED <<registry, children>>
             /\ pc' \in {"register_taken", "advance", "tag_alternative", "inconsistent"}
  BY <1>1 DEF BranchNew, BranchKnown, BranchInconsistent, Evaluates, AfterLookup
<1>2. ASSUME NEW i \in DOMAIN pool, Solve(i)
      PROVE  UNCHANGED <<registry, children>> /\ pc' = "idle"
  BY <1>2 DEF Solve
<1>3. CASE MarkTaken
  BY <1>3 DEF MarkTaken
<1>4. CASE Reset \/ Enqueue \/ TagAlternative \/ TagTaken \/ Advance \/ Deliver
           \/ Interrupt \/ Swallow \/ Finish \/ ClearPool
  BY <1>4 DEF Reset, Enqueue, TagAlternative, TagTaken, Advance, Deliver, Interrupt,
              Swallow, Finish, ClearPool, AfterLookup
<1> QED
  BY <1>1, <1>2, <1>3, <1>4 DEF Next

LEMMA InitShape == Init => ShapeInv
<1> SUFFICES ASSUME Init PROVE ShapeInv
  OBVIOUS
<1>1. Len(registry) = 1 /\ registry[1].parent = 0 /\ children[1] = <<>> /\ pc = "idle"
  BY DEF Init
<1> QED
  BY <1>1 DEF ShapeInv, NodesAgree, LinksAgree, AboutToLink, ChildrenOf, Ids, Root

LEMMA ShapeStep ==
  ASSUME TypeOK, LocalsOK, TypeOK', ShapeInv, [Next]_vars
  PROVE  ShapeInv'
<1> DEFINE new == Len(registry) + 1
<1>1. /\ Len(registry) \in Nat /\ Root \in Ids /\ current \in Ids
      /\ \A n \in Ids : n \in Nat /\ n # new
  BY DEF TypeOK, Ids, Root
<1>2. ASSUME NEW e \in Exprs, NEW v \in BOOLEAN, Register(e, v)
      PROVE  /\ registry'[Root].parent = 0 /\ NodesAgree' /\ LinksAgree'
             /\ new # Root /\ registry'[new].parent = current
  <2>1. /\ Ids' = Ids \cup {new}
        /\ \A n \in Ids : registry'[n] = registry[n]
        /\ registry'[new] = [parent |-> current, expr |-> e, value |-> v,
                              depth |-> registry[current].depth + 1]
    <3>1. Len(registry') = new
      BY <1>2, RegisterExtends
    <3>2. Ids' = Ids \cup {new}
      BY <1>1, <3>1 DEF Ids
    <3> QED BY <1>2, <3>2, RegisterExtends
  <2>2. NodesAgree'
    <3> SUFFICES ASSUME NEW n \in Ids' \ {Root}
                 PROVE  /\ registry'[n].parent \in 1 .. n - 1
                        /\ registry'[n].depth = registry'[registry'[n].parent].depth + 1
      BY DEF NodesAgree, Root
    <3>1. CASE n \in Ids
      <4>1. registry[n].parent \in 1 .. n - 1 /\ registry[n].parent \in Ids
        BY <3>1 DEF ShapeInv, NodesAgree, Ids
      <4> QED BY <2>1, <3>1, <4>1 DEF ShapeInv, NodesAgree
    <3>2. CASE n = new
      BY <1>1, <2>1, <3>2 DEF Ids
    <3> QED BY <2>1, <3>1, <3>2
  <2>3. LinksAgree'
    <3>1. /\ \A n \in Ids : ChildrenOf(n)' = ChildrenOf(n)
          /\ \A n : n = new => ChildrenOf(n)' = {}
      BY <1>2, RegisterKeepsLinks
    <3>2. \A n \in Ids : ChildrenOf(n) \subseteq Ids
      BY ChildrenAreIds
    <3>3. ASSUME NEW n \in Ids', NEW c \in ChildrenOf(n)'
          PROVE  c # Root /\ registry'[c].parent = n
      <4>1. n \in Ids /\ c \in ChildrenOf(n) /\ c \in Ids
        BY <2>1, <3>1, <3>2, <3>3
      <4> QED BY <2>1, <4>1 DEF ShapeInv, LinksAgree
    <3> QED BY <3>3 DEF LinksAgree, Root
  <2> QED BY <1>1, <2>1, <2>2, <2>3 DEF ShapeInv, Root
<1>3. ASSUME NEW id \in Ids, Link(id), UNCHANGED registry,
             id # Root, registry[id].parent = current
      PROVE  registry'[Root].parent = 0 /\ NodesAgree' /\ LinksAgree'
  <2>1. Ids' = Ids
    BY <1>3 DEF Ids
  <2>2. NodesAgree' /\ registry'[Root].parent = 0
    BY <1>3, <2>1 DEF ShapeInv, NodesAgree, Root
  <2>3. \A n \in Ids : ChildrenOf(n)' = IF n = current THEN ChildrenOf(n) \cup {id}
                                         ELSE ChildrenOf(n)
    BY <1>3, LinkAdds
  <2>4. ASSUME NEW n \in Ids', NEW c \in ChildrenOf(n)'
        PROVE  c # Root /\ registry'[c].parent = n
    <3>1. c \in ChildrenOf(n) \/ (n = current /\ c = id)
      BY <2>1, <2>3, <2>4
    <3> QED BY <1>3, <2>1, <3>1 DEF ShapeInv, LinksAgree
  <2> QED BY <2>2, <2>4 DEF LinksAgree, Root
<1>4. CASE RegisterTaken
  <2>1. branch.expr \in Exprs /\ branch.value \in BOOLEAN
    BY <1>4 DEF TypeOK, LocalsOK, RegisterTaken, Branching, Creating
  <2>2. AboutToLink'
    <3>1. pc' = "link_taken" /\ branch'.taken = new /\ current' = current
      BY <1>4 DEF RegisterTaken, TypeOK
    <3> QED BY <1>2, <1>4, <2>1, <3>1 DEF AboutToLink, RegisterTaken, Root
  <2> QED BY <1>2, <1>4, <2>1, <2>2 DEF RegisterTaken, ShapeInv, Root
<1>5. CASE RegisterAlternative
  <2>1. branch.expr \in Exprs /\ (~branch.value) \in BOOLEAN
    BY <1>5 DEF TypeOK, LocalsOK, RegisterAlternative, Branching, Creating
  <2>2. AboutToLink'
    <3>1. pc' = "link_alternative" /\ branch'.alternative = new /\ current' = current
      BY <1>5 DEF RegisterAlternative, TypeOK
    <3> QED BY <1>2, <1>5, <2>1, <3>1 DEF AboutToLink, RegisterAlternative, Root
  <2> QED BY <1>2, <1>5, <2>1, <2>2 DEF RegisterAlternative, ShapeInv, Root
<1>6. CASE LinkTaken
  <2>1. branch.taken \in Ids /\ branch.taken # Root /\ registry[branch.taken].parent = current
    BY <1>6 DEF LinkTaken, LocalsOK, TakenPcs, ShapeInv, AboutToLink
  <2>2. Link(branch.taken) /\ UNCHANGED registry /\ pc' = "mark_taken"
    BY <1>6 DEF LinkTaken
  <2>3. AboutToLink'
    BY <2>2 DEF AboutToLink
  <2> QED BY <1>3, <2>1, <2>2, <2>3 DEF ShapeInv, Root
<1>7. CASE LinkAlternative
  <2>1. /\ branch.alternative \in Ids /\ branch.alternative # Root
        /\ registry[branch.alternative].parent = current
    BY <1>7 DEF LinkAlternative, LocalsOK, AlternativePcs, ShapeInv, AboutToLink
  <2>2. Link(branch.alternative) /\ UNCHANGED registry /\ pc' = "enqueue"
    BY <1>7 DEF LinkAlternative
  <2>3. AboutToLink'
    BY <2>2 DEF AboutToLink
  <2> QED BY <1>3, <2>1, <2>2, <2>3 DEF ShapeInv, Root
<1>8. CASE UNCHANGED <<registry, children>> /\ pc' \notin {"link_taken", "link_alternative"}
  <2>1. Ids' = Ids /\ \A n \in Ids : ChildrenOf(n)' = ChildrenOf(n)
    BY <1>8 DEF Ids, ChildrenOf
  <2> QED BY <1>8, <2>1 DEF ShapeInv, NodesAgree, LinksAgree, AboutToLink, Root
<1>9. CASE UNCHANGED vars
  <2>1. Ids' = Ids /\ \A n \in Ids : ChildrenOf(n)' = ChildrenOf(n)
    BY <1>9 DEF vars, Ids, ChildrenOf
  <2> QED BY <1>9, <2>1 DEF vars, ShapeInv, NodesAgree, LinksAgree, AboutToLink, Root
<1> QED
  BY <1>4, <1>5, <1>6, <1>7, <1>8, <1>9, OtherSteps

(* TreeShape is an invariant, with interrupts and rewrites: the walk from  *)
(* any node along parent_id visits ever older nodes and ends at the root,  *)
(* and children_ids, parent_id and depth never contradict each other.      *)
THEOREM TreeShapeHolds == Spec => []TreeShape
<1> DEFINE IInv == TypeOK /\ LocalsOK /\ ShapeInv
<1>1. Init => IInv
  BY InitTypes, InitShape
<1>2. IInv /\ [Next]_vars => IInv'
  BY TypeStep, ShapeStep
<1>3. IInv => TreeShape
  <2> SUFFICES ASSUME IInv PROVE TreeShape
    OBVIOUS
  <2>1. \A n \in Ids : ChildrenOf(n) \subseteq Ids
    BY ChildrenAreIds
  <2> QED BY <2>1 DEF ShapeInv, NodesAgree, LinksAgree, TreeShape
<1> QED
  BY <1>1, <1>2, <1>3, PTL DEF Spec

-----------------------------------------------------------------------------
(* Soundness of the pool.                                                  *)
Waiting(a) ==
    /\ registry[a].parent # 0
    /\ a \in ChildrenOf(registry[a].parent)
    /\ \E t \in ChildrenOf(registry[a].parent) \cap processed :
          /\ registry[t].expr = registry[a].expr
          /\ registry[t].value = ~registry[a].value

(* What add_branch has achieved for its two nodes at each of its lines. *)
TakenAchieved ==
    /\ pc \in Creating \ {"register_taken"} =>
          /\ registry[branch.taken].expr = branch.expr
          /\ registry[branch.taken].value = branch.value
    /\ pc \in {"link_taken", "mark_taken"} => branch.taken \notin Pending
    /\ pc \in Creating \ {"register_taken", "link_taken"} =>
          branch.taken \in ChildrenOf(current)
    /\ pc \in {"register_alternative", "link_alternative", "enqueue"} =>
          branch.taken \in processed

AlternativeAchieved ==
    /\ pc \in {"link_alternative", "enqueue"} =>
          /\ registry[branch.alternative].expr = branch.expr
          /\ registry[branch.alternative].value = ~branch.value
          /\ branch.alternative \notin processed \cup Pending
    /\ pc = "enqueue" => branch.alternative \in ChildrenOf(current)

Distinct(s) == \A i, j \in DOMAIN s : i # j => s[i] # s[j]

PoolInv ==
    /\ Distinct(pool)
    /\ \A a \in Pending : a \notin processed /\ Waiting(a)
    /\ TakenAchieved
    /\ AlternativeAchieved

(* Removing the i-th element shifts the later ones down by one. *)
LEMMA RemovedAt ==
  ASSUME NEW S, NEW s \in Seq(S), NEW i \in DOMAIN s
  PROVE  LET r == SubSeq(s, 1, i - 1) \o SubSeq(s, i + 1, Len(s))
         IN  /\ DOMAIN r = 1 .. Len(s) - 1
             /\ \A j \in 1 .. Len(s) - 1 : r[j] = IF j < i THEN s[j] ELSE s[j + 1]
<1> DEFINE p == SubSeq(s, 1, i - 1)
           q == SubSeq(s, i + 1, Len(s))
<1>1. DOMAIN s = 1 .. Len(s) /\ Len(s) \in Nat /\ i \in 1 .. Len(s)
  BY LenProperties
<1>2. p \in Seq(S) /\ Len(p) = i - 1 /\ \A j \in 1 .. i - 1 : p[j] = s[j]
  BY <1>1, SubSeqProperties, ElementOfSeq
<1>3. q \in Seq(S) /\ Len(q) = Len(s) - i /\ \A j \in 1 .. Len(s) - i : q[j] = s[i + j]
  BY <1>1, SubSeqProperties, ElementOfSeq
<1>4. /\ DOMAIN (p \o q) = 1 .. Len(s) - 1
      /\ \A j \in 1 .. Len(s) - 1 : (p \o q)[j] = IF j < i THEN s[j] ELSE s[j + 1]
  <2> HIDE DEF p, q
  <2>1. /\ p \o q \in Seq(S) /\ Len(p \o q) = Len(s) - 1
        /\ \A j \in 1 .. Len(s) - 1 :
              (p \o q)[j] = IF j <= i - 1 THEN p[j] ELSE q[j - (i - 1)]
    <3>1. Len(p) + Len(q) = Len(s) - 1
      BY <1>1, <1>2, <1>3
    <3>2. /\ p \o q \in Seq(S) /\ Len(p \o q) = Len(p) + Len(q)
          /\ \A j \in 1 .. Len(p) + Len(q) :
                (p \o q)[j] = IF j <= Len(p) THEN p[j] ELSE q[j - Len(p)]
      BY <1>2, <1>3, ConcatProperties
    <3>3. Len(p) = i - 1
      BY <1>2
    <3> QED BY <3>1, <3>2, <3>3
  <2>2. DOMAIN (p \o q) = 1 .. Len(s) - 1
    BY <2>1, LenProperties
  <2>3. ASSUME NEW j \in 1 .. Len(s) - 1 PROVE (p \o q)[j] = IF j < i THEN s[j] ELSE s[j + 1]
    <3>1. CASE j < i
      BY <1>1, <1>2, <2>1, <3>1
    <3>2. CASE ~(j < i)
      <4>1. (p \o q)[j] = q[j - (i - 1)]
        BY <1>1, <2>1, <3>2
      <4>2. j - (i - 1) \in 1 .. Len(s) - i /\ i + (j - (i - 1)) = j + 1
        BY <1>1, <3>2
      <4> QED BY <1>3, <4>1, <4>2, <3>2
    <3> QED BY <3>1, <3>2
  <2> QED BY <2>2, <2>3
<1> QED
  BY <1>4

(* ... and keeps all the others, apart if they were apart. *)
LEMMA RemoveAtKeepsRest ==
  ASSUME NEW S, NEW s \in Seq(S), NEW i \in DOMAIN s
  PROVE  LET r == SubSeq(s, 1, i - 1) \o SubSeq(s, i + 1, Len(s))
         IN  /\ Distinct(s) => Distinct(r)
             /\ \A j \in DOMAIN r : \E k \in DOMAIN s : k # i /\ r[j] = s[k]
             /\ \A k \in DOMAIN s : k # i => \E j \in DOMAIN r : r[j] = s[k]
<1> DEFINE r == SubSeq(s, 1, i - 1) \o SubSeq(s, i + 1, Len(s))
           from(j) == IF j < i THEN j ELSE j + 1
<1>1. DOMAIN s = 1 .. Len(s) /\ Len(s) \in Nat /\ i \in 1 .. Len(s)
  BY LenProperties
<1>2. DOMAIN r = 1 .. Len(s) - 1 /\ \A j \in 1 .. Len(s) - 1 : r[j] = s[from(j)]
  <2>1. /\ DOMAIN r = 1 .. Len(s) - 1
        /\ \A j \in 1 .. Len(s) - 1 : r[j] = IF j < i THEN s[j] ELSE s[j + 1]
    BY RemovedAt
  <2> HIDE DEF r
  <2> QED BY <2>1
<1>3. \A j \in 1 .. Len(s) - 1 : from(j) \in DOMAIN s /\ from(j) # i
  BY <1>1
<1>4. \A j, k \in 1 .. Len(s) - 1 : j # k => from(j) # from(k)
  BY <1>1
<1>5. ASSUME NEW k \in DOMAIN s, k # i
      PROVE  \E j \in 1 .. Len(s) - 1 : from(j) = k
  <2>1. CASE k < i
    BY <1>1, <2>1
  <2>2. CASE k > i
    <3>1. k - 1 \in 1 .. Len(s) - 1 /\ from(k - 1) = k
      BY <1>1, <2>2
    <3> QED BY <3>1
  <2> QED BY <1>1, <1>5, <2>1, <2>2
<1> HIDE DEF r, from
<1>6. Distinct(s) => Distinct(r)
  BY <1>2, <1>3, <1>4 DEF Distinct
<1>7. \A j \in DOMAIN r : \E k \in DOMAIN s : k # i /\ r[j] = s[k]
  BY <1>2, <1>3
<1>8. \A k \in DOMAIN s : k # i => \E j \in DOMAIN r : r[j] = s[k]
  BY <1>2, <1>5
<1> QED
  BY <1>6, <1>7, <1>8 DEF r

(* No step takes anything back from the tree. *)
LEMMA TreeGrows ==
  ASSUME TypeOK, LocalsOK, [Next]_vars
  PROVE  /\ Ids \subseteq Ids'
         /\ \A n \in Ids : registry'[n] = registry[n] /\ ChildrenOf(n) \subseteq ChildrenOf(n)'
         /\ processed \subseteq processed'
<1>1. CASE RegisterTaken
  <2>1. branch.expr \in Exprs /\ branch.value \in BOOLEAN
    BY <1>1 DEF TypeOK, LocalsOK, RegisterTaken, Branching, Creating
  <2> QED BY <1>1, <2>1, RegisterExtends, RegisterKeepsLinks DEF RegisterTaken
<1>2. CASE RegisterAlternative
  <2>1. branch.expr \in Exprs /\ (~branch.value) \in BOOLEAN
    BY <1>2 DEF TypeOK, LocalsOK, RegisterAlternative, Branching, Creating
  <2> QED BY <1>2, <2>1, RegisterExtends, RegisterKeepsLinks DEF RegisterAlternative
<1>3. CASE LinkTaken
  <2>1. branch.taken \in Ids
    BY <1>3 DEF LinkTaken, LocalsOK, TakenPcs
  <2> QED BY <1>3, <2>1, LinkAdds DEF LinkTaken, Ids
<1>4. CASE LinkAlternative
  <2>1. branch.alternative \in Ids
    BY <1>4 DEF LinkAlternative, LocalsOK, AlternativePcs
  <2> QED BY <1>4, <2>1, LinkAdds DEF LinkAlternative, Ids
<1>5. CASE UNCHANGED <<registry, children>>
  <2>1. /\ Ids = Ids'
        /\ \A n \in Ids : registry'[n] = registry[n] /\ ChildrenOf(n) = ChildrenOf(n)'
    BY <1>5 DEF Ids, ChildrenOf
  <2>2. processed \subseteq processed'
    <3>1. ASSUME NEW c \in Conditions, NEW v \in BOOLEAN,
                 BranchNew(c, v) \/ BranchKnown(c, v) \/ BranchInconsistent(c, v)
          PROVE  processed \subseteq processed'
      BY <3>1 DEF BranchNew, BranchKnown, BranchInconsistent, Evaluates
    <3>2. ASSUME NEW i \in DOMAIN pool, Solve(i) PROVE processed \subseteq processed'
      BY <3>2 DEF Solve
    <3>3. CASE MarkTaken
      BY <3>3 DEF MarkTaken
    <3>4. CASE Reset \/ Enqueue \/ TagAlternative \/ TagTaken \/ Advance \/ Deliver
               \/ Interrupt \/ Swallow \/ Finish \/ ClearPool
      BY <3>4 DEF Reset, Enqueue, TagAlternative, TagTaken, Advance, Deliver, Interrupt,
                  Swallow, Finish, ClearPool, tree
    <3>5. CASE RegisterTaken \/ RegisterAlternative \/ LinkTaken \/ LinkAlternative
      BY <3>5 DEF RegisterTaken, RegisterAlternative, LinkTaken, LinkAlternative
    <3> QED BY <3>1, <3>2, <3>3, <3>4, <3>5 DEF Next, vars
  <2> QED BY <2>1, <2>2
<1> QED
  BY <1>1, <1>2, <1>3, <1>4, <1>5, OtherSteps DEF vars

(* A constraint that waits keeps waiting soundly. *)
LEMMA WaitingStable ==
  ASSUME TypeOK, LocalsOK, ShapeInv, [Next]_vars, NEW a \in Ids, Waiting(a)
  PROVE  Waiting(a)'
<1> DEFINE par == registry[a].parent
<1>1. a # Root /\ par \in Ids
  BY DEF Waiting, ShapeInv, NodesAgree, Ids
<1>2. PICK t \in ChildrenOf(par) \cap processed :
         registry[t].expr = registry[a].expr /\ registry[t].value = ~registry[a].value
  BY DEF Waiting
<1>3. t \in Ids
  BY <1>1, <1>2, ChildrenAreIds
<1>4. /\ registry'[a] = registry[a] /\ registry'[t] = registry[t]
      /\ ChildrenOf(par) \subseteq ChildrenOf(par)' /\ processed \subseteq processed'
  BY <1>1, <1>3, TreeGrows
<1> QED
  BY <1>1, <1>2, <1>4 DEF Waiting

LEMMA InitPool == Init => PoolInv
  BY DEF Init, PoolInv, Distinct, Pending, TakenAchieved, AlternativeAchieved, Creating

(* The pool after a step in which it is unchanged and nothing waiting is   *)
(* marked processed.                                                       *)
LEMMA PoolKept ==
  ASSUME TypeOK, LocalsOK, ShapeInv, PoolInv, [Next]_vars, UNCHANGED pool,
         \A a \in Pending : a \notin processed'
  PROVE  Distinct(pool') /\ \A a \in Pending' : a \notin processed' /\ Waiting(a)'
<1>1. Pending' = Pending /\ Pending \subseteq Ids
  BY ElementOfSeq DEF Pending, TypeOK
<1> QED
  BY <1>1, WaitingStable DEF PoolInv

(* Siblings.  optimize() hides a rewritten node from find_child, so "not   *)
(* found" does not by itself mean "no such child".  What saves the tree is *)
(* that only constraints taken from the pool are rewritten: each branch    *)
(* keeps one child that is not and will never be (an anchor), and          *)
(* find_child sees that one.                                               *)
Anchored(n, e) ==
    \E t \in ChildrenOf(n) :
        /\ registry[t].expr = e
        /\ t \notin rewritten \cup Pending
        /\ ~(pc = "enqueue" /\ t = branch.alternative)

AnchorsHold ==
    \A n \in Ids : \A c \in ChildrenOf(n) : Anchored(n, registry[c].expr)

(* What the two nodes being made have no sibling equal to. *)
RoomForBranch ==
    /\ pc \in Creating \ {"register_taken"} => branch.taken \notin rewritten
    /\ pc \in {"register_taken", "link_taken"} =>
          \A c \in ChildrenOf(current) : registry[c].expr # branch.expr
    /\ pc \in {"mark_taken", "register_alternative", "link_alternative"} =>
          \A c \in ChildrenOf(current) :
              registry[c].expr = branch.expr => registry[c].value # ~branch.value

SiblingInv == SiblingsDistinct /\ AnchorsHold /\ RoomForBranch

(* One linked node for each side of a condition. *)
LEMMA OneNodePerSide ==
  ASSUME TypeOK, SiblingsDistinct, NEW n \in Ids,
         NEW a \in ChildrenOf(n), NEW b \in ChildrenOf(n),
         registry[a].expr = registry[b].expr, registry[a].value = registry[b].value
  PROVE  a = b
<1>1. PICK i \in DOMAIN children[n] : a = children[n][i]
  BY DEF ChildrenOf
<1>2. PICK j \in DOMAIN children[n] : b = children[n][j]
  BY DEF ChildrenOf
<1>3. i = j
  BY <1>1, <1>2, Zenon DEF SiblingsDistinct
<1> QED
  BY <1>1, <1>2, <1>3

LEMMA ValuesAreBoolean ==
  ASSUME TypeOK, NEW n \in Ids
  PROVE  registry[n].value \in BOOLEAN
<1>1. registry[n] \in [parent : Nat, expr : Exprs \cup {NoExpr},
                       value : BOOLEAN, depth : Nat]
  BY ElementOfSeq DEF TypeOK, Ids
<1> QED
  BY <1>1

(* The child that a refused branch finds is not a waiting one: the other   *)
(* side is linked and hidden by a rewrite or not linked at all, and in     *)
(* both cases the one found is the anchor of the branch.                   *)
LEMMA FoundIsAnchor ==
  ASSUME TypeOK, ShapeInv, PoolInv, SiblingInv,
         NEW c \in Conditions, NEW v \in BOOLEAN, BranchInconsistent(c, v)
  PROVE  \E f \in ChildrenOf(current) :
            /\ processed' = processed \cup {f}
            /\ registry[f].expr = c.expr
            /\ f \notin Pending /\ f \notin rewritten
            /\ \A t \in ChildrenOf(current) :
                  registry[t].expr = c.expr /\ t \notin rewritten => t = f
<1>1. /\ current \in Ids /\ ChildrenOf(current) \subseteq Ids /\ pc = "run"
      /\ \A t \in ChildrenOf(current) : registry[t].value \in BOOLEAN
  BY ChildrenAreIds, ValuesAreBoolean DEF TypeOK, BranchInconsistent, Evaluates
<1>2. PICK w \in BOOLEAN : /\ FindChild(current, c.expr, w) # 0
                           /\ FindChild(current, c.expr, ~w) = 0
                           /\ processed' = processed \cup {FindChild(current, c.expr, w)}
  <2>1. /\ branch'.taken = FindChild(current, c.expr, v)
        /\ branch'.alternative = FindChild(current, c.expr, ~v)
        /\ (branch'.taken = 0) # (branch'.alternative = 0)
        /\ processed' = processed \cup ({branch'.taken, branch'.alternative} \ {0})
    BY DEF BranchInconsistent, Evaluates
  <2>2. CASE branch'.taken # 0
    BY <2>1, <2>2
  <2>3. CASE branch'.taken = 0
    <3>1. (~v) \in BOOLEAN /\ ~~v = v
      OBVIOUS
    <3> QED BY <2>1, <2>3, <3>1
  <2> QED BY <2>2, <2>3
<1> DEFINE f == FindChild(current, c.expr, w)
<1>3. /\ f \in ChildrenOf(current) /\ registry[f].expr = c.expr
      /\ registry[f].value = w /\ f \notin rewritten
  BY <1>1, <1>2, FindChildFinds DEF Matches, ChildrenOf
<1>4. ASSUME NEW t \in ChildrenOf(current), registry[t].expr = c.expr, t \notin rewritten
      PROVE  t = f
  <2>1. PICK i \in DOMAIN children[current] : t = children[current][i]
    BY DEF ChildrenOf
  <2>2. ~Matches(t, c.expr, ~w)
    BY <1>1, <1>2, <2>1, FindChildFinds
  <2>3. registry[t].value = registry[f].value
    BY <1>1, <1>3, <1>4, <2>2 DEF Matches
  <2> HIDE DEF f
  <2> QED BY <1>1, <1>3, <1>4, <2>3, OneNodePerSide DEF SiblingInv
<1>5. f \notin Pending
  <2>1. PICK t \in ChildrenOf(current) :
           registry[t].expr = c.expr /\ t \notin rewritten \cup Pending
    BY <1>1, <1>3 DEF SiblingInv, AnchorsHold, Anchored
  <2> QED BY <1>4, <2>1
<1> QED
  <2> HIDE DEF f
  <2> QED BY <1>2, <1>3, <1>4, <1>5 DEF f

LEMMA PoolStep ==
  ASSUME TypeOK, LocalsOK, ShapeInv, PoolInv, SiblingInv, [Next]_vars
  PROVE  PoolInv'
<1> USE DEF PoolInv
<1>1. Pending \subseteq Ids /\ processed \subseteq Ids /\ current \in Ids
  BY ElementOfSeq DEF Pending, TypeOK
<1>2. ASSUME UNCHANGED <<pool, processed>>
      PROVE  Distinct(pool') /\ \A a \in Pending' : a \notin processed' /\ Waiting(a)'
  BY <1>2, PoolKept
<1>3. CASE RegisterTaken
  <2>1. branch.expr \in Exprs /\ branch.value \in BOOLEAN
    BY <1>3 DEF TypeOK, LocalsOK, RegisterTaken, Branching, Creating
  <2>2. /\ pc' = "link_taken" /\ branch'.taken = Len(registry) + 1
        /\ branch'.expr = branch.expr /\ branch'.value = branch.value
        /\ UNCHANGED <<pool, processed>>
    BY <1>3 DEF RegisterTaken, TypeOK
  <2>3. registry'[Len(registry) + 1] = [parent |-> current, expr |-> branch.expr,
               value |-> branch.value, depth |-> registry[current].depth + 1]
    BY <1>3, <2>1, RegisterExtends DEF RegisterTaken
  <2>4. branch'.taken \notin Pending' /\ Pending' = Pending
    BY <1>1, <2>2 DEF Ids, Pending, TypeOK
  <2>5. TakenAchieved'
    BY <2>2, <2>3, <2>4 DEF TakenAchieved, Creating
  <2>6. AlternativeAchieved'
    BY <2>2 DEF AlternativeAchieved
  <2> QED BY <1>2, <2>2, <2>5, <2>6
<1>4. CASE LinkTaken
  <2>1. branch.taken \in Ids
    BY <1>4 DEF LinkTaken, LocalsOK, TakenPcs
  <2>2. /\ pc = "link_taken" /\ pc' = "mark_taken"
        /\ UNCHANGED <<registry, pool, processed, branch, current>>
    BY <1>4 DEF LinkTaken
  <2>3. branch.taken \in ChildrenOf(current)'
    BY <1>1, <1>4, <2>1, <2>2, LinkAdds DEF LinkTaken
  <2>4. TakenAchieved'
    BY <2>2, <2>3 DEF TakenAchieved, Creating, Pending
  <2>5. AlternativeAchieved'
    BY <2>2 DEF AlternativeAchieved
  <2> QED BY <1>2, <2>2, <2>4, <2>5
<1>5. CASE MarkTaken
  <2>1. /\ pc = "mark_taken" /\ pc' = "register_alternative"
        /\ processed' = processed \cup {branch.taken}
        /\ UNCHANGED <<registry, children, pool, branch, current>>
    BY <1>5 DEF MarkTaken
  <2>2. branch.taken \notin Pending
    BY <2>1 DEF TakenAchieved
  <2>3. \A a \in Pending : a \notin processed'
    BY <2>1, <2>2
  <2>4. TakenAchieved'
    BY <2>1 DEF TakenAchieved, Creating, ChildrenOf
  <2>5. AlternativeAchieved'
    BY <2>1 DEF AlternativeAchieved
  <2> QED BY <2>1, <2>3, <2>4, <2>5, PoolKept
<1>6. CASE RegisterAlternative
  <2>1. branch.expr \in Exprs /\ (~branch.value) \in BOOLEAN /\ branch.taken \in Ids
    BY <1>6 DEF TypeOK, LocalsOK, RegisterAlternative, Branching, Creating, TakenPcs
  <2>2. /\ pc = "register_alternative" /\ pc' = "link_alternative"
        /\ branch'.alternative = Len(registry) + 1 /\ branch'.taken = branch.taken
        /\ branch'.expr = branch.expr /\ branch'.value = branch.value
        /\ UNCHANGED <<pool, processed, current>>
    BY <1>6 DEF RegisterAlternative, TypeOK
  <2>3. /\ registry'[Len(registry) + 1] = [parent |-> current, expr |-> branch.expr,
               value |-> ~branch.value, depth |-> registry[current].depth + 1]
        /\ registry'[branch.taken] = registry[branch.taken]
    BY <1>6, <2>1, RegisterExtends DEF RegisterAlternative
  <2>4. branch'.alternative \notin Pending' \cup processed' /\ Pending' = Pending
    BY <1>1, <2>2 DEF Ids, Pending, TypeOK
  <2>5. ChildrenOf(current)' = ChildrenOf(current)
    <3>1. Register(branch.expr, ~branch.value)
      BY <1>6 DEF RegisterAlternative
    <3> QED BY <1>1, <2>1, <2>2, <3>1, RegisterKeepsLinks
  <2>6. TakenAchieved'
    BY <2>2, <2>3, <2>5 DEF TakenAchieved, Creating
  <2>7. AlternativeAchieved'
    BY <2>2, <2>3, <2>4 DEF AlternativeAchieved
  <2> QED BY <1>2, <2>2, <2>6, <2>7
<1>7. CASE LinkAlternative
  <2>1. branch.alternative \in Ids
    BY <1>7 DEF LinkAlternative, LocalsOK, AlternativePcs
  <2>2. /\ pc = "link_alternative" /\ pc' = "enqueue"
        /\ UNCHANGED <<registry, pool, processed, branch, current>>
    BY <1>7 DEF LinkAlternative
  <2>3. ChildrenOf(current)' = ChildrenOf(current) \cup {branch.alternative}
    BY <1>1, <1>7, <2>1, <2>2, LinkAdds DEF LinkAlternative
  <2>4. TakenAchieved'
    BY <2>2, <2>3 DEF TakenAchieved, Creating, Pending
  <2>5. AlternativeAchieved'
    BY <2>2, <2>3 DEF AlternativeAchieved, Pending
  <2> QED BY <1>2, <2>2, <2>4, <2>5
<1>8. CASE Enqueue
  <2> DEFINE a == branch.alternative
  <2>1. /\ pc = "enqueue" /\ pc' \in {"advance", "tag_alternative"}
        /\ pool' = Append(pool, a) /\ UNCHANGED <<registry, children, processed>>
    BY <1>8 DEF Enqueue, AfterLookup, tree
  <2>2. a \in Ids /\ a \notin processed /\ a \notin Pending
    BY <2>1 DEF LocalsOK, AlternativePcs, AlternativeAchieved
  <2>3. Waiting(a)
    <3>1. a \in ChildrenOf(current) /\ registry[a].parent = current
      BY <1>1, <2>1 DEF AlternativeAchieved, ShapeInv, LinksAgree
    <3>2. current # 0
      BY <1>1 DEF Ids
    <3>3. /\ branch.taken \in ChildrenOf(current) \cap processed
          /\ registry[branch.taken].expr = registry[a].expr
          /\ registry[branch.taken].value = branch.value
          /\ registry[a].value = ~branch.value
          /\ branch.value \in BOOLEAN
      BY <2>1 DEF TakenAchieved, AlternativeAchieved, Creating, TypeOK
    <3>4. registry[branch.taken].value = ~registry[a].value
      BY <3>3
    <3> QED BY <3>1, <3>2, <3>3, <3>4 DEF Waiting
  <2>4. /\ DOMAIN pool' = DOMAIN pool \cup {Len(pool) + 1}
        /\ \A i \in DOMAIN pool : pool'[i] = pool[i]
        /\ pool'[Len(pool) + 1] = a
    <3>1. pool \in Seq(Ids)
      BY DEF TypeOK
    <3> HIDE DEF a
    <3> QED BY <2>1, <2>2, <3>1, AppendProperties, LenProperties
  <2>5. Pending' = Pending \cup {a} /\ Distinct(pool')
    <3> HIDE DEF a
    <3> QED BY <2>2, <2>4 DEF Pending, Distinct
  <2>6. \A b \in Pending' : b \notin processed' /\ Waiting(b)'
    BY <1>1, <2>1, <2>2, <2>3, <2>5, WaitingStable
  <2>7. TakenAchieved' /\ AlternativeAchieved'
    BY <2>1 DEF TakenAchieved, AlternativeAchieved, Creating
  <2> QED BY <2>5, <2>6, <2>7
<1>9. ASSUME NEW i \in DOMAIN pool, Solve(i) PROVE PoolInv'
  <2>1. /\ pool' = SubSeq(pool, 1, i - 1) \o SubSeq(pool, i + 1, Len(pool))
        /\ processed' = processed \cup {pool[i]} /\ pc' = "idle"
    BY <1>9 DEF Solve
  <2>2. /\ Distinct(pool')
        /\ \A j \in DOMAIN pool' : \E k \in DOMAIN pool : k # i /\ pool'[j] = pool[k]
    <3>1. pool \in Seq(Ids) /\ Distinct(pool)
      BY DEF TypeOK
    <3> QED BY <2>1, <3>1, RemoveAtKeepsRest
  <2>3. \A a \in Pending' : a \in Pending /\ a # pool[i]
    BY <2>2 DEF Pending, Distinct
  <2>4. \A a \in Pending' : a \notin processed' /\ Waiting(a)'
    BY <1>1, <2>1, <2>3, WaitingStable
  <2>5. TakenAchieved' /\ AlternativeAchieved'
    BY <2>1 DEF TakenAchieved, AlternativeAchieved, Creating
  <2> QED BY <2>2, <2>4, <2>5
<1>10. CASE ClearPool
  <2>1. pool' = <<>> /\ pc' = "idle"
    BY <1>10 DEF ClearPool
  <2>2. Distinct(pool') /\ Pending' = {}
    BY <2>1 DEF Distinct, Pending
  <2>3. TakenAchieved' /\ AlternativeAchieved'
    BY <2>1 DEF TakenAchieved, AlternativeAchieved, Creating
  <2> QED BY <2>2, <2>3
<1>11. ASSUME UNCHANGED <<pool, processed>>,
              pc' \notin Creating \/ pc' = "register_taken"
       PROVE  PoolInv'
  <2>1. TakenAchieved' /\ AlternativeAchieved'
    BY <1>11 DEF TakenAchieved, AlternativeAchieved, Creating
  <2> QED BY <1>2, <1>11, <2>1
<1>12. CASE Reset \/ TagAlternative \/ TagTaken \/ Advance \/ Deliver
            \/ Interrupt \/ Swallow \/ Finish
  <2>1. UNCHANGED <<pool, processed>> /\ pc' \notin Creating
    BY <1>12 DEF Reset, TagAlternative, TagTaken, Advance, Deliver, Interrupt, Swallow,
                 Finish, tree, Creating
  <2> QED BY <1>11, <2>1
<1>13. ASSUME NEW c \in Conditions, NEW v \in BOOLEAN,
              BranchNew(c, v) \/ BranchKnown(c, v) \/ BranchInconsistent(c, v)
       PROVE  PoolInv'
  <2>1. UNCHANGED pool /\ (pc' \notin Creating \/ pc' = "register_taken")
    BY <1>13 DEF BranchNew, BranchKnown, BranchInconsistent, Evaluates, AfterLookup, Creating
  <2>2. CASE UNCHANGED processed
    BY <1>11, <2>1, <2>2
  <2>3. CASE BranchInconsistent(c, v)
    <3>1. \A a \in Pending : a \notin processed'
      BY <2>3, FoundIsAnchor
    <3>2. TakenAchieved' /\ AlternativeAchieved'
      BY <2>1 DEF TakenAchieved, AlternativeAchieved, Creating
    <3> QED BY <2>1, <3>1, <3>2, PoolKept
  <2> QED BY <1>13, <2>2, <2>3 DEF BranchNew, BranchKnown
<1>14. CASE UNCHANGED vars
  <2>1. UNCHANGED <<pool, processed>>
    BY <1>14 DEF vars
  <2>2. TakenAchieved' /\ AlternativeAchieved'
    BY <1>14 DEF TakenAchieved, AlternativeAchieved, Pending, ChildrenOf, vars
  <2> QED BY <1>2, <2>1, <2>2
<1> QED
  BY <1>3, <1>4, <1>5, <1>6, <1>7, <1>8, <1>9, <1>10, <1>12, <1>13, <1>14 DEF Next

-----------------------------------------------------------------------------
(* Pairing holds of an engine whose target is not interrupted inside       *)
(* add_branch, until its optimizer rewrites a node of the tree: either     *)
(* hides one side of a branch from find_child.                             *)
HasChild(n, e, v) == \E c \in ChildrenOf(n) : registry[c].expr = e /\ registry[c].value = v

HalfMade(n, e) ==
    /\ pc \in {"mark_taken", "register_alternative", "link_alternative"}
    /\ n = current /\ e = branch.expr

(* Every linked child but the one whose sibling is being made has it. *)
Paired ==
    /\ rewritten = {}
    /\ pc \notin {"inconsistent", "unwinding"}
    /\ \A n \in Ids, e \in Exprs, v \in BOOLEAN :
          HasChild(n, e, v) /\ ~HalfMade(n, e) => HasChild(n, e, ~v)

PairInv == rewritten = {} => Paired

(* Without rewritten nodes find_child decides membership. *)
LEMMA FindChildDecides ==
  ASSUME TypeOK, rewritten = {}, NEW n \in Ids, NEW e, NEW v
  PROVE  FindChild(n, e, v) # 0 <=> HasChild(n, e, v)
<1>1. (\E i \in DOMAIN children[n] : Matches(children[n][i], e, v)) <=> HasChild(n, e, v)
  BY DEF HasChild, ChildrenOf, Matches
<1> QED
  BY <1>1, FindChildFinds

LEMMA PairedStep ==
  ASSUME Interrupts = FALSE, rewritten' = {},
         TypeOK, LocalsOK, ShapeInv, PoolInv, Paired, [Next]_vars
  PROVE  Paired'
<1>1. current \in Ids /\ \A n \in Ids : ChildrenOf(n) \subseteq Ids
  BY ChildrenAreIds DEF TypeOK
<1>2. ASSUME NEW e \in Exprs, NEW v \in BOOLEAN, Register(e, v),
             pc' \notin {"inconsistent", "unwinding"}, rewritten' = rewritten,
             \A n \in Ids, x \in Exprs : HalfMade(n, x)' <=> HalfMade(n, x)
      PROVE  Paired'
  <2> DEFINE new == Len(registry) + 1
  <2>1. /\ Ids' = Ids \cup {new} /\ Ids \subseteq Ids'
        /\ \A n \in Ids : registry'[n] = registry[n]
    <3>1. Len(registry') = new
      BY <1>2, RegisterExtends
    <3>2. Ids' = Ids \cup {new}
      <4>1. Len(registry) \in Nat
        BY DEF TypeOK
      <4> QED BY <3>1, <4>1 DEF Ids
    <3> QED BY <1>2, <3>2, RegisterExtends
  <2>2. /\ \A n \in Ids : ChildrenOf(n)' = ChildrenOf(n)
        /\ \A n : n = new => ChildrenOf(n)' = {}
    BY <1>2, RegisterKeepsLinks
  <2>3. \A n \in Ids, x \in Exprs, u \in BOOLEAN : HasChild(n, x, u)' <=> HasChild(n, x, u)
    BY <1>1, <2>1, <2>2 DEF HasChild
  <2>4. \A n, x, u : n = new => ~HasChild(n, x, u)'
    BY <2>2 DEF HasChild
  <2> QED BY <1>2, <2>1, <2>3, <2>4 DEF Paired
<1>3. CASE RegisterTaken
  <2>1. branch.expr \in Exprs /\ branch.value \in BOOLEAN
    BY <1>3 DEF TypeOK, LocalsOK, RegisterTaken, Branching, Creating
  <2> QED BY <1>2, <1>3, <2>1 DEF RegisterTaken, HalfMade
<1>4. CASE RegisterAlternative
  <2>1. branch.expr \in Exprs /\ (~branch.value) \in BOOLEAN
    BY <1>4 DEF TypeOK, LocalsOK, RegisterAlternative, Branching, Creating
  <2>2. branch'.expr = branch.expr
    BY <1>4 DEF RegisterAlternative, TypeOK
  <2> QED BY <1>2, <1>4, <2>1, <2>2 DEF RegisterAlternative, HalfMade
<1>5. CASE LinkTaken
  <2>1. branch.taken \in Ids /\ Ids' = Ids
    BY <1>5 DEF LinkTaken, LocalsOK, TakenPcs, Ids
  <2>2. /\ pc = "link_taken" /\ pc' = "mark_taken" /\ rewritten' = rewritten
        /\ UNCHANGED <<registry, branch, current>>
        /\ registry[branch.taken].expr = branch.expr
    BY <1>5 DEF LinkTaken, PoolInv, TakenAchieved, Creating
  <2>3. \A n \in Ids : ChildrenOf(n)' = IF n = current THEN ChildrenOf(n) \cup {branch.taken}
                                         ELSE ChildrenOf(n)
    BY <1>5, <2>1, LinkAdds DEF LinkTaken
  <2>4. ASSUME NEW n \in Ids, NEW e \in Exprs, NEW v \in BOOLEAN,
               HasChild(n, e, v)', ~HalfMade(n, e)'
        PROVE  HasChild(n, e, ~v)'
    <3>1. HasChild(n, e, v) /\ ~HalfMade(n, e)
      BY <2>2, <2>3, <2>4 DEF HasChild, HalfMade
    <3>2. HasChild(n, e, ~v)
      BY <3>1 DEF Paired
    <3> QED BY <2>2, <2>3, <3>2 DEF HasChild
  <2> QED BY <2>1, <2>2, <2>4 DEF Paired
<1>6. CASE LinkAlternative
  <2>1. branch.alternative \in Ids /\ Ids' = Ids
    BY <1>6 DEF LinkAlternative, LocalsOK, AlternativePcs, Ids
  <2>2. /\ pc = "link_alternative" /\ pc' = "enqueue" /\ rewritten' = rewritten
        /\ UNCHANGED <<registry, branch, current>>
    BY <1>6 DEF LinkAlternative
  <2>3. \A n \in Ids : ChildrenOf(n)' = IF n = current
                                         THEN ChildrenOf(n) \cup {branch.alternative}
                                         ELSE ChildrenOf(n)
    BY <1>6, <2>1, LinkAdds DEF LinkAlternative
  <2>4. /\ HasChild(current, branch.expr, branch.value)
        /\ registry[branch.alternative].expr = branch.expr
        /\ registry[branch.alternative].value = ~branch.value
        /\ branch.value \in BOOLEAN
    BY <2>2 DEF PoolInv, TakenAchieved, AlternativeAchieved, HasChild, Creating, TypeOK
  <2>5. ASSUME NEW n \in Ids, NEW e \in Exprs, NEW v \in BOOLEAN, HasChild(n, e, v)'
        PROVE  HasChild(n, e, ~v)'
    <3>1. CASE n = current /\ e = branch.expr
      <4>1. \A u \in BOOLEAN : HasChild(n, e, u)'
        BY <1>1, <2>2, <2>3, <2>4, <3>1 DEF HasChild
      <4> QED BY <4>1
    <3>2. CASE ~(n = current /\ e = branch.expr)
      <4>1. HasChild(n, e, v) /\ ~HalfMade(n, e)
        BY <2>2, <2>3, <2>4, <2>5, <3>2 DEF HasChild, HalfMade
      <4>2. HasChild(n, e, ~v)
        BY <4>1 DEF Paired
      <4> QED BY <2>2, <2>3, <4>2 DEF HasChild
    <3> QED BY <3>1, <3>2
  <2> QED BY <2>1, <2>2, <2>5 DEF Paired
<1>7. ASSUME UNCHANGED <<registry, children, rewritten>>,
             pc' \notin {"inconsistent", "unwinding"},
             \A n, e : HalfMade(n, e) => HalfMade(n, e)'
      PROVE  Paired'
  <2>1. /\ Ids' = Ids
        /\ \A n, e, v : HasChild(n, e, v)' <=> HasChild(n, e, v)
    BY <1>7 DEF Ids, HasChild, ChildrenOf
  <2>2. ASSUME NEW n \in Ids, NEW e \in Exprs, NEW v \in BOOLEAN,
               HasChild(n, e, v)', ~HalfMade(n, e)'
        PROVE  HasChild(n, e, ~v)'
    BY <1>7, <2>1, <2>2 DEF Paired
  <2> QED BY <1>7, <2>1, <2>2 DEF Paired
<1>8. CASE MarkTaken
  BY <1>7, <1>8 DEF MarkTaken, HalfMade
<1>9. ASSUME NEW c \in Conditions, NEW v \in BOOLEAN,
             BranchNew(c, v) \/ BranchKnown(c, v) \/ BranchInconsistent(c, v)
      PROVE  Paired'
  <2>1. /\ pc = "run" /\ UNCHANGED <<registry, children, rewritten>>
        /\ branch'.taken = FindChild(current, c.expr, v)
        /\ branch'.alternative = FindChild(current, c.expr, ~v)
        /\ c.expr \in Exprs
    BY <1>9, ConditionsAssumption
       DEF BranchNew, BranchKnown, BranchInconsistent, Evaluates, tree
  <2>2. HasChild(current, c.expr, v) <=> HasChild(current, c.expr, ~v)
    <3>1. \A u \in BOOLEAN : HasChild(current, c.expr, u) => HasChild(current, c.expr, ~u)
      BY <1>1, <2>1 DEF Paired, HalfMade
    <3>2. (~v) \in BOOLEAN /\ ~~v = v
      OBVIOUS
    <3> QED BY <3>1, <3>2
  <2>3. branch'.taken # 0 <=> branch'.alternative # 0
    BY <1>1, <2>1, <2>2, FindChildDecides DEF Paired
  <2>4. ~BranchInconsistent(c, v)
    BY <2>3 DEF BranchInconsistent
  <2>5. pc' \in {"register_taken", "advance", "tag_alternative"}
    BY <1>9, <2>4 DEF BranchNew, BranchKnown, AfterLookup
  <2> QED BY <1>7, <2>1, <2>5 DEF HalfMade
<1>10. ASSUME NEW i \in DOMAIN pool, Solve(i) PROVE Paired'
  BY <1>7, <1>10 DEF Solve, HalfMade, Paired
<1>11. CASE Reset \/ Enqueue \/ TagAlternative \/ TagTaken \/ Advance \/ Deliver
            \/ Interrupt \/ Swallow \/ Finish \/ ClearPool
  <2>1. UNCHANGED <<registry, children, rewritten>>
    BY <1>11 DEF Reset, Enqueue, TagAlternative, TagTaken, Advance, Deliver, Interrupt,
                 Swallow, Finish, ClearPool, tree
  <2>2. /\ pc' \notin {"inconsistent", "unwinding"}
        /\ pc \notin {"mark_taken", "register_alternative", "link_alternative"}
    BY <1>11 DEF Reset, Enqueue, TagAlternative, TagTaken, Advance, Deliver, Interrupt,
                 Swallow, Finish, ClearPool, AfterLookup, Paired
  <2> QED BY <1>7, <2>1, <2>2 DEF HalfMade
<1>12. CASE UNCHANGED vars
  BY <1>7, <1>12 DEF vars, HalfMade, Paired
<1> QED
  BY <1>3, <1>4, <1>5, <1>6, <1>8, <1>9, <1>10, <1>11, <1>12 DEF Next

(* A rewritten node stays rewritten. *)
LEMMA RewrittenGrows ==
  ASSUME TypeOK, LocalsOK, [Next]_vars
  PROVE  rewritten \subseteq rewritten'
<1>1. ASSUME NEW c \in Conditions, NEW v \in BOOLEAN,
             BranchNew(c, v) \/ BranchKnown(c, v) \/ BranchInconsistent(c, v)
      PROVE  rewritten' = rewritten
  BY <1>1 DEF BranchNew, BranchKnown, BranchInconsistent, Evaluates, tree
<1>2. ASSUME NEW i \in DOMAIN pool, Solve(i) PROVE rewritten \subseteq rewritten'
  BY <1>2 DEF Solve
<1>3. CASE MarkTaken \/ RegisterTaken \/ RegisterAlternative \/ LinkTaken \/ LinkAlternative
  BY <1>3 DEF MarkTaken, RegisterTaken, RegisterAlternative, LinkTaken, LinkAlternative
<1>4. CASE Reset \/ Enqueue \/ TagAlternative \/ TagTaken \/ Advance \/ Deliver
           \/ Interrupt \/ Swallow \/ Finish \/ ClearPool
  BY <1>4 DEF Reset, Enqueue, TagAlternative, TagTaken, Advance, Deliver, Interrupt,
              Swallow, Finish, ClearPool, tree
<1> QED
  BY <1>1, <1>2, <1>3, <1>4 DEF Next, vars

(* What a step rewrites was waiting. *)
LEMMA RewrittenFromPool ==
  ASSUME [Next]_vars
  PROVE  rewritten' \subseteq rewritten \cup Pending
<1>1. ASSUME NEW c \in Conditions, NEW v \in BOOLEAN,
             BranchNew(c, v) \/ BranchKnown(c, v) \/ BranchInconsistent(c, v)
      PROVE  rewritten' = rewritten
  BY <1>1 DEF BranchNew, BranchKnown, BranchInconsistent, Evaluates
<1>2. ASSUME NEW i \in DOMAIN pool, Solve(i)
      PROVE  rewritten' \subseteq rewritten \cup Pending
  BY <1>2 DEF Solve, Pending
<1>3. CASE MarkTaken \/ RegisterTaken \/ RegisterAlternative \/ LinkTaken \/ LinkAlternative
  BY <1>3 DEF MarkTaken, RegisterTaken, RegisterAlternative, LinkTaken, LinkAlternative
<1>4. CASE Reset \/ Enqueue \/ TagAlternative \/ TagTaken \/ Advance \/ Deliver
           \/ Interrupt \/ Swallow \/ Finish \/ ClearPool
  BY <1>4 DEF Reset, Enqueue, TagAlternative, TagTaken, Advance, Deliver, Interrupt,
              Swallow, Finish, ClearPool, tree
<1> QED
  BY <1>1, <1>2, <1>3, <1>4 DEF Next, vars

LEMMA PairStep ==
  ASSUME Interrupts = FALSE,
         TypeOK, LocalsOK, ShapeInv, PoolInv, PairInv, [Next]_vars
  PROVE  PairInv'
<1> SUFFICES ASSUME rewritten' = {} PROVE Paired'
  BY DEF PairInv
<1>1. rewritten = {}
  BY RewrittenGrows
<1> QED
  BY <1>1, PairedStep DEF PairInv

LEMMA InitPair == Init => PairInv
<1> SUFFICES ASSUME Init PROVE PairInv
  OBVIOUS
<1>1. Len(registry) = 1 /\ children[1] = <<>> /\ pc = "idle" /\ rewritten = {}
  BY DEF Init
<1> QED
  BY <1>1 DEF PairInv, Paired, HasChild, ChildrenOf, Ids

-----------------------------------------------------------------------------
(* What becomes of the two sides of a branch.                              *)
Accounted == processed \cup Pending \cup dropped

AccountInv ==
    /\ pc # "unwinding"
    /\ \A n \in Ids \ {Root} :
          \/ n \in Accounted
          \/ pc \in {"link_taken", "mark_taken"} /\ n = branch.taken
          \/ pc \in {"link_alternative", "enqueue"} /\ n = branch.alternative

LEMMA AccountStep ==
  ASSUME Interrupts = FALSE, TypeOK, LocalsOK, AccountInv, [Next]_vars
  PROVE  AccountInv'
<1> USE DEF AccountInv, Accounted
<1>1. pool \in Seq(Ids) /\ Len(registry) \in Nat
  BY DEF TypeOK
<1>2. CASE RegisterTaken
  <2>1. branch.expr \in Exprs /\ branch.value \in BOOLEAN
    BY <1>2 DEF TypeOK, LocalsOK, RegisterTaken, Branching, Creating
  <2>2. Ids' = Ids \cup {Len(registry) + 1}
    <3>1. Len(registry') = Len(registry) + 1
      BY <1>2, <2>1, RegisterExtends DEF RegisterTaken
    <3> QED BY <1>1, <3>1 DEF Ids
  <2>3. /\ pc = "register_taken" /\ pc' = "link_taken"
        /\ branch'.taken = Len(registry) + 1
        /\ UNCHANGED <<processed, pool, dropped>>
    BY <1>2 DEF RegisterTaken, TypeOK
  <2> QED BY <2>2, <2>3 DEF Pending, Root
<1>3. CASE RegisterAlternative
  <2>1. branch.expr \in Exprs /\ (~branch.value) \in BOOLEAN
    BY <1>3 DEF TypeOK, LocalsOK, RegisterAlternative, Branching, Creating
  <2>2. Ids' = Ids \cup {Len(registry) + 1}
    <3>1. Len(registry') = Len(registry) + 1
      BY <1>3, <2>1, RegisterExtends DEF RegisterAlternative
    <3> QED BY <1>1, <3>1 DEF Ids
  <2>3. /\ pc = "register_alternative" /\ pc' = "link_alternative"
        /\ branch'.alternative = Len(registry) + 1
        /\ UNCHANGED <<processed, pool, dropped>>
    BY <1>3 DEF RegisterAlternative, TypeOK
  <2> QED BY <2>2, <2>3 DEF Pending, Root
<1>4. CASE LinkTaken \/ LinkAlternative
  <2>1. /\ UNCHANGED <<registry, processed, pool, dropped, branch>>
        /\ \/ pc = "link_taken" /\ pc' = "mark_taken"
           \/ pc = "link_alternative" /\ pc' = "enqueue"
    BY <1>4 DEF LinkTaken, LinkAlternative
  <2> QED BY <2>1 DEF Pending, Ids, Root
<1>5. CASE MarkTaken
  BY <1>5 DEF MarkTaken, Pending, Ids, Root
<1>6. CASE Enqueue
  <2>1. /\ pc = "enqueue" /\ pc' \in {"advance", "tag_alternative"}
        /\ pool' = Append(pool, branch.alternative) /\ branch.alternative \in Ids
        /\ UNCHANGED <<registry, processed, dropped>>
    BY <1>6 DEF Enqueue, AfterLookup, tree, LocalsOK, AlternativePcs
  <2>2. Pending \cup {branch.alternative} \subseteq Pending'
    <3>1. /\ DOMAIN pool' = DOMAIN pool \cup {Len(pool) + 1}
          /\ \A i \in DOMAIN pool : pool'[i] = pool[i]
          /\ pool'[Len(pool) + 1] = branch.alternative
      BY <1>1, <2>1, AppendProperties, LenProperties
    <3> QED BY <3>1 DEF Pending
  <2> QED BY <2>1, <2>2 DEF Ids, Root
<1>7. ASSUME NEW i \in DOMAIN pool, Solve(i) PROVE AccountInv'
  <2>1. /\ pool' = SubSeq(pool, 1, i - 1) \o SubSeq(pool, i + 1, Len(pool))
        /\ processed' = processed \cup {pool[i]} /\ pc = "idle" /\ pc' = "idle"
        /\ UNCHANGED <<registry, dropped>>
    BY <1>7 DEF Solve
  <2>2. \A k \in DOMAIN pool : k # i => \E j \in DOMAIN pool' : pool'[j] = pool[k]
    BY <1>1, <2>1, RemoveAtKeepsRest
  <2>3. Pending \subseteq Pending' \cup {pool[i]}
    BY <2>2 DEF Pending
  <2> QED BY <2>1, <2>3 DEF Ids, Root
<1>8. CASE ClearPool
  <2>1. /\ pc = "idle" /\ pc' = "idle" /\ dropped' = dropped \cup Pending
        /\ UNCHANGED <<registry, processed>>
    BY <1>8 DEF ClearPool, Pending, tree
  <2> QED BY <2>1 DEF Ids, Root
<1>9. ASSUME UNCHANGED <<registry, processed, pool, dropped>>,
             pc \notin {"link_taken", "mark_taken", "link_alternative", "enqueue"},
             pc' # "unwinding"
      PROVE  AccountInv'
  BY <1>9 DEF Ids, Pending, Root
<1>10. CASE Reset \/ TagAlternative \/ TagTaken \/ Advance \/ Deliver
            \/ Interrupt \/ Swallow \/ Finish
  <2>1. /\ UNCHANGED <<registry, processed, pool, dropped>>
        /\ pc \notin {"link_taken", "mark_taken", "link_alternative", "enqueue"}
        /\ pc' # "unwinding"
    BY <1>10 DEF Reset, TagAlternative, TagTaken, Advance, Deliver, Interrupt, Swallow,
                 Finish, tree
  <2> QED BY <1>9, <2>1
<1>11. ASSUME NEW c \in Conditions, NEW v \in BOOLEAN,
              BranchNew(c, v) \/ BranchKnown(c, v) \/ BranchInconsistent(c, v)
       PROVE  AccountInv'
  <2>1. /\ UNCHANGED <<registry, pool, dropped>> /\ pc = "run"
        /\ processed \subseteq processed' /\ pc' # "unwinding"
    BY <1>11 DEF BranchNew, BranchKnown, BranchInconsistent, Evaluates, AfterLookup
  <2> QED BY <2>1 DEF Ids, Pending
<1>12. CASE UNCHANGED vars
  BY <1>12 DEF vars, Ids, Pending, Root
<1> QED
  BY <1>2, <1>3, <1>4, <1>5, <1>6, <1>7, <1>8, <1>10, <1>11, <1>12 DEF Next

(* NothingLost is an invariant of an engine whose target is never          *)
(* interrupted, whatever the optimizer rewrites: at rest each side of each *)
(* branch was taken or solved, waits in the pool, or went in a plateau.    *)
THEOREM NothingLostHolds ==
  ASSUME Interrupts = FALSE
  PROVE  Spec => []NothingLost
<1> DEFINE IInv == TypeOK /\ LocalsOK /\ AccountInv
<1>1. Init => IInv
  <2>1. Init => AccountInv
    BY DEF Init, AccountInv, Ids, Root
  <2> QED BY <2>1, InitTypes
<1>2. IInv /\ [Next]_vars => IInv'
  BY TypeStep, AccountStep
<1>3. IInv => NothingLost
  BY DEF AccountInv, Accounted, NothingLost, AtRest
<1> QED
  BY <1>1, <1>2, <1>3, PTL DEF Spec

-----------------------------------------------------------------------------
(* Linking a node that no child equals keeps siblings distinct. *)
LEMMA LinkKeepsDistinct ==
  ASSUME TypeOK, NEW id \in Ids, Link(id), UNCHANGED registry, SiblingsDistinct,
         \A c \in ChildrenOf(current) :
            registry[c].expr # registry[id].expr \/ registry[c].value # registry[id].value
  PROVE  SiblingsDistinct'
<1>1. children \in Seq(Seq(Ids)) /\ Len(children) = Len(registry) /\ current \in Ids
      /\ Ids' = Ids
  BY DEF TypeOK, Ids
<1>2. ASSUME NEW n \in Ids, n # current PROVE children'[n] = children[n]
  BY <1>1, <1>2 DEF Link, Ids
<1>3. /\ DOMAIN children'[current] = DOMAIN children[current] \cup {Len(children[current]) + 1}
      /\ \A i \in DOMAIN children[current] : children'[current][i] = children[current][i]
      /\ children'[current][Len(children[current]) + 1] = id
  <2> DEFINE s == children[current]
  <2>1. s \in Seq(Ids)
    BY <1>1, ElementOfSeq DEF Ids
  <2>2. children'[current] = Append(s, id)
    BY <1>1 DEF Link, Ids
  <2>3. /\ DOMAIN Append(s, id) = DOMAIN s \cup {Len(s) + 1}
        /\ \A i \in DOMAIN s : Append(s, id)[i] = s[i]
        /\ Append(s, id)[Len(s) + 1] = id
    <3> HIDE DEF s
    <3> QED BY <2>1, AppendProperties, LenProperties
  <2> QED BY <2>2, <2>3
<1>4. ASSUME NEW n \in Ids, NEW i \in DOMAIN children'[n], NEW j \in DOMAIN children'[n], i # j
      PROVE  \/ registry'[children'[n][i]].expr # registry'[children'[n][j]].expr
             \/ registry'[children'[n][i]].value # registry'[children'[n][j]].value
  <2>1. CASE n # current
    BY <1>2, <1>4, <2>1 DEF SiblingsDistinct
  <2>2. CASE n = current
    <3>1. CASE i \in DOMAIN children[n] /\ j \in DOMAIN children[n]
      <4>1. children'[n][i] = children[n][i] /\ children'[n][j] = children[n][j]
        BY <1>3, <2>2, <3>1
      <4> QED BY <1>4, <3>1, <4>1 DEF SiblingsDistinct
    <3>2. CASE i \notin DOMAIN children[n]
      <4>1. children'[n][i] = id /\ j \in DOMAIN children[n]
        BY <1>3, <1>4, <2>2, <3>2
      <4> QED BY <1>3, <2>2, <4>1 DEF ChildrenOf
    <3>3. CASE j \notin DOMAIN children[n]
      <4>1. children'[n][j] = id /\ i \in DOMAIN children[n]
        BY <1>3, <1>4, <2>2, <3>3
      <4> QED BY <1>3, <2>2, <4>1 DEF ChildrenOf
    <3> QED BY <3>1, <3>2, <3>3
  <2> QED BY <2>1, <2>2
<1> QED
  BY <1>1, <1>4 DEF SiblingsDistinct

(* Registering a node touches no sibling and no anchor. *)
LEMMA RegisterKeepsSiblings ==
  ASSUME TypeOK, NEW e \in Exprs, NEW v \in BOOLEAN, Register(e, v),
         SiblingsDistinct, AnchorsHold, UNCHANGED <<rewritten, pool>>, pc' # "enqueue"
  PROVE  SiblingsDistinct' /\ AnchorsHold'
<1> DEFINE new == Len(registry) + 1
<1>1. Len(registry) \in Nat /\ \A n \in Ids : ChildrenOf(n) \subseteq Ids
  BY ChildrenAreIds DEF TypeOK
<1>2. /\ Ids' = Ids \cup {new} /\ Pending' = Pending
      /\ \A n \in Ids : registry'[n] = registry[n] /\ children'[n] = children[n]
      /\ children'[new] = <<>>
  <2>1. Len(registry') = new
    BY RegisterExtends
  <2>2. Ids' = Ids \cup {new}
    BY <1>1, <2>1 DEF Ids
  <2>3. Pending' = Pending
    BY DEF Pending
  <2> QED BY <2>2, <2>3, RegisterExtends
<1>3. /\ \A n \in Ids : ChildrenOf(n)' = ChildrenOf(n)
      /\ \A n : n = new => ChildrenOf(n)' = {}
  BY RegisterKeepsLinks
<1>4. SiblingsDistinct'
  <2>1. \A n \in Ids : \A i \in DOMAIN children[n] : children[n][i] \in Ids
    BY <1>1 DEF ChildrenOf
  <2> QED BY <1>2, <2>1 DEF SiblingsDistinct
<1>5. AnchorsHold'
  <2>1. ASSUME NEW n \in Ids', NEW c \in ChildrenOf(n)' PROVE Anchored(n, registry[c].expr)'
    <3>1. n \in Ids /\ c \in ChildrenOf(n) /\ c \in Ids
      BY <1>1, <1>2, <1>3, <2>1
    <3>2. PICK t \in ChildrenOf(n) : /\ registry[t].expr = registry[c].expr
                                     /\ t \notin rewritten \cup Pending
      BY <3>1 DEF AnchorsHold, Anchored
    <3>3. t \in Ids
      BY <1>1, <3>1, <3>2
    <3> QED BY <1>2, <1>3, <3>1, <3>2, <3>3 DEF Anchored
  <2> QED BY <2>1 DEF AnchorsHold
<1> QED
  BY <1>4, <1>5

(* A step that leaves the tree's nodes and links alone keeps both as well, *)
(* if it neither rewrites nor enqueues an anchor.                          *)
LEMMA OthersKeepSiblings ==
  ASSUME TypeOK, SiblingsDistinct, AnchorsHold, UNCHANGED <<registry, children>>,
         pc' = "enqueue" => pc = "enqueue" /\ branch' = branch,
         \A t : t \in rewritten' \cup Pending' =>
                   t \in rewritten \cup Pending \/ (pc = "enqueue" /\ t = branch.alternative)
  PROVE  SiblingsDistinct' /\ AnchorsHold'
<1>1. Ids' = Ids /\ \A n : ChildrenOf(n)' = ChildrenOf(n)
  BY DEF Ids, ChildrenOf
<1>2. SiblingsDistinct'
  BY <1>1 DEF SiblingsDistinct
<1>3. AnchorsHold'
  <2>1. \A n, e : Anchored(n, e) => Anchored(n, e)'
    BY <1>1 DEF Anchored
  <2> QED BY <1>1, <2>1 DEF AnchorsHold
<1> QED
  BY <1>2, <1>3

LEMMA SiblingStep ==
  ASSUME TypeOK, LocalsOK, ShapeInv, PoolInv, SiblingInv, [Next]_vars
  PROVE  SiblingInv'
<1> USE DEF SiblingInv
<1>1. /\ current \in Ids /\ rewritten \subseteq Ids /\ branch.value \in BOOLEAN
      /\ \A n \in Ids : ChildrenOf(n) \subseteq Ids
  BY ChildrenAreIds DEF TypeOK
<1>2. CASE RegisterTaken
  <2>1. branch.expr \in Exprs /\ branch.value \in BOOLEAN
    BY <1>2 DEF TypeOK, LocalsOK, RegisterTaken, Branching, Creating
  <2>2. /\ pc = "register_taken" /\ pc' = "link_taken"
        /\ branch'.taken = Len(registry) + 1
        /\ branch'.expr = branch.expr /\ branch'.value = branch.value
        /\ UNCHANGED <<pool, rewritten, current>> /\ Register(branch.expr, branch.value)
    BY <1>2 DEF RegisterTaken, TypeOK
  <2>3. SiblingsDistinct' /\ AnchorsHold'
    BY <2>1, <2>2, RegisterKeepsSiblings
  <2>4. /\ ChildrenOf(current)' = ChildrenOf(current)
        /\ \A n \in Ids : registry'[n] = registry[n]
    BY <1>1, <2>1, <2>2, RegisterKeepsLinks, RegisterExtends
  <2>5. branch'.taken \notin rewritten'
    BY <1>1, <2>2 DEF Ids, TypeOK
  <2>6. RoomForBranch'
    BY <1>1, <2>2, <2>4, <2>5 DEF RoomForBranch, Creating
  <2> QED BY <2>3, <2>6
<1>3. CASE RegisterAlternative
  <2>1. branch.expr \in Exprs /\ (~branch.value) \in BOOLEAN
    BY <1>3 DEF TypeOK, LocalsOK, RegisterAlternative, Branching, Creating
  <2>2. /\ pc = "register_alternative" /\ pc' = "link_alternative"
        /\ branch'.taken = branch.taken
        /\ branch'.expr = branch.expr /\ branch'.value = branch.value
        /\ UNCHANGED <<pool, rewritten, current>> /\ Register(branch.expr, ~branch.value)
    BY <1>3 DEF RegisterAlternative, TypeOK
  <2>3. SiblingsDistinct' /\ AnchorsHold'
    BY <2>1, <2>2, RegisterKeepsSiblings
  <2>4. /\ ChildrenOf(current)' = ChildrenOf(current)
        /\ \A n \in Ids : registry'[n] = registry[n]
    BY <1>1, <2>1, <2>2, RegisterKeepsLinks, RegisterExtends
  <2>5. RoomForBranch'
    BY <1>1, <2>2, <2>4 DEF RoomForBranch, Creating
  <2> QED BY <2>3, <2>5
<1>4. CASE LinkTaken
  <2>1. branch.taken \in Ids
    BY <1>4 DEF LinkTaken, LocalsOK, TakenPcs
  <2>2. /\ pc = "link_taken" /\ pc' = "mark_taken" /\ Link(branch.taken)
        /\ UNCHANGED <<registry, pool, rewritten, branch, current>>
        /\ registry[branch.taken].expr = branch.expr
        /\ registry[branch.taken].value = branch.value
        /\ branch.taken \notin Pending /\ branch.taken \notin rewritten
        /\ \A c \in ChildrenOf(current) : registry[c].expr # branch.expr
    BY <1>4 DEF LinkTaken, PoolInv, TakenAchieved, Creating, RoomForBranch
  <2>3. \A n \in Ids : ChildrenOf(n)' = IF n = current THEN ChildrenOf(n) \cup {branch.taken}
                                         ELSE ChildrenOf(n)
    BY <2>1, <2>2, LinkAdds
  <2>4. SiblingsDistinct'
    BY <2>1, <2>2, LinkKeepsDistinct
  <2>5. AnchorsHold'
    <3>1. Ids' = Ids /\ Pending' = Pending
      BY <2>2 DEF Ids, Pending
    <3>2. \A n \in Ids : \A e : Anchored(n, e) => Anchored(n, e)'
      BY <2>2, <2>3, <3>1 DEF Anchored
    <3>3. \A n \in Ids : n = current => Anchored(n, branch.expr)'
      BY <2>2, <2>3, <3>1 DEF Anchored
    <3>4. ASSUME NEW n \in Ids, NEW c \in ChildrenOf(n)'
          PROVE  Anchored(n, registry[c].expr)'
      <4>1. CASE c \in ChildrenOf(n)
        BY <2>2, <3>2, <4>1 DEF AnchorsHold
      <4>2. CASE c \notin ChildrenOf(n)
        <5>1. n = current /\ registry[c].expr = branch.expr
          BY <2>2, <2>3, <3>4, <4>2
        <5> QED BY <2>2, <3>3, <5>1
      <4> QED BY <4>1, <4>2
    <3> QED BY <3>1, <3>4 DEF AnchorsHold
  <2>6. RoomForBranch'
    BY <1>1, <2>2, <2>3 DEF RoomForBranch, Creating
  <2> QED BY <2>4, <2>5, <2>6
<1>5. CASE LinkAlternative
  <2>1. branch.alternative \in Ids
    BY <1>5 DEF LinkAlternative, LocalsOK, AlternativePcs
  <2>2. /\ pc = "link_alternative" /\ pc' = "enqueue" /\ Link(branch.alternative)
        /\ UNCHANGED <<registry, pool, processed, rewritten, branch, current>>
    BY <1>5 DEF LinkAlternative
  <2>3. /\ registry[branch.alternative].expr = branch.expr
        /\ registry[branch.alternative].value = ~branch.value
        /\ registry[branch.alternative].parent = current
        /\ registry[branch.taken].expr = branch.expr
        /\ registry[branch.taken].value = branch.value
        /\ branch.taken \in ChildrenOf(current)
        /\ branch.taken \notin Pending /\ branch.taken \notin rewritten
    BY <2>2 DEF PoolInv, TakenAchieved, AlternativeAchieved, Creating, RoomForBranch,
                ShapeInv, AboutToLink
  <2>4. branch.taken # branch.alternative
    BY <1>1, <2>3
  <2>5. \A n \in Ids : ChildrenOf(n)' = IF n = current
                                         THEN ChildrenOf(n) \cup {branch.alternative}
                                         ELSE ChildrenOf(n)
    BY <2>1, <2>2, LinkAdds
  <2>6. SiblingsDistinct'
    <3>1. \A c \in ChildrenOf(current) :
             \/ registry[c].expr # registry[branch.alternative].expr
             \/ registry[c].value # registry[branch.alternative].value
      BY <2>2, <2>3 DEF RoomForBranch
    <3> QED BY <2>1, <2>2, <3>1, LinkKeepsDistinct
  <2>7. AnchorsHold'
    <3>1. Ids' = Ids /\ Pending' = Pending
      BY <2>2 DEF Ids, Pending
    <3>2. \A n \in Ids : n = current => Anchored(n, branch.expr)'
      BY <2>2, <2>3, <2>4, <2>5, <3>1 DEF Anchored
    <3>3. ASSUME NEW n \in Ids, NEW e, Anchored(n, e), n # current \/ e # branch.expr
          PROVE  Anchored(n, e)'
      <4>1. PICK t \in ChildrenOf(n) : registry[t].expr = e /\ t \notin rewritten \cup Pending
        BY <3>3 DEF Anchored
      <4>2. t # branch.alternative
        BY <2>3, <3>3, <4>1 DEF ShapeInv, LinksAgree
      <4> QED BY <2>2, <2>5, <3>1, <4>1, <4>2 DEF Anchored
    <3>4. ASSUME NEW n \in Ids, NEW c \in ChildrenOf(n)'
          PROVE  Anchored(n, registry[c].expr)'
      <4>1. CASE n = current /\ registry[c].expr = branch.expr
        BY <2>2, <3>2, <4>1
      <4>2. CASE ~(n = current /\ registry[c].expr = branch.expr)
        <5>1. c \in ChildrenOf(n)
          BY <2>3, <2>5, <3>4, <4>2
        <5> QED BY <2>2, <3>3, <4>2, <5>1 DEF AnchorsHold
      <4> QED BY <4>1, <4>2
    <3> QED BY <3>1, <3>4 DEF AnchorsHold
  <2>8. RoomForBranch'
    BY <2>2 DEF RoomForBranch, Creating
  <2> QED BY <2>6, <2>7, <2>8
<1>6. CASE Enqueue
  <2>1. /\ pc = "enqueue" /\ pc' \in {"advance", "tag_alternative"}
        /\ pool' = Append(pool, branch.alternative)
        /\ UNCHANGED <<registry, children, rewritten>> /\ branch.alternative \in Ids
    BY <1>6 DEF Enqueue, AfterLookup, tree, LocalsOK, AlternativePcs
  <2>2. Pending' = Pending \cup {branch.alternative}
    <3>1. pool \in Seq(Ids)
      BY DEF TypeOK
    <3>2. /\ DOMAIN pool' = DOMAIN pool \cup {Len(pool) + 1}
          /\ \A i \in DOMAIN pool : pool'[i] = pool[i]
          /\ pool'[Len(pool) + 1] = branch.alternative
      BY <2>1, <3>1, AppendProperties, LenProperties
    <3> QED BY <3>2 DEF Pending
  <2>3. SiblingsDistinct' /\ AnchorsHold'
    BY <2>1, <2>2, OthersKeepSiblings
  <2>4. RoomForBranch'
    BY <2>1 DEF RoomForBranch, Creating
  <2> QED BY <2>3, <2>4
<1>7. ASSUME NEW i \in DOMAIN pool, Solve(i) PROVE SiblingInv'
  <2>1. /\ pool' = SubSeq(pool, 1, i - 1) \o SubSeq(pool, i + 1, Len(pool))
        /\ rewritten' \subseteq rewritten \cup {pool[i]} /\ pc' = "idle"
        /\ UNCHANGED <<registry, children>>
    BY <1>7 DEF Solve
  <2>2. \A j \in DOMAIN pool' : \E k \in DOMAIN pool : pool'[j] = pool[k]
    <3>1. pool \in Seq(Ids)
      BY DEF TypeOK
    <3> QED BY <2>1, <3>1, RemoveAtKeepsRest
  <2>3. Pending' \subseteq Pending /\ pool[i] \in Pending
    BY <2>2 DEF Pending
  <2>4. SiblingsDistinct' /\ AnchorsHold'
    BY <2>1, <2>3, OthersKeepSiblings
  <2>5. RoomForBranch'
    BY <2>1 DEF RoomForBranch, Creating
  <2> QED BY <2>4, <2>5
<1>8. CASE MarkTaken
  <2>1. /\ pc = "mark_taken" /\ pc' = "register_alternative"
        /\ UNCHANGED <<registry, children, pool, rewritten, branch, current>>
    BY <1>8 DEF MarkTaken
  <2>2. SiblingsDistinct' /\ AnchorsHold'
    BY <2>1, OthersKeepSiblings DEF Pending
  <2>3. RoomForBranch'
    BY <2>1 DEF RoomForBranch, Creating, ChildrenOf
  <2> QED BY <2>2, <2>3
<1>9. CASE Reset \/ TagAlternative \/ TagTaken \/ Advance \/ Deliver
           \/ Interrupt \/ Swallow \/ Finish \/ ClearPool
  <2>1. /\ UNCHANGED <<registry, children, rewritten>> /\ pc' \notin Creating
        /\ pool' \in {pool, <<>>}
    BY <1>9 DEF Reset, TagAlternative, TagTaken, Advance, Deliver, Interrupt, Swallow,
                Finish, ClearPool, tree, Creating
  <2>2. Pending' \subseteq Pending
    BY <2>1 DEF Pending
  <2>3. SiblingsDistinct' /\ AnchorsHold'
    BY <2>1, <2>2, OthersKeepSiblings DEF Creating
  <2>4. RoomForBranch'
    BY <2>1 DEF RoomForBranch, Creating
  <2> QED BY <2>3, <2>4
<1>10. ASSUME NEW c \in Conditions, NEW v \in BOOLEAN,
              BranchNew(c, v) \/ BranchKnown(c, v) \/ BranchInconsistent(c, v)
       PROVE  SiblingInv'
  <2>1. /\ UNCHANGED <<registry, children, rewritten, pool, current>>
        /\ branch'.expr = c.expr
        /\ branch'.taken = FindChild(current, c.expr, v)
        /\ branch'.alternative = FindChild(current, c.expr, ~v)
        /\ pc' \in {"register_taken", "advance", "tag_alternative", "inconsistent"}
        /\ pc' = "register_taken" => branch'.taken = 0 /\ branch'.alternative = 0
    BY <1>10 DEF BranchNew, BranchKnown, BranchInconsistent, Evaluates, AfterLookup, tree
  <2>2. SiblingsDistinct' /\ AnchorsHold'
    BY <2>1, OthersKeepSiblings DEF Pending
  <2>3. ASSUME pc' = "register_taken", NEW k \in ChildrenOf(current)
        PROVE  registry[k].expr # c.expr
    <3> SUFFICES ASSUME registry[k].expr = c.expr PROVE FALSE
      OBVIOUS
    <3>1. PICK t \in ChildrenOf(current) : registry[t].expr = c.expr /\ t \notin rewritten
      BY <1>1 DEF AnchorsHold, Anchored
    <3>2. registry[t].value \in BOOLEAN
      <4>1. t \in Ids
        BY <1>1, <3>1
      <4>2. registry[t] \in [parent : Nat, expr : Exprs \cup {NoExpr},
                              value : BOOLEAN, depth : Nat]
        BY <4>1, ElementOfSeq DEF TypeOK, Ids
      <4> QED BY <4>2
    <3>3. PICK i \in DOMAIN children[current] : children[current][i] = t
      BY <3>1 DEF ChildrenOf
    <3>4. Matches(children[current][i], c.expr, v) \/ Matches(children[current][i], c.expr, ~v)
      BY <3>1, <3>2, <3>3 DEF Matches
    <3>5. FindChild(current, c.expr, v) # 0 \/ FindChild(current, c.expr, ~v) # 0
      BY <1>1, <3>3, <3>4, FindChildFinds
    <3> QED BY <2>1, <2>3, <3>5
  <2>4. RoomForBranch'
    <3>1. ChildrenOf(current)' = ChildrenOf(current)
      BY <2>1 DEF ChildrenOf
    <3> QED BY <2>1, <2>3, <3>1 DEF RoomForBranch, Creating
  <2> QED BY <2>2, <2>4
<1>11. CASE UNCHANGED vars
  <2>1. SiblingsDistinct' /\ AnchorsHold'
    BY <1>11, OthersKeepSiblings DEF vars, Pending
  <2>2. RoomForBranch'
    BY <1>11 DEF vars, RoomForBranch, ChildrenOf
  <2> QED BY <2>1, <2>2
<1> QED
  BY <1>2, <1>3, <1>4, <1>5, <1>6, <1>7, <1>8, <1>9, <1>10, <1>11 DEF Next

LEMMA InitSiblings == Init => SiblingInv
<1> SUFFICES ASSUME Init PROVE SiblingInv
  OBVIOUS
<1>1. Len(registry) = 1 /\ children[1] = <<>> /\ pc = "idle"
  BY DEF Init
<1> QED
  BY <1>1 DEF SiblingInv, SiblingsDistinct, AnchorsHold, RoomForBranch, ChildrenOf, Ids,
              Creating

(* SiblingsDistinct is an invariant, with interrupts and rewrites: a node  *)
(* hidden from find_child never gets a twin, so that a path of conditions  *)
(* names one linked node for good.                                         *)
THEOREM SiblingsDistinctHolds == Spec => []SiblingsDistinct
<1> DEFINE IInv == TypeOK /\ LocalsOK /\ ShapeInv /\ PoolInv /\ SiblingInv
<1>1. Init => IInv
  BY InitTypes, InitShape, InitPool, InitSiblings
<1>2. IInv /\ [Next]_vars => IInv'
  BY TypeStep, ShapeStep, PoolStep, SiblingStep
<1>3. IInv => SiblingsDistinct
  BY DEF SiblingInv
<1> QED
  BY <1>1, <1>2, <1>3, PTL DEF Spec

(* PoolSound is an invariant, with interrupts and rewrites: whatever the   *)
(* scheduler takes from constraints_to_solve was never solved before, is   *)
(* waiting once, and is the flip of a branch an execution really took.     *)
THEOREM PoolSoundHolds == Spec => []PoolSound
<1> DEFINE IInv == TypeOK /\ LocalsOK /\ ShapeInv /\ PoolInv /\ SiblingInv
<1>1. Init => IInv
  BY InitTypes, InitShape, InitPool, InitSiblings
<1>2. IInv /\ [Next]_vars => IInv'
  BY TypeStep, ShapeStep, PoolStep, SiblingStep
<1>3. IInv => PoolSound
  BY DEF PoolInv, PoolSound, Distinct, Waiting
<1> QED
  BY <1>1, <1>2, <1>3, PTL DEF Spec

(* BranchesPaired is an invariant under the same hypothesis: at rest, and  *)
(* before the first rewrite, each branch point has both of its children or *)
(* none.                                                                   *)
THEOREM PairingHolds ==
  ASSUME Interrupts = FALSE
  PROVE  Spec => []BranchesPaired
<1> DEFINE IInv == TypeOK /\ LocalsOK /\ ShapeInv /\ PoolInv /\ SiblingInv /\ PairInv
<1>1. Init => IInv
  BY InitTypes, InitShape, InitPool, InitSiblings, InitPair
<1>2. IInv /\ [Next]_vars => IInv'
  BY TypeStep, ShapeStep, PoolStep, SiblingStep, PairStep
<1>3. IInv => BranchesPaired
  <2> SUFFICES ASSUME IInv, AtRest, rewritten = {}, NEW n \in Ids, NEW e \in Exprs
               PROVE  (FindChild(n, e, TRUE) = 0) <=> (FindChild(n, e, FALSE) = 0)
    BY DEF BranchesPaired
  <2>1. HasChild(n, e, TRUE) <=> HasChild(n, e, FALSE)
    <3>1. \A v \in BOOLEAN : HasChild(n, e, v) => HasChild(n, e, ~v)
      BY DEF PairInv, Paired, HalfMade, AtRest
    <3> QED BY <3>1
  <2> QED BY <2>1, FindChildDecides DEF PairInv
<1> QED
  BY <1>1, <1>2, <1>3, PTL DEF Spec

-----------------------------------------------------------------------------
(* Or-chain tags.  add_branch tags the alternative first and the taken side *)
(* one line later, so two sides differ between the two lines, at the branch *)
(* being tagged and nowhere else; nodes just made carry no tag yet.         *)
HalfTagged(n, e) == pc = "tag_taken" /\ n = current /\ e = branch.expr

Alike ==
    \A n \in Ids : \A a, b \in ChildrenOf(n) :
        registry[a].expr = registry[b].expr /\ ~HalfTagged(n, registry[a].expr)
            => chain[a] = chain[b]

Untagged ==
    /\ pc \in Creating \ {"register_taken"} => chain[branch.taken] = NoChain
    /\ pc \in {"link_alternative", "enqueue"} => chain[branch.alternative] = NoChain

TwoSides ==
    pc \in {"tag_alternative", "tag_taken", "advance"} =>
        /\ branch.taken \in ChildrenOf(current)
        /\ branch.alternative \in ChildrenOf(current)
        /\ registry[branch.taken].expr = branch.expr
        /\ registry[branch.taken].value = branch.value
        /\ registry[branch.alternative].expr = branch.expr
        /\ registry[branch.alternative].value = ~branch.value

TagInv ==
    /\ pc # "unwinding"
    /\ Alike
    /\ Untagged
    /\ TwoSides
    /\ pc = "tag_taken" => chain[branch.alternative] = branch.chain

(* A tag on a child of the current node is seen at that node only. *)
LEMMA TagIsLocal ==
  ASSUME TypeOK, ShapeInv, NEW id \in ChildrenOf(current), Tag(id)
  PROVE  /\ chain'[id] = branch.chain
         /\ \A k \in Ids : k # id => chain'[k] = chain[k]
         /\ \A n \in Ids : n # current => id \notin ChildrenOf(n)
<1>1. current \in Ids /\ id \in Ids
  BY ChildrenAreIds DEF TypeOK
<1>2. id \in DOMAIN chain /\ Ids = DOMAIN chain
  BY <1>1 DEF TypeOK, Ids
<1>3. chain'[id] = branch.chain
  BY <1>2 DEF Tag
<1>4. \A k \in Ids : k # id => chain'[k] = chain[k]
  BY <1>2 DEF Tag
<1>5. \A n \in Ids : n # current => id \notin ChildrenOf(n)
  BY <1>1 DEF ShapeInv, LinksAgree
<1> QED
  BY <1>3, <1>4, <1>5

(* A registered node leaves every pair of siblings as it was. *)
LEMMA RegisterKeepsAlike ==
  ASSUME TypeOK, NEW e \in Exprs, NEW v \in BOOLEAN, Register(e, v), Alike,
         pc # "tag_taken"
  PROVE  /\ Alike'
         /\ chain'[Len(registry) + 1] = NoChain
         /\ \A n \in Ids : chain'[n] = chain[n]
<1> DEFINE new == Len(registry) + 1
<1>1. Len(registry) \in Nat /\ \A n \in Ids : ChildrenOf(n) \subseteq Ids
  BY ChildrenAreIds DEF TypeOK
<1>2. /\ Ids' = Ids \cup {new}
      /\ \A n \in Ids : registry'[n] = registry[n] /\ chain'[n] = chain[n]
  <2>1. Len(registry') = new
    BY RegisterExtends
  <2>2. Ids' = Ids \cup {new}
    BY <1>1, <2>1 DEF Ids
  <2> QED BY <2>2, RegisterExtends
<1>3. /\ \A n \in Ids : ChildrenOf(n)' = ChildrenOf(n)
      /\ \A n : n = new => ChildrenOf(n)' = {}
  BY RegisterKeepsLinks
<1>4. chain'[new] = NoChain
  <2>1. chain' = Append(chain, NoChain) /\ Len(chain) + 1 = new
        /\ chain \in Seq(Chains \cup {NoChain})
    BY DEF Register, TypeOK
  <2> QED BY <2>1, AppendProperties
<1>5. ASSUME NEW n \in Ids', NEW a \in ChildrenOf(n)', NEW b \in ChildrenOf(n)',
             registry'[a].expr = registry'[b].expr
      PROVE  chain'[a] = chain'[b]
  <2>1. n \in Ids /\ a \in ChildrenOf(n) /\ b \in ChildrenOf(n)
    BY <1>2, <1>3, <1>5
  <2>2. a \in Ids /\ b \in Ids
    BY <1>1, <2>1
  <2>3. registry[a].expr = registry[b].expr
    BY <1>2, <1>5, <2>2
  <2>4. chain[a] = chain[b]
    BY <2>1, <2>3 DEF Alike, HalfTagged
  <2> QED BY <1>2, <2>2, <2>4
<1> QED
  BY <1>2, <1>4, <1>5 DEF Alike

(* A step that touches neither nodes, links nor tags. *)
LEMMA OthersKeepAlike ==
  ASSUME Alike, UNCHANGED <<registry, children, chain>>, pc # "tag_taken"
  PROVE  Alike'
<1>1. Ids' = Ids /\ \A n : ChildrenOf(n)' = ChildrenOf(n)
  BY DEF Ids, ChildrenOf
<1> QED
  BY <1>1 DEF Alike, HalfTagged

LEMMA TagStep ==
  ASSUME Interrupts = FALSE, TypeOK, LocalsOK, ShapeInv, PoolInv, SiblingInv, TagInv,
         [Next]_vars
  PROVE  TagInv'
<1> USE DEF TagInv
<1>1. /\ current \in Ids /\ branch.value \in BOOLEAN
      /\ \A n \in Ids : ChildrenOf(n) \subseteq Ids
  BY ChildrenAreIds DEF TypeOK
<1>2. CASE RegisterTaken
  <2>1. branch.expr \in Exprs /\ branch.value \in BOOLEAN
    BY <1>2 DEF TypeOK, LocalsOK, RegisterTaken, Branching, Creating
  <2>2. /\ pc = "register_taken" /\ pc' = "link_taken"
        /\ branch'.taken = Len(registry) + 1
        /\ Register(branch.expr, branch.value)
    BY <1>2 DEF RegisterTaken, TypeOK
  <2>3. Alike' /\ chain'[Len(registry) + 1] = NoChain
    BY <2>1, <2>2, RegisterKeepsAlike
  <2> QED BY <2>2, <2>3 DEF Untagged, TwoSides
<1>3. CASE RegisterAlternative
  <2>1. branch.expr \in Exprs /\ (~branch.value) \in BOOLEAN
    BY <1>3 DEF TypeOK, LocalsOK, RegisterAlternative, Branching, Creating
  <2>2. /\ pc = "register_alternative" /\ pc' = "link_alternative"
        /\ branch'.taken = branch.taken
        /\ branch'.alternative = Len(registry) + 1
        /\ Register(branch.expr, ~branch.value)
    BY <1>3 DEF RegisterAlternative, TypeOK
  <2>3. /\ Alike' /\ chain'[Len(registry) + 1] = NoChain
        /\ \A n \in Ids : chain'[n] = chain[n]
    BY <2>1, <2>2, RegisterKeepsAlike
  <2>4. branch.taken \in Ids /\ chain[branch.taken] = NoChain
    BY <2>2 DEF LocalsOK, TakenPcs, Untagged, Creating
  <2> QED BY <2>2, <2>3, <2>4 DEF Untagged, TwoSides
<1>4. CASE LinkTaken
  <2>1. branch.taken \in Ids
    BY <1>4 DEF LinkTaken, LocalsOK, TakenPcs
  <2>2. /\ pc = "link_taken" /\ pc' = "mark_taken" /\ Link(branch.taken)
        /\ UNCHANGED <<registry, chain, branch, current>>
        /\ registry[branch.taken].expr = branch.expr
        /\ chain[branch.taken] = NoChain
        /\ \A c \in ChildrenOf(current) : registry[c].expr # branch.expr
    BY <1>4 DEF LinkTaken, PoolInv, TakenAchieved, Creating, SiblingInv, RoomForBranch,
                Untagged
  <2>3. \A n \in Ids : ChildrenOf(n)' = IF n = current THEN ChildrenOf(n) \cup {branch.taken}
                                         ELSE ChildrenOf(n)
    BY <2>1, <2>2, LinkAdds
  <2>4. ASSUME NEW n \in Ids, NEW a \in ChildrenOf(n)', NEW b \in ChildrenOf(n)',
               registry[a].expr = registry[b].expr
        PROVE  chain[a] = chain[b]
    <3>1. CASE a \in ChildrenOf(n) /\ b \in ChildrenOf(n)
      BY <2>2, <2>4, <3>1 DEF Alike, HalfTagged
    <3>2. CASE ~(a \in ChildrenOf(n) /\ b \in ChildrenOf(n))
      <4>1. n = current /\ (a = branch.taken \/ b = branch.taken)
        BY <2>3, <2>4, <3>2
      <4>2. a = branch.taken /\ b = branch.taken
        BY <2>2, <2>3, <2>4, <4>1
      <4> QED BY <4>2
    <3> QED BY <3>1, <3>2
  <2>5. Alike'
    BY <2>2, <2>4 DEF Alike, Ids
  <2> QED BY <2>2, <2>5 DEF Untagged, TwoSides
<1>5. CASE LinkAlternative
  <2>1. branch.alternative \in Ids
    BY <1>5 DEF LinkAlternative, LocalsOK, AlternativePcs
  <2>2. /\ pc = "link_alternative" /\ pc' = "enqueue" /\ Link(branch.alternative)
        /\ UNCHANGED <<registry, chain, branch, current>>
    BY <1>5 DEF LinkAlternative
  <2>3. /\ registry[branch.alternative].expr = branch.expr
        /\ registry[branch.taken].expr = branch.expr
        /\ registry[branch.taken].value = branch.value
        /\ branch.taken \in ChildrenOf(current)
        /\ chain[branch.taken] = NoChain /\ chain[branch.alternative] = NoChain
        /\ \A c \in ChildrenOf(current) :
              registry[c].expr = branch.expr => registry[c].value # ~branch.value
    BY <2>2 DEF PoolInv, TakenAchieved, AlternativeAchieved, Creating, SiblingInv,
                RoomForBranch, Untagged
  <2>4. \A n \in Ids : ChildrenOf(n)' = IF n = current
                                         THEN ChildrenOf(n) \cup {branch.alternative}
                                         ELSE ChildrenOf(n)
    BY <2>1, <2>2, LinkAdds
  <2>5. ASSUME NEW c \in ChildrenOf(current), registry[c].expr = branch.expr
        PROVE  chain[c] = NoChain
    <3>1. registry[c].value = branch.value
      <4>1. registry[c].value \in BOOLEAN
        BY <1>1, ValuesAreBoolean
      <4> QED BY <1>1, <2>3, <2>5, <4>1
    <3>2. c = branch.taken
      BY <1>1, <2>3, <2>5, <3>1, OneNodePerSide DEF SiblingInv
    <3> QED BY <2>3, <3>2
  <2>6. ASSUME NEW n \in Ids, NEW a \in ChildrenOf(n)', NEW b \in ChildrenOf(n)',
               registry[a].expr = registry[b].expr
        PROVE  chain[a] = chain[b]
    <3>1. CASE a \in ChildrenOf(n) /\ b \in ChildrenOf(n)
      BY <2>2, <2>6, <3>1 DEF Alike, HalfTagged
    <3>2. CASE ~(a \in ChildrenOf(n) /\ b \in ChildrenOf(n))
      <4>1. n = current /\ (a = branch.alternative \/ b = branch.alternative)
        BY <2>4, <2>6, <3>2
      <4>2. registry[a].expr = branch.expr /\ registry[b].expr = branch.expr
        BY <2>3, <2>6, <4>1
      <4>3. \A c \in ChildrenOf(current)' : registry[c].expr = branch.expr => chain[c] = NoChain
        BY <1>1, <2>2, <2>3, <2>4, <2>5
      <4> QED BY <2>2, <2>6, <4>1, <4>2, <4>3
    <3> QED BY <3>1, <3>2
  <2>7. Alike'
    BY <2>2, <2>6 DEF Alike, Ids
  <2> QED BY <2>2, <2>3, <2>7 DEF Untagged, TwoSides
<1>6. CASE Enqueue
  <2>1. /\ pc = "enqueue" /\ pc' \in {"advance", "tag_alternative"}
        /\ UNCHANGED <<registry, children, chain, branch, current>>
    BY <1>6 DEF Enqueue, AfterLookup, tree
  <2>2. Alike'
    BY <2>1, OthersKeepAlike
  <2>3. TwoSides'
    BY <2>1 DEF TwoSides, PoolInv, TakenAchieved, AlternativeAchieved, Creating, ChildrenOf
  <2> QED BY <2>1, <2>2, <2>3 DEF Untagged, Creating
<1>7. CASE TagAlternative
  <2>1. /\ pc = "tag_alternative" /\ pc' = "tag_taken" /\ Tag(branch.alternative)
        /\ UNCHANGED <<registry, children, branch, current>>
    BY <1>7 DEF TagAlternative
  <2>2. /\ branch.alternative \in ChildrenOf(current)
        /\ registry[branch.alternative].expr = branch.expr
    BY <2>1 DEF TwoSides
  <2>3. /\ chain'[branch.alternative] = branch.chain
        /\ \A k \in Ids : k # branch.alternative => chain'[k] = chain[k]
        /\ \A n \in Ids : n # current => branch.alternative \notin ChildrenOf(n)
    BY <2>1, <2>2, TagIsLocal
  <2>4. \A n : ChildrenOf(n)' = ChildrenOf(n)
    BY <2>1 DEF ChildrenOf
  <2>5. ASSUME NEW n \in Ids, NEW a \in ChildrenOf(n), NEW b \in ChildrenOf(n),
               registry[a].expr = registry[b].expr,
               ~(n = current /\ registry[a].expr = branch.expr)
        PROVE  chain'[a] = chain'[b]
    <3>1. a # branch.alternative /\ b # branch.alternative
      BY <2>2, <2>3, <2>5
    <3>2. chain[a] = chain[b]
      BY <2>1, <2>5 DEF Alike, HalfTagged
    <3> QED BY <1>1, <2>3, <2>5, <3>1, <3>2
  <2>6. Alike'
    BY <2>1, <2>4, <2>5 DEF Alike, HalfTagged, Ids
  <2>7. TwoSides'
    BY <2>1, <2>4 DEF TwoSides
  <2> QED BY <2>1, <2>3, <2>6, <2>7 DEF Untagged, Creating
<1>8. CASE TagTaken
  <2>1. /\ pc = "tag_taken" /\ pc' = "advance" /\ Tag(branch.taken)
        /\ UNCHANGED <<registry, children, branch, current>>
    BY <1>8 DEF TagTaken
  <2>2. /\ branch.taken \in ChildrenOf(current)
        /\ branch.alternative \in ChildrenOf(current)
        /\ registry[branch.taken].expr = branch.expr
        /\ registry[branch.taken].value = branch.value
        /\ registry[branch.alternative].expr = branch.expr
        /\ registry[branch.alternative].value = ~branch.value
        /\ chain[branch.alternative] = branch.chain
    BY <2>1 DEF TwoSides
  <2>3. /\ chain'[branch.taken] = branch.chain
        /\ \A k \in Ids : k # branch.taken => chain'[k] = chain[k]
        /\ \A n \in Ids : n # current => branch.taken \notin ChildrenOf(n)
    BY <2>1, <2>2, TagIsLocal
  <2>4. ASSUME NEW c \in ChildrenOf(current), registry[c].expr = branch.expr
        PROVE  chain'[c] = branch.chain
    <3>1. registry[c].value = branch.value \/ registry[c].value = ~branch.value
      <4>1. registry[c].value \in BOOLEAN
        BY <1>1, ValuesAreBoolean
      <4> QED BY <1>1, <4>1
    <3>2. c = branch.taken \/ c = branch.alternative
      BY <1>1, <2>2, <2>4, <3>1, OneNodePerSide DEF SiblingInv
    <3> QED BY <1>1, <2>2, <2>3, <3>2
  <2>5. ASSUME NEW n \in Ids, NEW a \in ChildrenOf(n), NEW b \in ChildrenOf(n),
               registry[a].expr = registry[b].expr
        PROVE  chain'[a] = chain'[b]
    <3>1. CASE n = current /\ registry[a].expr = branch.expr
      BY <2>4, <2>5, <3>1
    <3>2. CASE ~(n = current /\ registry[a].expr = branch.expr)
      <4>1. a # branch.taken /\ b # branch.taken
        BY <2>2, <2>3, <2>5, <3>2
      <4>2. chain[a] = chain[b]
        BY <2>5, <3>2 DEF Alike, HalfTagged
      <4> QED BY <1>1, <2>3, <2>5, <4>1, <4>2
    <3> QED BY <3>1, <3>2
  <2>6. \A n : ChildrenOf(n)' = ChildrenOf(n)
    BY <2>1 DEF ChildrenOf
  <2>7. Alike'
    BY <2>1, <2>5, <2>6 DEF Alike, Ids
  <2>8. TwoSides'
    BY <2>1, <2>2, <2>6 DEF TwoSides
  <2> QED BY <2>1, <2>7, <2>8 DEF Untagged, Creating
<1>9. CASE MarkTaken
  <2>1. /\ pc = "mark_taken" /\ pc' = "register_alternative"
        /\ UNCHANGED <<registry, children, chain, branch, current>>
    BY <1>9 DEF MarkTaken
  <2>2. Alike'
    BY <2>1, OthersKeepAlike
  <2> QED BY <2>1, <2>2 DEF Untagged, TwoSides, Creating
<1>10. ASSUME NEW c \in Conditions, NEW v \in BOOLEAN,
              BranchNew(c, v) \/ BranchKnown(c, v) \/ BranchInconsistent(c, v)
       PROVE  TagInv'
  <2>1. /\ pc = "run" /\ UNCHANGED <<registry, children, chain, current>>
        /\ branch' = [expr |-> c.expr, value |-> v, chain |-> c.chain,
                      taken |-> FindChild(current, c.expr, v),
                      alternative |-> FindChild(current, c.expr, ~v)]
        /\ pc' \in {"register_taken", "advance", "tag_alternative", "inconsistent"}
        /\ pc' \in {"tag_alternative", "advance"} => branch'.taken # 0 /\ branch'.alternative # 0
    BY <1>10 DEF BranchNew, BranchKnown, BranchInconsistent, Evaluates, AfterLookup, tree
  <2>2. Alike'
    BY <2>1, OthersKeepAlike
  <2>3. TwoSides'
    <3> SUFFICES ASSUME pc' \in {"tag_alternative", "advance"} PROVE TwoSides'
      BY <2>1 DEF TwoSides
    <3>1. FindChild(current, c.expr, v) # 0 /\ FindChild(current, c.expr, ~v) # 0
      BY <2>1
    <3>2. PICK i \in DOMAIN children[current] :
             /\ FindChild(current, c.expr, v) = children[current][i]
             /\ Matches(children[current][i], c.expr, v)
      BY <1>1, <3>1, FindChildFinds
    <3>3. PICK j \in DOMAIN children[current] :
             /\ FindChild(current, c.expr, ~v) = children[current][j]
             /\ Matches(children[current][j], c.expr, ~v)
      BY <1>1, <3>1, FindChildFinds
    <3>4. ChildrenOf(current)' = ChildrenOf(current)
      BY <2>1 DEF ChildrenOf
    <3> QED BY <2>1, <3>2, <3>3, <3>4 DEF TwoSides, Matches, ChildrenOf
  <2> QED BY <2>1, <2>2, <2>3 DEF Untagged, Creating
<1>11. ASSUME UNCHANGED <<registry, children, chain>>, pc # "tag_taken",
              pc' \notin Creating \cup {"tag_alternative", "tag_taken", "advance", "unwinding"}
       PROVE  TagInv'
  BY <1>11, OthersKeepAlike DEF Untagged, TwoSides, Creating
<1>12. CASE Reset \/ Advance \/ Deliver \/ Interrupt \/ Swallow \/ Finish \/ ClearPool
  <2>1. /\ UNCHANGED <<registry, children, chain>> /\ pc # "tag_taken"
        /\ pc' \notin Creating \cup {"tag_alternative", "tag_taken", "advance", "unwinding"}
    BY <1>12 DEF Reset, Advance, Deliver, Interrupt, Swallow, Finish, ClearPool, tree,
                 Creating
  <2> QED BY <1>11, <2>1
<1>13. ASSUME NEW i \in DOMAIN pool, Solve(i) PROVE TagInv'
  <2>1. /\ UNCHANGED <<registry, children, chain>> /\ pc # "tag_taken"
        /\ pc' \notin Creating \cup {"tag_alternative", "tag_taken", "advance", "unwinding"}
    BY <1>13 DEF Solve, Creating
  <2> QED BY <1>11, <2>1
<1>14. CASE UNCHANGED vars
  <2>1. /\ Ids' = Ids /\ \A n : ChildrenOf(n)' = ChildrenOf(n)
        /\ UNCHANGED <<registry, chain, pc, branch, current>>
    BY <1>14 DEF vars, Ids, ChildrenOf
  <2> QED BY <2>1 DEF Alike, HalfTagged, Untagged, TwoSides
<1> QED
  BY <1>2, <1>3, <1>4, <1>5, <1>6, <1>7, <1>8, <1>9, <1>10, <1>12, <1>13, <1>14 DEF Next

(* TagsAgree is an invariant of an engine whose target is never            *)
(* interrupted, whatever is rewritten: a known branch met again under      *)
(* another or-chain is retagged on both sides, so that a flip is credited  *)
(* to the chain its branch was last taken under.                           *)
THEOREM TagsAgreeHolds ==
  ASSUME Interrupts = FALSE
  PROVE  Spec => []TagsAgree
<1> DEFINE IInv == TypeOK /\ LocalsOK /\ ShapeInv /\ PoolInv /\ SiblingInv /\ TagInv
<1>1. Init => IInv
  <2>1. Init => TagInv
    <3> SUFFICES ASSUME Init PROVE TagInv
      OBVIOUS
    <3>1. Len(registry) = 1 /\ children[1] = <<>> /\ pc = "idle"
      BY DEF Init
    <3> QED BY <3>1 DEF TagInv, Alike, Untagged, TwoSides, ChildrenOf, Ids, Creating
  <2> QED BY <2>1, InitTypes, InitShape, InitPool, InitSiblings
<1>2. IInv /\ [Next]_vars => IInv'
  <2> SUFFICES ASSUME IInv, [Next]_vars PROVE IInv'
    OBVIOUS
  <2>1. TypeOK' /\ LocalsOK'
    BY TypeStep
  <2>2. ShapeInv'
    BY <2>1, ShapeStep
  <2>3. PoolInv' /\ SiblingInv'
    BY PoolStep, SiblingStep
  <2>4. TagInv'
    BY TagStep, Zenon
  <2> QED BY <2>1, <2>2, <2>3, <2>4
<1>3. IInv => TagsAgree
  BY DEF TagInv, Alike, HalfTagged, TagsAgree, AtRest
<1> QED
  BY <1>1, <1>2, <1>3, PTL DEF Spec

-----------------------------------------------------------------------------
(* PathTree keeps what Frontier promises: the path of the current node is  *)
(* what the target was told, and every behaviour of the tree, with         *)
(* whatever the optimizer rewrites and as long as no deadline strikes      *)
(* inside a branch, is a behaviour of the frontier.                        *)

-----------------------------------------------------------------------------
(* The path of a node.  PathOf is recursive along the parents, which are   *)
(* older than their children: this is what makes it a function.            *)
Step(reg, n) == [expr |-> reg[n].expr, value |-> reg[n].value]

Walk(reg, last, f) ==
    [n \in 1 .. last |-> IF reg[n].parent = 0 THEN <<>>
                         ELSE Append(f[reg[n].parent], Step(reg, n))]

LEMMA WalkExists ==
  ASSUME NEW reg, NEW last \in Nat,
         \A n \in 1 .. last : reg[n].parent \in 0 .. n - 1
  PROVE  \E f : f = Walk(reg, last, f)
<1> DEFINE Good == {m \in Nat : \E f : f = Walk(reg, m, f)}
           Good1 == {m \in Nat : m - 1 \in Good}
           N == last + 1
<1>1. 0 \in Good
  <2> DEFINE f == [n \in 1 .. 0 |-> <<>>]
  <2>1. f = Walk(reg, 0, f)
    BY DEF Walk
  <2> QED BY <2>1
<1>2. ASSUME NEW m \in 1 .. last, m - 1 \in Good
      PROVE  m \in Good
  <2>1. PICK g : g = Walk(reg, m - 1, g)
    BY <1>2
  <2> DEFINE at(n) == IF reg[n].parent = 0 THEN <<>>
                      ELSE Append(g[reg[n].parent], Step(reg, n))
             f == [n \in 1 .. m |-> at(n)]
  <2>2. \A n \in 1 .. m - 1 : g[n] = at(n)
    BY <2>1 DEF Walk
  <2>3. \A n \in 1 .. m : reg[n].parent # 0 => f[reg[n].parent] = g[reg[n].parent]
    <3> SUFFICES ASSUME NEW n \in 1 .. m, reg[n].parent # 0
                 PROVE  f[reg[n].parent] = g[reg[n].parent]
      OBVIOUS
    <3> DEFINE k == reg[n].parent
    <3>1. k \in 1 .. m - 1
      BY <1>2
    <3>2. k \in 1 .. m /\ g[k] = at(k)
      BY <2>2, <3>1
    <3> HIDE DEF k, at
    <3> QED BY <3>2 DEF k
  <2>4. \A n \in 1 .. m : at(n) = IF reg[n].parent = 0 THEN <<>>
                                  ELSE Append(f[reg[n].parent], Step(reg, n))
    <3> HIDE DEF f
    <3> QED BY <2>3, Zenon
  <2>5. f = Walk(reg, m, f)
    <3>1. \A h : Walk(reg, m, h) = [n \in 1 .. m |-> IF reg[n].parent = 0 THEN <<>>
                                      ELSE Append(h[reg[n].parent], Step(reg, n))]
      BY DEF Walk
    <3> DEFINE w(n) == IF reg[n].parent = 0 THEN <<>>
                       ELSE Append(f[reg[n].parent], Step(reg, n))
    <3>2. \A n \in 1 .. m : at(n) = w(n)
      BY <2>4, Zenon
    <3>3. [n \in 1 .. m |-> at(n)] = [n \in 1 .. m |-> w(n)]
      <4> HIDE DEF at, w
      <4> QED BY <3>2, Zenon
    <3> QED BY <3>1, <3>3, Zenon
  <2>6. m \in Nat
    OBVIOUS
  <2> QED BY <2>5, <2>6
<1>3. \A n \in 1 .. N : (\A k \in 1 .. n - 1 : k \in Good1) => n \in Good1
  <2> SUFFICES ASSUME NEW n \in 1 .. N, \A k \in 1 .. n - 1 : k \in Good1
               PROVE  n \in Good1
    OBVIOUS
  <2>1. CASE n = 1
    <3>1. n - 1 = 0 /\ n \in Nat
      BY <2>1
    <3> QED BY <1>1, <3>1
  <2>2. CASE n # 1
    <3>1. n - 1 \in 1 .. last /\ n - 1 \in 1 .. n - 1 /\ n \in Nat
      BY <2>2
    <3>2. (n - 1) - 1 \in Good
      BY <3>1
    <3> HIDE DEF Good
    <3>3. n - 1 \in Good
      BY <1>2, <3>1, <3>2
    <3> QED BY <3>1, <3>3
  <2> QED BY <2>1, <2>2
<1>4. N \in Good1
  <2>1. N \in Nat /\ N \in 1 .. N
    OBVIOUS
  <2> HIDE DEF Good1, N
  <2>2. \A n \in 1 .. N : n \in Good1
    BY <1>3, <2>1, InductionUpTo, Zenon
  <2> QED BY <2>1, <2>2, Zenon
<1>5. last \in Good
  <2>1. N - 1 = last
    OBVIOUS
  <2> HIDE DEF Good, N
  <2> QED BY <1>4, <2>1
<1> QED
  BY <1>5

LEMMA PathIsWalk ==
  /\ PathOf = CHOOSE f : f = Walk(registry, Len(registry), f)
  /\ PathOf' = CHOOSE f : f = Walk(registry', Len(registry'), f)
  BY DEF PathOf, Walk, Step, Ids

(* A path that is recursive by definition is so in fact. *)
LEMMA WalkUnfolds ==
  ASSUME NEW reg, NEW last \in Nat, NEW path,
         \A n \in 1 .. last : reg[n].parent \in 0 .. n - 1,
         path = CHOOSE f : f = Walk(reg, last, f)
  PROVE  path = Walk(reg, last, path)
  BY WalkExists, Zenon

LEMMA WalkAt ==
  ASSUME NEW reg, NEW last \in Nat, NEW path, path = Walk(reg, last, path)
  PROVE  \A n \in 1 .. last : path[n] = IF reg[n].parent = 0 THEN <<>>
                                        ELSE Append(path[reg[n].parent], Step(reg, n))
  BY DEF Walk

Parents(reg) == \A n \in 1 .. Len(reg) : reg[n].parent \in 0 .. n - 1

LEMMA ParentsOlder ==
  ASSUME TypeOK, ShapeInv
  PROVE  /\ Len(registry) \in Nat /\ Root \in Ids /\ registry[Root].parent = 0
         /\ \A n \in Ids \ {Root} : registry[n].parent \in Ids /\ registry[n].parent # 0
         /\ Parents(registry)
<1>1. Len(registry) \in Nat /\ Len(registry) >= 1
  BY DEF TypeOK
<1> QED
  BY <1>1 DEF ShapeInv, NodesAgree, Ids, Root, Parents

LEMMA PathUnfolds ==
  ASSUME TypeOK, ShapeInv
  PROVE  /\ PathOf[Root] = <<>>
         /\ \A n \in Ids \ {Root} :
               PathOf[n] = Append(PathOf[registry[n].parent], Step(registry, n))
<1>1. \A n \in Ids : PathOf[n] = IF registry[n].parent = 0 THEN <<>>
                                ELSE Append(PathOf[registry[n].parent], Step(registry, n))
  <2>1. Len(registry) \in Nat /\ Parents(registry)
    BY ParentsOlder, Zenon
  <2>2. \A n \in 1 .. Len(registry) : registry[n].parent \in 0 .. n - 1
    BY <2>1, Zenon DEF Parents
  <2>3. PathOf = CHOOSE f : f = Walk(registry, Len(registry), f)
    BY PathIsWalk, Zenon
  <2>4. \A n \in 1 .. Len(registry) :
           PathOf[n] = IF registry[n].parent = 0 THEN <<>>
                       ELSE Append(PathOf[registry[n].parent], Step(registry, n))
    <3> DEFINE reg == registry
               last == Len(registry)
               path == PathOf
    <3>1. last \in Nat /\ \A n \in 1 .. last : reg[n].parent \in 0 .. n - 1
      BY <2>1, <2>2
    <3>2. path = CHOOSE f : f = Walk(reg, last, f)
      BY <2>3
    <3> HIDE DEF reg, last, path
    <3>3. path = Walk(reg, last, path)
      BY <3>1, <3>2, WalkUnfolds, Zenon
    <3>4. \A n \in 1 .. last : path[n] = IF reg[n].parent = 0 THEN <<>>
                                         ELSE Append(path[reg[n].parent], Step(reg, n))
      BY <3>1, <3>3, WalkAt, Zenon
    <3> QED BY <3>4 DEF reg, last, path
  <2> QED BY <2>4 DEF Ids
<1>2. Root \in Ids /\ registry[Root].parent = 0
      /\ \A n \in Ids \ {Root} : registry[n].parent # 0
  BY ParentsOlder, Zenon
<1> QED
  BY <1>1, <1>2, Zenon

LEMMA NextPathUnfolds ==
  ASSUME TypeOK', ShapeInv'
  PROVE  /\ PathOf'[Root] = <<>>
         /\ \A n \in Ids' \ {Root} :
               PathOf'[n] = Append(PathOf'[registry'[n].parent], Step(registry', n))
<1> DEFINE reg == registry'
           last == Len(registry')
           path == PathOf'
<1>1. last \in Nat /\ last >= 1
  BY DEF TypeOK
<1>2. \A n \in 1 .. last : reg[n].parent \in 0 .. n - 1
  BY <1>1 DEF ShapeInv, NodesAgree, Ids, Root
<1>3. /\ reg[1].parent = 0 /\ 1 \in 1 .. last
      /\ \A n \in 1 .. last : n # 1 => reg[n].parent # 0
  BY <1>1 DEF ShapeInv, NodesAgree, Ids, Root
<1>4. path = CHOOSE f : f = Walk(reg, last, f)
  BY PathIsWalk
<1> HIDE DEF reg, last, path
<1>5. path = Walk(reg, last, path)
  BY <1>1, <1>2, <1>4, WalkUnfolds, Zenon
<1>6. \A n \in 1 .. last : path[n] = IF reg[n].parent = 0 THEN <<>>
                                     ELSE Append(path[reg[n].parent], Step(reg, n))
  BY <1>1, <1>5, WalkAt, Zenon
<1>7. /\ path[1] = <<>>
      /\ \A n \in 1 .. last : n # 1 => path[n] = Append(path[reg[n].parent], Step(reg, n))
  BY <1>6, <1>3, Zenon
<1> QED
  BY <1>7 DEF reg, last, path, Ids, Root

(* A node keeps its path: no step changes what leads to it. *)
LEMMA PathStable ==
  ASSUME TypeOK, LocalsOK, ShapeInv, TypeOK', ShapeInv', [Next]_vars
  PROVE  \A n \in Ids : PathOf'[n] = PathOf[n]
<1> DEFINE S == {n \in Ids : PathOf'[n] = PathOf[n]}
           N == Len(registry)
<1>1. /\ N \in Nat /\ Ids = 1 .. N /\ Root \in Ids
      /\ \A n \in Ids \ {Root} : registry[n].parent \in 1 .. n - 1
  BY ParentsOlder DEF Ids, ShapeInv, NodesAgree
<1>2. /\ \A n \in Ids : n \in Ids' /\ registry'[n] = registry[n]
  BY TreeGrows
<1>3. ASSUME NEW n \in 1 .. N, \A k \in 1 .. n - 1 : k \in S
      PROVE  n \in S
  <2>1. CASE n = Root
    <3>1. PathOf'[Root] = PathOf[Root]
      BY PathUnfolds, NextPathUnfolds, Zenon
    <3> QED BY <1>1, <2>1, <3>1
  <2>2. CASE n # Root
    <3> DEFINE par == registry[n].parent
    <3>1. n \in Ids \ {Root} /\ n \in Ids' \ {Root} /\ registry'[n] = registry[n]
      BY <1>1, <1>2, <2>2
    <3>2. par \in S
      BY <1>1, <1>3, <3>1
    <3>3. PathOf'[par] = PathOf[par]
      BY <3>2
    <3>4. Step(registry', n) = Step(registry, n)
      BY <3>1 DEF Step
    <3>5. PathOf'[n] = Append(PathOf'[registry'[n].parent], Step(registry', n))
      BY <3>1, NextPathUnfolds, Zenon
    <3>6. PathOf[n] = Append(PathOf[par], Step(registry, n))
      BY <3>1, PathUnfolds, Zenon
    <3>7. PathOf'[n] = PathOf[n]
      BY <3>1, <3>3, <3>4, <3>5, <3>6, Zenon
    <3> QED BY <3>1, <3>7
  <2> QED BY <2>1, <2>2
<1>4. \A n \in 1 .. N : n \in S
  <2> HIDE DEF S, N
  <2>1. N \in Nat
    BY <1>1, Zenon
  <2> QED BY <1>3, <2>1, InductionUpTo, Zenon
<1> QED
  BY <1>1, <1>4

LEMMA OneLonger ==
  ASSUME NEW S, NEW s \in Seq(S), NEW e \in S
  PROVE  Append(s, e) \in Seq(S) /\ Append(s, e) # <<>>
  BY AppendProperties, SMT

PathSteps == [expr : Exprs \cup {NoExpr}, value : BOOLEAN]

LEMMA PathsAreSequences ==
  ASSUME TypeOK, ShapeInv
  PROVE  \A n \in Ids : PathOf[n] \in Seq(PathSteps) /\ Step(registry, n) \in PathSteps
<1> DEFINE S == {n \in Ids : PathOf[n] \in Seq(PathSteps)}
           N == Len(registry)
<1>1. /\ N \in Nat /\ Ids = 1 .. N /\ Root \in Ids
      /\ \A n \in Ids \ {Root} : registry[n].parent \in 1 .. n - 1
  BY ParentsOlder DEF Ids, ShapeInv, NodesAgree
<1>2. ASSUME NEW n \in Ids
      PROVE  Step(registry, n) \in PathSteps
  <2>1. registry[n] \in [parent : Nat, expr : Exprs \cup {NoExpr},
                         value : BOOLEAN, depth : Nat]
    BY ElementOfSeq DEF TypeOK, Ids
  <2> QED BY <2>1 DEF Step, PathSteps
<1>3. ASSUME NEW n \in 1 .. N, \A k \in 1 .. n - 1 : k \in S
      PROVE  n \in S
  <2>1. CASE n = Root
    <3>1. PathOf[n] = <<>>
      BY <2>1, PathUnfolds, Zenon
    <3>2. <<>> \in Seq(PathSteps)
      OBVIOUS
    <3> QED BY <1>1, <2>1, <3>1, <3>2, Zenon
  <2>2. CASE n # Root
    <3> DEFINE par == registry[n].parent
    <3>1. n \in Ids \ {Root} /\ par \in S
      BY <1>1, <1>3, <2>2
    <3>2. PathOf[n] = Append(PathOf[par], Step(registry, n))
      BY <3>1, PathUnfolds, Zenon
    <3>3. PathOf[par] \in Seq(PathSteps) /\ Step(registry, n) \in PathSteps
      BY <1>2, <3>1
    <3>4. PathOf[n] \in Seq(PathSteps)
      BY <3>2, <3>3, OneLonger, Zenon
    <3> QED BY <3>1, <3>4
  <2> QED BY <2>1, <2>2
<1>4. \A n \in 1 .. N : n \in S
  <2> HIDE DEF S, N
  <2>1. N \in Nat
    BY <1>1, Zenon
  <2> QED BY <1>3, <2>1, InductionUpTo, Zenon
<1> QED
  BY <1>1, <1>2, <1>4

(* When every node is linked, a path names one node: along two equal paths *)
(* the parents are the same, and siblings differ.                          *)
Linked(n) == n = Root \/ n \in ChildrenOf(registry[n].parent)

LEMMA PathsDiffer ==
  ASSUME TypeOK, ShapeInv, SiblingsDistinct, \A n \in Ids : Linked(n)
  PROVE  \A m, n \in Ids : PathOf[m] = PathOf[n] => m = n
<1> DEFINE S == {m \in Ids : \A n \in Ids : PathOf[m] = PathOf[n] => m = n}
           N == Len(registry)
<1>1. /\ N \in Nat /\ Ids = 1 .. N /\ Root \in Ids
      /\ \A n \in Ids \ {Root} : registry[n].parent \in 1 .. n - 1 /\ registry[n].parent \in Ids
  BY ParentsOlder DEF Ids, ShapeInv, NodesAgree
<1>2. ASSUME NEW n \in Ids \ {Root}
      PROVE  /\ PathOf[n] = Append(PathOf[registry[n].parent], Step(registry, n))
             /\ PathOf[registry[n].parent] \in Seq(PathSteps) /\ Step(registry, n) \in PathSteps
             /\ PathOf[n] # <<>>
  <2>1. /\ PathOf[n] = Append(PathOf[registry[n].parent], Step(registry, n))
        /\ PathOf[registry[n].parent] \in Seq(PathSteps) /\ Step(registry, n) \in PathSteps
    BY <1>1, PathUnfolds, PathsAreSequences, Zenon
  <2>2. Append(PathOf[registry[n].parent], Step(registry, n)) # <<>>
    <3> DEFINE t == PathOf[registry[n].parent]
               e == Step(registry, n)
    <3>1. t \in Seq(PathSteps) /\ e \in PathSteps
      BY <2>1, Zenon
    <3> HIDE DEF t, e
    <3>2. Append(t, e) # <<>>
      BY <3>1, OneLonger
    <3> QED BY <3>2, Zenon DEF t, e
  <2> QED BY <2>1, <2>2, Zenon
<1>3. ASSUME NEW m \in 1 .. N, \A k \in 1 .. m - 1 : k \in S
      PROVE  m \in S
  <2> SUFFICES ASSUME NEW n \in Ids, PathOf[m] = PathOf[n] PROVE m = n
    BY <1>1
  <2>1. CASE m = Root \/ n = Root
    <3>1. PathOf[Root] = <<>>
      BY PathUnfolds, Zenon
    <3> QED BY <1>1, <1>2, <2>1, <3>1
  <2>2. CASE m # Root /\ n # Root
    <3>1. m \in Ids \ {Root} /\ n \in Ids \ {Root}
      BY <1>1, <2>2
    <3>2. /\ PathOf[registry[m].parent] = PathOf[registry[n].parent]
          /\ Step(registry, m) = Step(registry, n)
      <4> DEFINE s == PathOf[registry[m].parent]
                 t == PathOf[registry[n].parent]
                 d == Step(registry, m)
                 e == Step(registry, n)
      <4>1. Append(s, d) = Append(t, e)
        BY <1>2, <3>1, Zenon
      <4>2. s \in Seq(PathSteps) /\ t \in Seq(PathSteps) /\ d \in PathSteps /\ e \in PathSteps
        BY <1>2, <3>1, Zenon
      <4> HIDE DEF s, t, d, e
      <4>3. s = t /\ d = e
        BY <4>1, <4>2, AppendInjective
      <4> QED BY <4>3, Zenon DEF s, t, d, e
    <3>3. registry[m].parent \in S /\ registry[n].parent \in Ids
      BY <1>1, <1>3, <3>1
    <3>4. registry[m].parent = registry[n].parent
      BY <3>2, <3>3
    <3>5. /\ registry[m].expr = registry[n].expr
          /\ registry[m].value = registry[n].value
      BY <3>2 DEF Step
    <3>6. /\ m \in ChildrenOf(registry[n].parent)
          /\ n \in ChildrenOf(registry[n].parent)
      BY <3>1, <3>4, Zenon DEF Linked
    <3> QED BY <3>3, <3>5, <3>6, OneNodePerSide, Zenon
  <2> QED BY <2>1, <2>2
<1>4. \A m \in 1 .. N : m \in S
  <2> HIDE DEF S, N
  <2>1. N \in Nat
    BY <1>1, Zenon
  <2> QED BY <1>3, <2>1, InductionUpTo, Zenon
<1> QED
  BY <1>1, <1>4

-----------------------------------------------------------------------------
(* The order in which add_branch makes its two nodes.  Without interrupts  *)
(* a node is linked at the line after its registration, and what waits in  *)
(* the pool is the second side of its branch.                              *)
Attached ==
    \A n \in Ids :
        \/ Linked(n)
        \/ pc = "link_taken" /\ n = branch.taken
        \/ pc = "link_alternative" /\ n = branch.alternative

MadeInOrder ==
    /\ pc = "register_taken" => branch.taken = 0
    /\ pc \in {"register_taken", "link_taken", "mark_taken", "register_alternative"}
          => branch.alternative = 0
    /\ pc \in {"link_alternative", "enqueue"} => branch.taken < branch.alternative

SecondWaits == \A a \in Pending : IsAlternative(a)

(* What optimize() rewrote came out of the pool. *)
SecondRewritten == \A r \in rewritten : IsAlternative(r)

LinkInv == Attached /\ MadeInOrder /\ SecondWaits /\ SecondRewritten

LEMMA LinkedStable ==
  ASSUME TypeOK, LocalsOK, ShapeInv, [Next]_vars, NEW n \in Ids
  PROVE  /\ Linked(n) => Linked(n)'
         /\ IsAlternative(n) => IsAlternative(n)'
<1>1. Ids \subseteq Ids' /\ registry'[n] = registry[n]
  BY TreeGrows
<1>2. CASE n = Root
  BY <1>2 DEF Linked, IsAlternative
<1>3. CASE n # Root
  <2> DEFINE par == registry[n].parent
  <2>1. par \in Ids
    BY <1>3, ParentsOlder
  <2>2. ChildrenOf(par) \subseteq ChildrenOf(par)' /\ ChildrenOf(par) \subseteq Ids
    BY <2>1, TreeGrows, ChildrenAreIds
  <2>3. \A t \in ChildrenOf(par) : registry'[t] = registry[t]
    BY <2>2, TreeGrows
  <2>4. Linked(n) => Linked(n)'
    BY <1>1, <1>3, <2>2 DEF Linked
  <2>5. IsAlternative(n) => IsAlternative(n)'
    BY <1>1, <1>3, <2>2, <2>3 DEF IsAlternative
  <2> QED BY <2>4, <2>5
<1> QED
  BY <1>2, <1>3

(* Only Enqueue adds to the pool. *)
LEMMA PoolShrinks ==
  ASSUME TypeOK, [Next]_vars, ~Enqueue
  PROVE  Pending' \subseteq Pending /\ Pending \subseteq Ids
<1>1. pool \in Seq(Ids)
  BY DEF TypeOK
<1>2. Pending \subseteq Ids
  BY <1>1, ElementOfSeq, LenProperties DEF Pending
<1>3. ASSUME UNCHANGED pool PROVE Pending' = Pending
  BY <1>3 DEF Pending
<1>4. ASSUME NEW i \in DOMAIN pool, Solve(i) PROVE Pending' \subseteq Pending
  <2>1. pool' = SubSeq(pool, 1, i - 1) \o SubSeq(pool, i + 1, Len(pool))
    BY <1>4 DEF Solve
  <2>2. \A j \in DOMAIN pool' : \E k \in DOMAIN pool : pool'[j] = pool[k]
    BY <1>1, <2>1, RemoveAtKeepsRest
  <2> QED BY <2>2 DEF Pending
<1>5. CASE ClearPool
  <2>1. Pending' = {}
    BY <1>5 DEF ClearPool, Pending
  <2> QED BY <1>2, <2>1
<1>6. CASE RegisterTaken \/ LinkTaken \/ MarkTaken \/ RegisterAlternative \/ LinkAlternative
           \/ Reset \/ TagAlternative \/ TagTaken \/ Advance \/ Deliver
           \/ Interrupt \/ Swallow \/ Finish
  <2>1. UNCHANGED pool
    BY <1>6 DEF RegisterTaken, LinkTaken, MarkTaken, RegisterAlternative, LinkAlternative,
                Reset, TagAlternative, TagTaken, Advance, Deliver, Interrupt, Swallow, Finish
  <2> QED BY <1>2, <1>3, <2>1
<1>7. ASSUME NEW c \in Conditions, NEW v \in BOOLEAN,
             BranchNew(c, v) \/ BranchKnown(c, v) \/ BranchInconsistent(c, v)
      PROVE  Pending' = Pending
  BY <1>3, <1>7 DEF BranchNew, BranchKnown, BranchInconsistent, Evaluates
<1>8. CASE UNCHANGED vars
  BY <1>2, <1>3, <1>8 DEF vars
<1> QED
  BY <1>2, <1>4, <1>5, <1>6, <1>7, <1>8 DEF Next

LEMMA LinkStep ==
  ASSUME TypeOK, LocalsOK, ShapeInv, PoolInv, TagInv', LinkInv, [Next]_vars
  PROVE  LinkInv'
<1> USE DEF LinkInv
<1>1. Len(registry) \in Nat /\ current \in Ids
  BY DEF TypeOK
<1>2. ASSUME ~Enqueue PROVE SecondWaits'
  <2>1. Pending' \subseteq Pending /\ Pending \subseteq Ids
    BY <1>2, PoolShrinks
  <2> QED BY <2>1, LinkedStable DEF SecondWaits
<1>3. ASSUME Ids' = Ids, pc \notin {"link_taken", "link_alternative"}
      PROVE  Attached'
  BY <1>3, LinkedStable DEF Attached
<1>16. SecondRewritten'
  <2>1. rewritten \subseteq Ids /\ Pending \subseteq Ids
    BY ElementOfSeq, LenProperties DEF TypeOK, Pending
  <2>2. rewritten' \subseteq rewritten \cup Pending
    BY RewrittenFromPool
  <2> QED BY <2>1, <2>2, LinkedStable DEF SecondRewritten, SecondWaits
<1>4. CASE RegisterTaken
  <2>1. branch.expr \in Exprs /\ branch.value \in BOOLEAN
    BY <1>4 DEF TypeOK, LocalsOK, RegisterTaken, Branching, Creating
  <2>2. /\ pc = "register_taken" /\ pc' = "link_taken"
        /\ branch'.taken = Len(registry) + 1 /\ branch'.alternative = branch.alternative
        /\ Register(branch.expr, branch.value) /\ ~Enqueue
    BY <1>4 DEF RegisterTaken, TypeOK, Enqueue
  <2>3. Ids' = Ids \cup {Len(registry) + 1}
    <3>1. Len(registry') = Len(registry) + 1
      BY <2>1, <2>2, RegisterExtends
    <3> QED BY <1>1, <3>1 DEF Ids
  <2>4. \A n \in Ids : Linked(n)'
    BY <2>2, LinkedStable DEF Attached
  <2> QED BY <1>2, <1>16, <2>2, <2>3, <2>4 DEF Attached, MadeInOrder
<1>5. CASE RegisterAlternative
  <2>1. branch.expr \in Exprs /\ (~branch.value) \in BOOLEAN
    BY <1>5 DEF TypeOK, LocalsOK, RegisterAlternative, Branching, Creating
  <2>2. /\ pc = "register_alternative" /\ pc' = "link_alternative"
        /\ branch'.taken = branch.taken /\ branch'.alternative = Len(registry) + 1
        /\ Register(branch.expr, ~branch.value) /\ ~Enqueue
    BY <1>5 DEF RegisterAlternative, TypeOK, Enqueue
  <2>3. Ids' = Ids \cup {Len(registry) + 1}
    <3>1. Len(registry') = Len(registry) + 1
      BY <2>1, <2>2, RegisterExtends
    <3> QED BY <1>1, <3>1 DEF Ids
  <2>4. \A n \in Ids : Linked(n)'
    BY <2>2, LinkedStable DEF Attached
  <2>5. branch.taken < Len(registry) + 1
    <3>1. branch.taken \in Ids
      BY <2>2 DEF LocalsOK, TakenPcs
    <3> QED BY <1>1, <3>1 DEF Ids
  <2> QED BY <1>2, <1>16, <2>2, <2>3, <2>4, <2>5 DEF Attached, MadeInOrder
<1>6. CASE LinkTaken
  <2>1. branch.taken \in Ids
    BY <1>6 DEF LinkTaken, LocalsOK, TakenPcs
  <2>2. /\ pc = "link_taken" /\ pc' = "mark_taken" /\ Link(branch.taken)
        /\ UNCHANGED <<registry, branch>> /\ ~Enqueue
        /\ registry[branch.taken].parent = current
    BY <1>6 DEF LinkTaken, Enqueue, ShapeInv, AboutToLink
  <2>3. branch.taken \in ChildrenOf(current)'
    <3>1. ChildrenOf(current)' = ChildrenOf(current) \cup {branch.taken}
      BY <1>1, <1>6, <2>1, <2>2, LinkAdds DEF LinkTaken
    <3> QED BY <3>1
  <2>4. Linked(branch.taken)'
    <3>1. current' = current
      BY <1>6 DEF LinkTaken
    <3> QED BY <2>2, <2>3, <3>1 DEF Linked
  <2>5. \A n \in Ids : n # branch.taken => Linked(n)'
    BY <2>2, LinkedStable DEF Attached
  <2>6. Attached'
    BY <2>2, <2>4, <2>5 DEF Attached, Ids
  <2> QED BY <1>2, <1>16, <2>2, <2>6 DEF MadeInOrder
<1>7. CASE LinkAlternative
  <2>1. branch.alternative \in Ids
    BY <1>7 DEF LinkAlternative, LocalsOK, AlternativePcs
  <2>2. /\ pc = "link_alternative" /\ pc' = "enqueue" /\ Link(branch.alternative)
        /\ UNCHANGED <<registry, branch, current>> /\ ~Enqueue
        /\ registry[branch.alternative].parent = current
    BY <1>7 DEF LinkAlternative, Enqueue, ShapeInv, AboutToLink
  <2>3. branch.alternative \in ChildrenOf(current)'
    <3>1. \A n \in Ids : ChildrenOf(n)' = IF n = current
                                           THEN ChildrenOf(n) \cup {branch.alternative}
                                           ELSE ChildrenOf(n)
      BY <2>1, <2>2, LinkAdds
    <3> QED BY <1>1, <2>2, <3>1
  <2>4. Linked(branch.alternative)'
    BY <2>2, <2>3 DEF Linked
  <2>5. \A n \in Ids : n # branch.alternative => Linked(n)'
    BY <2>2, LinkedStable DEF Attached
  <2>6. Attached'
    BY <2>2, <2>4, <2>5 DEF Attached, Ids
  <2> QED BY <1>2, <1>16, <2>2, <2>6 DEF MadeInOrder
<1>8. CASE MarkTaken
  <2>1. /\ pc = "mark_taken" /\ pc' = "register_alternative"
        /\ UNCHANGED <<registry, branch>> /\ ~Enqueue
    BY <1>8 DEF MarkTaken, Enqueue
  <2> QED BY <1>2, <1>16, <1>3, <2>1 DEF MadeInOrder, Ids
<1>9. CASE Enqueue
  <2>1. /\ pc = "enqueue" /\ pc' \in {"advance", "tag_alternative"}
        /\ pool' = Append(pool, branch.alternative) /\ pool \in Seq(Ids)
        /\ branch.alternative \in Ids /\ branch.taken \in Ids
        /\ UNCHANGED <<registry, children, current>>
    BY <1>9 DEF Enqueue, AfterLookup, tree, LocalsOK, AlternativePcs, TakenPcs, TypeOK
  <2>2. Pending' = Pending \cup {branch.alternative}
    <3>1. /\ DOMAIN pool' = DOMAIN pool \cup {Len(pool) + 1}
          /\ \A i \in DOMAIN pool : pool'[i] = pool[i]
          /\ pool'[Len(pool) + 1] = branch.alternative
      BY <2>1, AppendProperties, LenProperties
    <3> QED BY <3>1 DEF Pending
  <2>3. IsAlternative(branch.alternative)
    <3>1. /\ branch.alternative \in ChildrenOf(current) /\ branch.taken \in ChildrenOf(current)
          /\ registry[branch.alternative].expr = branch.expr
          /\ registry[branch.taken].expr = branch.expr
          /\ branch.taken < branch.alternative
      BY <2>1 DEF PoolInv, TakenAchieved, AlternativeAchieved, Creating, MadeInOrder
    <3>2. branch.alternative # Root /\ registry[branch.alternative].parent = current
      BY <1>1, <3>1 DEF ShapeInv, LinksAgree
    <3> QED BY <3>1, <3>2 DEF IsAlternative
  <2>4. SecondWaits'
    <3>1. Pending \subseteq Ids
      BY <2>1, ElementOfSeq, LenProperties DEF Pending
    <3> QED BY <2>1, <2>2, <2>3, <3>1, LinkedStable DEF SecondWaits
  <2> QED BY <1>3, <1>16, <2>1, <2>4 DEF MadeInOrder, Ids
<1>10. ASSUME UNCHANGED registry, ~Enqueue, pc' \notin Creating,
              pc \notin {"link_taken", "link_alternative"}
       PROVE  LinkInv'
  BY <1>2, <1>3, <1>10, <1>16 DEF MadeInOrder, Ids, Creating
<1>11. CASE Reset \/ TagAlternative \/ TagTaken \/ Advance \/ Deliver
            \/ Swallow \/ Finish \/ ClearPool
  <2>1. /\ UNCHANGED registry /\ ~Enqueue /\ pc' \notin Creating
        /\ pc \notin {"link_taken", "link_alternative"}
    BY <1>11 DEF Reset, TagAlternative, TagTaken, Advance, Deliver, Swallow,
                 Finish, ClearPool, tree, Creating, Enqueue
  <2> QED BY <1>10, <2>1
<1>12. CASE Interrupt
  <2>1. pc' = "unwinding"
    BY <1>12 DEF Interrupt
  <2>2. pc' # "unwinding"
    BY DEF TagInv
  <2> QED BY <2>1, <2>2
<1>13. ASSUME NEW i \in DOMAIN pool, Solve(i) PROVE LinkInv'
  <2>1. /\ UNCHANGED registry /\ ~Enqueue /\ pc' \notin Creating
        /\ pc \notin {"link_taken", "link_alternative"}
    BY <1>13 DEF Solve, Creating, Enqueue
  <2> QED BY <1>10, <2>1
<1>14. ASSUME NEW c \in Conditions, NEW v \in BOOLEAN,
              BranchNew(c, v) \/ BranchKnown(c, v) \/ BranchInconsistent(c, v)
       PROVE  LinkInv'
  <2>1. /\ UNCHANGED registry /\ pc = "run" /\ ~Enqueue
        /\ pc' \in {"register_taken", "advance", "tag_alternative", "inconsistent"}
        /\ pc' = "register_taken" => branch'.taken = 0 /\ branch'.alternative = 0
    BY <1>14 DEF BranchNew, BranchKnown, BranchInconsistent, Evaluates, AfterLookup, tree,
                 Enqueue
  <2> QED BY <1>2, <1>16, <1>3, <2>1 DEF MadeInOrder, Ids
<1>15. CASE UNCHANGED vars
  <2>1. /\ UNCHANGED <<registry, children, pc, branch>> /\ Pending' = Pending
    BY <1>15 DEF vars, Pending
  <2> QED BY <1>16, <2>1 DEF Attached, Linked, MadeInOrder, SecondWaits, IsAlternative, Ids, ChildrenOf
<1> QED
  BY <1>4, <1>5, <1>6, <1>7, <1>8, <1>9, <1>11, <1>12, <1>13, <1>14, <1>15 DEF Next

-----------------------------------------------------------------------------
(* The path of the current node, and the decisions.  Between Advance and   *)
(* Deliver the tree is one decision ahead of the target.                   *)
PathInv ==
    /\ pc \in {"run", "inconsistent"} \cup (Branching \ {"deliver"})
          => PathOf[current] = decisions
    /\ pc = "deliver" =>
          PathOf[current] = Append(decisions, [expr |-> branch.expr, value |-> branch.value])

LEMMA PathStep ==
  ASSUME TypeOK, LocalsOK, ShapeInv, TagInv, TypeOK', ShapeInv', TagInv', PathInv, [Next]_vars
  PROVE  PathInv'
<1> USE DEF PathInv, Branching, Creating
<1>1. current \in Ids /\ \A n \in Ids : PathOf'[n] = PathOf[n]
  BY PathStable DEF TypeOK
<1>2. ASSUME UNCHANGED <<current, decisions>>, pc' # "deliver",
             pc \in {"run", "inconsistent"} \cup (Branching \ {"deliver"})
      PROVE  PathInv'
  BY <1>1, <1>2
<1>3. CASE RegisterTaken \/ LinkTaken \/ MarkTaken \/ RegisterAlternative \/ LinkAlternative
           \/ Enqueue \/ TagAlternative \/ TagTaken
  <2>1. /\ UNCHANGED <<current, decisions>> /\ pc' # "deliver"
        /\ pc \in {"run", "inconsistent"} \cup (Branching \ {"deliver"})
    BY <1>3 DEF RegisterTaken, LinkTaken, MarkTaken, RegisterAlternative, LinkAlternative,
                Enqueue, TagAlternative, TagTaken, AfterLookup
  <2> QED BY <1>2, <2>1
<1>4. ASSUME NEW c \in Conditions, NEW v \in BOOLEAN,
             BranchNew(c, v) \/ BranchKnown(c, v) \/ BranchInconsistent(c, v)
      PROVE  PathInv'
  <2>1. UNCHANGED <<current, decisions>> /\ pc' # "deliver" /\ pc = "run"
    BY <1>4 DEF BranchNew, BranchKnown, BranchInconsistent, Evaluates, AfterLookup
  <2> QED BY <1>2, <2>1
<1>5. CASE Reset
  <2>1. pc' = "run" /\ current' = Root /\ decisions' = <<>>
    BY <1>5 DEF Reset
  <2>2. PathOf'[Root] = <<>>
    BY NextPathUnfolds, Zenon
  <2> QED BY <2>1, <2>2
<1>6. CASE Advance
  <2>1. /\ pc = "advance" /\ pc' = "deliver" /\ current' = branch.taken
        /\ UNCHANGED <<branch, decisions>>
    BY <1>6 DEF Advance
  <2>2. /\ branch.taken \in ChildrenOf(current)
        /\ registry[branch.taken].expr = branch.expr
        /\ registry[branch.taken].value = branch.value
    BY <2>1 DEF TagInv, TwoSides
  <2>3. branch.taken \in Ids \ {Root} /\ registry[branch.taken].parent = current
    BY <1>1, <2>2, ChildrenAreIds DEF ShapeInv, LinksAgree
  <2>4. PathOf[branch.taken] = Append(PathOf[current], Step(registry, branch.taken))
    BY <2>3, PathUnfolds, Zenon
  <2>5. Step(registry, branch.taken) = [expr |-> branch.expr, value |-> branch.value]
    BY <2>2 DEF Step
  <2>6. PathOf[current] = decisions
    BY <2>1
  <2>7. PathOf'[branch.taken] = Append(decisions, [expr |-> branch.expr, value |-> branch.value])
    BY <1>1, <2>3, <2>4, <2>5, <2>6, Zenon
  <2> QED BY <2>1, <2>7
<1>7. CASE Deliver
  <2>1. /\ pc = "deliver" /\ pc' = "run" /\ UNCHANGED current
        /\ decisions' = Append(decisions, [expr |-> branch.expr, value |-> branch.value])
    BY <1>7 DEF Deliver
  <2> QED BY <1>1, <2>1
<1>8. CASE Swallow
  <2>1. pc = "inconsistent" /\ pc' = "run" /\ UNCHANGED <<current, decisions>>
    BY <1>8 DEF Swallow, TagInv
  <2> QED BY <1>2, <2>1
<1>9. CASE Finish \/ ClearPool \/ Interrupt
  <2>1. pc' \in {"idle", "unwinding"}
    BY <1>9 DEF Finish, ClearPool, Interrupt
  <2> QED BY <2>1
<1>10. ASSUME NEW i \in DOMAIN pool, Solve(i) PROVE PathInv'
  <2>1. pc' = "idle"
    BY <1>10 DEF Solve
  <2> QED BY <2>1
<1>11. CASE UNCHANGED vars
  <2>1. UNCHANGED <<current, decisions, pc, branch>>
    BY <1>11 DEF vars
  <2> QED BY <1>1, <2>1
<1> QED
  BY <1>3, <1>4, <1>5, <1>6, <1>7, <1>8, <1>9, <1>10, <1>11 DEF Next

(* The inductive invariant of both theorems. *)
Whole == TypeOK /\ LocalsOK /\ ShapeInv /\ PoolInv /\ SiblingInv /\ TagInv /\ LinkInv /\ PathInv

LEMMA InitWhole == Init => Whole
<1> SUFFICES ASSUME Init PROVE Whole
  OBVIOUS
<1>1. TypeOK /\ LocalsOK /\ ShapeInv /\ PoolInv /\ SiblingInv
  BY InitTypes, InitShape, InitPool, InitSiblings
<1>2. /\ Len(registry) = 1 /\ children[1] = <<>> /\ pc = "idle" /\ pool = <<>>
  BY DEF Init
<1>3. TagInv
  BY <1>2 DEF TagInv, Alike, Untagged, TwoSides, ChildrenOf, Ids, Creating
<1>4. LinkInv
  <2>1. rewritten = {}
    BY DEF Init
  <2> QED BY <1>2, <2>1 DEF LinkInv, Attached, Linked, MadeInOrder, SecondWaits,
                            SecondRewritten, Pending, Ids, Root
<1>5. PathInv
  BY <1>2 DEF PathInv, Branching, Creating
<1> QED
  BY <1>1, <1>3, <1>4, <1>5 DEF Whole

LEMMA WholeStep ==
  ASSUME Interrupts = FALSE, Whole, [Next]_vars
  PROVE  Whole'
<1>1. TypeOK /\ LocalsOK /\ ShapeInv /\ PoolInv /\ SiblingInv /\ TagInv /\ LinkInv /\ PathInv
  BY Zenon DEF Whole
<1>2. TypeOK' /\ LocalsOK'
  BY <1>1, TypeStep
<1>3. ShapeInv'
  BY <1>1, <1>2, ShapeStep
<1>4. PoolInv' /\ SiblingInv'
  BY <1>1, PoolStep, SiblingStep
<1>5. TagInv'
  BY <1>1, TagStep, Zenon
<1>6. LinkInv'
  BY <1>1, <1>5, LinkStep, Zenon
<1>7. PathInv'
  BY <1>1, <1>2, <1>3, <1>5, PathStep, Zenon
<1> QED
  BY <1>2, <1>3, <1>4, <1>5, <1>6, <1>7, Zenon DEF Whole

(* PathMatchesDecisions: while the target runs, the current node stands    *)
(* for exactly the condition values the target was given, also when it     *)
(* swallows a PathConstraintError, as long as no deadline strikes.         *)
THEOREM PathMatchesDecisionsHolds ==
  ASSUME Interrupts = FALSE
  PROVE  Spec => []PathMatchesDecisions
<1>1. Init => Whole
  BY InitWhole
<1>2. Whole /\ [Next]_vars => Whole'
  BY WholeStep, Zenon
<1>3. Whole => PathMatchesDecisions
  BY DEF Whole, PathInv, PathMatchesDecisions
<1> QED
  BY <1>1, <1>2, <1>3, PTL DEF Spec

-----------------------------------------------------------------------------
(* The refinement: what an observer of the frontier sees of the tree.      *)
Known == {PathOf[n] : n \in Settled}
Waits == {PathOf[n] : n \in Pending}
Tried == {PathOf[n] : n \in {m \in processed : IsAlternative(m)}}

LEMMA FrontierSteps ==
  /\ \A p \in Known, e \in Exprs, v \in BOOLEAN :
        LET one == Append(p, [expr |-> e, value |-> v])
            other == Append(p, [expr |-> e, value |-> ~v])
        IN  /\ one \notin Known /\ other \notin Known
            /\ Known' = Known \cup {one, other}
            /\ Waits' = Waits \cup {other}
            /\ Tried' = Tried
            => F!Next
  /\ \A p \in Waits :
        /\ p \notin Tried
        /\ Known' = Known
        /\ Waits' = Waits \ {p}
        /\ Tried' = Tried \cup {p}
        => F!Next
  /\ Waits # {} /\ Waits' = {} /\ Known' = Known /\ Tried' = Tried => F!Next
<1>1. ASSUME NEW p \in Known, NEW e \in Exprs, NEW v \in BOOLEAN,
             Append(p, [expr |-> e, value |-> v]) \notin Known,
             Append(p, [expr |-> e, value |-> ~v]) \notin Known,
             Known' = Known \cup {Append(p, [expr |-> e, value |-> v]),
                                  Append(p, [expr |-> e, value |-> ~v])},
             Waits' = Waits \cup {Append(p, [expr |-> e, value |-> ~v])},
             Tried' = Tried
      PROVE  F!Next
  <2> DEFINE d == [expr |-> e, value |-> v]
  <2>1. F!Flip(d) = [expr |-> e, value |-> ~v]
    BY DEF F!Flip
  <2>2. F!Discover(p, d)
    BY <1>1, <2>1, Zenon DEF F!Discover, Known, Waits, Tried
  <2> QED BY <2>2, Zenon DEF F!Next, Known
<1>2. ASSUME NEW p \in Waits, p \notin Tried, Known' = Known, Waits' = Waits \ {p},
             Tried' = Tried \cup {p}
      PROVE  F!Next
  <2>1. F!Attempt(p)
    BY <1>2, Zenon DEF F!Attempt, Known, Waits, Tried
  <2> QED BY <2>1, Zenon DEF F!Next, Waits
<1>3. ASSUME Waits # {}, Waits' = {}, Known' = Known, Tried' = Tried PROVE F!Next
  BY <1>3, Zenon DEF F!Next, F!GiveUp, Known, Waits, Tried
<1> QED
  BY <1>1, <1>2, <1>3, Zenon

(* Making a branch reveals nothing before Enqueue. *)
LEMMA SettledKept ==
  ASSUME TypeOK, LocalsOK, LinkInv, TagInv', [Next]_vars, ~Enqueue
  PROVE  Settled' = Settled
<1> USE DEF LinkInv, MadeInOrder
<1>1. Len(registry) \in Nat /\ 0 \notin Ids
  BY DEF TypeOK, Ids
<1>2. ASSUME Ids' = Ids, pc \notin Creating, pc' \notin Creating
      PROVE  Settled' = Settled
  BY <1>2 DEF Settled
<1>3. ASSUME Ids' = Ids, pc \in Creating, pc' \in Creating,
             branch'.taken = branch.taken, branch'.alternative = branch.alternative
      PROVE  Settled' = Settled
  BY <1>3 DEF Settled
<1>4. CASE RegisterTaken
  <2>1. branch.expr \in Exprs /\ branch.value \in BOOLEAN
    BY <1>4 DEF TypeOK, LocalsOK, RegisterTaken, Branching, Creating
  <2>2. /\ pc = "register_taken" /\ pc' = "link_taken"
        /\ branch'.taken = Len(registry) + 1 /\ branch'.alternative = branch.alternative
        /\ Register(branch.expr, branch.value)
    BY <1>4 DEF RegisterTaken, TypeOK
  <2>3. Ids' = Ids \cup {Len(registry) + 1} /\ Len(registry) + 1 \notin Ids
    <3>1. Len(registry') = Len(registry) + 1
      BY <2>1, <2>2, RegisterExtends
    <3> QED BY <1>1, <3>1 DEF Ids
  <2> QED BY <1>1, <2>2, <2>3 DEF Settled, Creating
<1>5. CASE RegisterAlternative
  <2>1. branch.expr \in Exprs /\ (~branch.value) \in BOOLEAN
    BY <1>5 DEF TypeOK, LocalsOK, RegisterAlternative, Branching, Creating
  <2>2. /\ pc = "register_alternative" /\ pc' = "link_alternative"
        /\ branch'.taken = branch.taken /\ branch'.alternative = Len(registry) + 1
        /\ Register(branch.expr, ~branch.value)
    BY <1>5 DEF RegisterAlternative, TypeOK
  <2>3. Ids' = Ids \cup {Len(registry) + 1} /\ Len(registry) + 1 \notin Ids
    <3>1. Len(registry') = Len(registry) + 1
      BY <2>1, <2>2, RegisterExtends
    <3> QED BY <1>1, <3>1 DEF Ids
  <2> QED BY <1>1, <2>2, <2>3 DEF Settled, Creating
<1>6. CASE LinkTaken \/ LinkAlternative \/ MarkTaken
  <2>1. UNCHANGED <<registry, branch>> /\ pc \in Creating /\ pc' \in Creating
    BY <1>6 DEF LinkTaken, LinkAlternative, MarkTaken, Creating
  <2> QED BY <1>3, <2>1 DEF Ids
<1>7. CASE Reset \/ TagAlternative \/ TagTaken \/ Advance \/ Deliver
           \/ Swallow \/ Finish \/ ClearPool
  <2>1. UNCHANGED registry /\ pc \notin Creating /\ pc' \notin Creating
    BY <1>7 DEF Reset, TagAlternative, TagTaken, Advance, Deliver, Swallow, Finish,
                ClearPool, tree, Creating
  <2> QED BY <1>2, <2>1 DEF Ids
<1>8. CASE Interrupt
  BY <1>8 DEF Interrupt, TagInv
<1>9. ASSUME NEW i \in DOMAIN pool, Solve(i) PROVE Settled' = Settled
  <2>1. UNCHANGED registry /\ pc \notin Creating /\ pc' \notin Creating
    BY <1>9 DEF Solve, Creating
  <2> QED BY <1>2, <2>1 DEF Ids
<1>10. ASSUME NEW c \in Conditions, NEW v \in BOOLEAN,
              BranchNew(c, v) \/ BranchKnown(c, v) \/ BranchInconsistent(c, v)
       PROVE  Settled' = Settled
  <2>1. /\ UNCHANGED registry /\ pc = "run"
        /\ pc' \in {"register_taken", "advance", "tag_alternative", "inconsistent"}
        /\ pc' = "register_taken" => branch'.taken = 0 /\ branch'.alternative = 0
    BY <1>10 DEF BranchNew, BranchKnown, BranchInconsistent, Evaluates, AfterLookup, tree
  <2>2. Ids' = Ids
    BY <2>1 DEF Ids
  <2> QED BY <1>1, <2>1, <2>2 DEF Settled, Creating
<1>11. CASE UNCHANGED vars
  <2>1. UNCHANGED <<registry, pc, branch>>
    BY <1>11 DEF vars
  <2> QED BY <2>1 DEF Settled, Ids
<1> QED
  BY <1>4, <1>5, <1>6, <1>7, <1>8, <1>9, <1>10, <1>11 DEF Next

(* Which steps link a node, and which one. *)
LEMMA Links ==
  ASSUME TypeOK, LocalsOK, [Next]_vars, NEW n \in Ids
  PROVE  \/ ChildrenOf(n)' = ChildrenOf(n)
         \/ /\ pc = "link_taken" /\ n = current
            /\ ChildrenOf(n)' = ChildrenOf(n) \cup {branch.taken}
         \/ /\ pc = "link_alternative" /\ n = current
            /\ ChildrenOf(n)' = ChildrenOf(n) \cup {branch.alternative}
<1>1. CASE RegisterTaken
  <2>1. branch.expr \in Exprs /\ branch.value \in BOOLEAN
    BY <1>1 DEF TypeOK, LocalsOK, RegisterTaken, Branching, Creating
  <2> QED BY <1>1, <2>1, RegisterKeepsLinks DEF RegisterTaken
<1>2. CASE RegisterAlternative
  <2>1. branch.expr \in Exprs /\ (~branch.value) \in BOOLEAN
    BY <1>2 DEF TypeOK, LocalsOK, RegisterAlternative, Branching, Creating
  <2> QED BY <1>2, <2>1, RegisterKeepsLinks DEF RegisterAlternative
<1>3. CASE LinkTaken
  <2>1. branch.taken \in Ids /\ pc = "link_taken" /\ Link(branch.taken)
    BY <1>3 DEF LinkTaken, LocalsOK, TakenPcs
  <2> QED BY <2>1, LinkAdds
<1>4. CASE LinkAlternative
  <2>1. branch.alternative \in Ids /\ pc = "link_alternative" /\ Link(branch.alternative)
    BY <1>4 DEF LinkAlternative, LocalsOK, AlternativePcs
  <2> QED BY <2>1, LinkAdds
<1>5. CASE UNCHANGED <<registry, children>>
  BY <1>5 DEF ChildrenOf
<1>6. CASE UNCHANGED vars
  BY <1>6 DEF vars, ChildrenOf
<1> QED
  BY <1>1, <1>2, <1>3, <1>4, <1>5, <1>6, OtherSteps

(* A node that was taken or solved never turns into the second side. *)
LEMMA SidesKept ==
  ASSUME Whole, [Next]_vars, NEW m \in processed
  PROVE  IsAlternative(m)' <=> IsAlternative(m)
<1>1. TypeOK /\ LocalsOK /\ ShapeInv /\ SiblingInv /\ LinkInv /\ PoolInv
  BY Zenon DEF Whole
<1>2. m \in Ids /\ current \in Ids /\ registry'[m] = registry[m]
  BY <1>1, TreeGrows DEF TypeOK
<1>3. IsAlternative(m) => IsAlternative(m)'
  BY <1>1, <1>2, LinkedStable
<1> SUFFICES ASSUME IsAlternative(m)', ~IsAlternative(m) PROVE FALSE
  BY <1>3
<1> DEFINE par == registry[m].parent
<1>4. m # Root /\ par \in Ids
  BY <1>1, <1>2, ParentsOlder DEF IsAlternative
<1>5. PICK t \in ChildrenOf(par)' : t < m /\ registry'[t].expr = registry[m].expr
  BY <1>2 DEF IsAlternative
<1>6. t \notin ChildrenOf(par)
  <2> SUFFICES ASSUME t \in ChildrenOf(par) PROVE FALSE
    OBVIOUS
  <2>1. registry'[t] = registry[t]
    BY <1>1, <1>4, ChildrenAreIds, TreeGrows
  <2> QED BY <1>4, <1>5, <2>1 DEF IsAlternative
<1>7. Linked(m) => m \in ChildrenOf(par)
  BY <1>4 DEF Linked
<1>8. CASE pc = "link_taken" /\ par = current /\ t = branch.taken
  <2>1. /\ registry[branch.taken].expr = branch.expr /\ branch.taken \in Ids
        /\ \A c \in ChildrenOf(current) : registry[c].expr # branch.expr
    BY <1>1, <1>8 DEF PoolInv, TakenAchieved, Creating, SiblingInv, RoomForBranch,
                      LocalsOK, TakenPcs
  <2>2. registry'[t] = registry[t]
    BY <1>1, <1>8, <2>1, TreeGrows
  <2>3. m # branch.taken
    BY <1>2, <1>5, <1>8, <2>1 DEF Ids
  <2>4. m \in ChildrenOf(current)
    BY <1>1, <1>2, <1>7, <1>8, <2>3 DEF LinkInv, Attached
  <2> QED BY <1>5, <1>8, <2>1, <2>2, <2>4
<1>9. CASE pc = "link_alternative" /\ par = current /\ t = branch.alternative
  <2>1. /\ registry[branch.alternative].expr = branch.expr /\ branch.alternative \in Ids
        /\ branch.taken \in ChildrenOf(current) /\ branch.taken \in Ids
        /\ registry[branch.taken].expr = branch.expr
        /\ registry[branch.taken].value = branch.value
        /\ branch.taken < branch.alternative
        /\ \A c \in ChildrenOf(current) :
              registry[c].expr = branch.expr => registry[c].value # ~branch.value
    BY <1>1, <1>9 DEF PoolInv, TakenAchieved, AlternativeAchieved, Creating, SiblingInv,
                      RoomForBranch, LocalsOK, TakenPcs, AlternativePcs, LinkInv, MadeInOrder
  <2>2. registry'[t] = registry[t]
    BY <1>1, <1>9, <2>1, TreeGrows
  <2>3. m # branch.alternative
    BY <1>2, <1>5, <1>9, <2>1 DEF Ids
  <2>4. m \in ChildrenOf(current)
    BY <1>1, <1>2, <1>7, <1>9, <2>3 DEF LinkInv, Attached
  <2>5. registry[m].expr = branch.expr
    BY <1>5, <1>9, <2>1, <2>2
  <2>6. registry[m].value = registry[branch.taken].value
    <3>1. registry[m].value \in BOOLEAN /\ branch.value \in BOOLEAN
      BY <1>1, <1>2, ValuesAreBoolean DEF TypeOK
    <3> QED BY <2>1, <2>4, <2>5, <3>1
  <2>7. m = branch.taken
    BY <1>1, <1>2, <2>1, <2>4, <2>5, <2>6, OneNodePerSide DEF SiblingInv
  <2> QED BY <1>2, <1>5, <1>9, <2>1, <2>7 DEF Ids
<1>10. \A k \in Ids : k = par => t \in ChildrenOf(k)' /\ t \notin ChildrenOf(k)
  BY <1>2, <1>5, <1>6 DEF ChildrenOf
<1> HIDE DEF par
<1> QED
  BY <1>1, <1>4, <1>8, <1>9, <1>10, Links

LEMMA EnqueueDiscovers ==
  ASSUME Whole, Whole', [Next]_vars, Enqueue
  PROVE  F!Next
<1>1. /\ TypeOK /\ LocalsOK /\ ShapeInv /\ SiblingInv /\ LinkInv /\ PoolInv /\ PathInv
      /\ TypeOK' /\ ShapeInv'
  BY Zenon DEF Whole
<1>2. /\ pc = "enqueue" /\ pc' \in {"advance", "tag_alternative"}
      /\ pool' = Append(pool, branch.alternative) /\ pool \in Seq(Ids)
      /\ branch.alternative \in Ids /\ branch.taken \in Ids /\ current \in Ids
      /\ branch.expr \in Exprs /\ branch.value \in BOOLEAN
      /\ UNCHANGED <<registry, children, processed>>
  BY <1>1 DEF Enqueue, AfterLookup, tree, LocalsOK, AlternativePcs, TakenPcs, Branching,
              Creating, TypeOK
<1>3. /\ branch.taken \in ChildrenOf(current) /\ branch.alternative \in ChildrenOf(current)
      /\ registry[branch.taken].expr = branch.expr
      /\ registry[branch.taken].value = branch.value
      /\ registry[branch.alternative].expr = branch.expr
      /\ registry[branch.alternative].value = ~branch.value
  BY <1>1, <1>2 DEF PoolInv, TakenAchieved, AlternativeAchieved, Creating
<1>4. /\ branch.taken \in Ids \ {Root} /\ registry[branch.taken].parent = current
      /\ branch.alternative \in Ids \ {Root} /\ registry[branch.alternative].parent = current
  BY <1>1, <1>2, <1>3 DEF ShapeInv, LinksAgree
<1>5. current # branch.taken /\ current # branch.alternative
  <2>1. current \in 1 .. branch.taken - 1 /\ current \in 1 .. branch.alternative - 1
    BY <1>1, <1>4 DEF ShapeInv, NodesAgree
  <2> QED BY <1>2, <2>1 DEF Ids
<1>6. /\ Settled = Ids \ {branch.taken, branch.alternative}
      /\ Settled' = Ids /\ Ids' = Ids
  BY <1>2 DEF Settled, Creating, Ids
<1> DEFINE p == PathOf[current]
           one == Append(p, [expr |-> branch.expr, value |-> branch.value])
           other == Append(p, [expr |-> branch.expr, value |-> ~branch.value])
<1>7. PathOf[branch.taken] = one /\ PathOf[branch.alternative] = other
  <2>1. /\ Step(registry, branch.taken) = [expr |-> branch.expr, value |-> branch.value]
        /\ Step(registry, branch.alternative) = [expr |-> branch.expr, value |-> ~branch.value]
    BY <1>3 DEF Step
  <2> QED BY <1>1, <1>4, <2>1, PathUnfolds, Zenon
<1>8. \A n \in Ids : PathOf'[n] = PathOf[n]
  BY <1>1, PathStable
<1>9. \A m, n \in Ids : PathOf[m] = PathOf[n] => m = n
  <2>1. \A n \in Ids : Linked(n)
    BY <1>1, <1>2 DEF LinkInv, Attached
  <2> QED BY <1>1, <2>1, PathsDiffer DEF SiblingInv
<1>10. p \in Known /\ one \notin Known /\ other \notin Known
  <2>1. p \in Known
    BY <1>2, <1>5, <1>6 DEF Known
  <2>2. \A n \in Settled : PathOf[n] # one /\ PathOf[n] # other
    BY <1>2, <1>6, <1>7, <1>9, Zenon
  <2> HIDE DEF one, other
  <2> QED BY <2>1, <2>2 DEF Known
<1>11. Known' = Known \cup {one, other}
  <2>1. Known' = {PathOf[n] : n \in Ids}
    BY <1>6, <1>8 DEF Known
  <2>2. Known \cup {one, other} = {PathOf[n] : n \in Ids}
    <3> HIDE DEF one, other
    <3> QED BY <1>2, <1>6, <1>7 DEF Known
  <2> HIDE DEF one, other
  <2> QED BY <2>1, <2>2
<1>12. Pending' = Pending \cup {branch.alternative} /\ Pending \subseteq Ids
  <2>1. /\ DOMAIN pool' = DOMAIN pool \cup {Len(pool) + 1}
        /\ \A i \in DOMAIN pool : pool'[i] = pool[i]
        /\ pool'[Len(pool) + 1] = branch.alternative
    BY <1>2, AppendProperties, LenProperties
  <2>2. Pending \subseteq Ids
    BY <1>2, ElementOfSeq, LenProperties DEF Pending
  <2> QED BY <2>1, <2>2 DEF Pending
<1>13. Waits' = Waits \cup {other}
  <2>1. Waits' = {PathOf[n] : n \in Pending'}
    BY <1>2, <1>8, <1>12 DEF Waits
  <2> HIDE DEF other
  <2> QED BY <1>7, <1>12, <2>1 DEF Waits
<1>14. Tried' = Tried
  <2>1. \A m \in processed : m \in Ids /\ (IsAlternative(m)' <=> IsAlternative(m))
    BY <1>1, SidesKept DEF TypeOK
  <2> QED BY <1>2, <1>8, <2>1 DEF Tried
<1> HIDE DEF p
<1> QED
  BY <1>2, <1>10, <1>11, <1>13, <1>14, FrontierSteps, Zenon

LEMMA SolveAttempts ==
  ASSUME Whole, Whole', [Next]_vars, NEW i \in DOMAIN pool, Solve(i)
  PROVE  F!Next
<1>1. /\ TypeOK /\ LocalsOK /\ ShapeInv /\ SiblingInv /\ LinkInv /\ PoolInv
      /\ TypeOK' /\ ShapeInv' /\ TagInv' /\ PoolInv'
  BY Zenon DEF Whole
<1>2. PICK a : a = pool[i]
  OBVIOUS
<1>3. /\ pc = "idle" /\ pc' = "idle" /\ processed' = processed \cup {a}
      /\ pool' = SubSeq(pool, 1, i - 1) \o SubSeq(pool, i + 1, Len(pool))
      /\ pool \in Seq(Ids) /\ processed \subseteq Ids
      /\ UNCHANGED <<registry, children>> /\ ~Enqueue
  BY <1>1, <1>2 DEF Solve, TypeOK, Enqueue
<1>4. a \in Pending /\ a \in Ids /\ Pending \subseteq Ids /\ a \notin processed
  <2>1. Pending \subseteq Ids /\ a \in Pending
    BY <1>3, <1>2, ElementOfSeq, LenProperties DEF Pending
  <2> QED BY <1>1, <2>1 DEF PoolInv
<1>5. Pending' = Pending \ {a}
  <2>1. /\ \A j \in DOMAIN pool' : \E k \in DOMAIN pool : k # i /\ pool'[j] = pool[k]
        /\ \A k \in DOMAIN pool : k # i => \E j \in DOMAIN pool' : pool'[j] = pool[k]
    BY <1>3, RemoveAtKeepsRest
  <2>2. \A k \in DOMAIN pool : k # i => pool[k] # a
    BY <1>1, <1>2 DEF PoolInv, Distinct
  <2> QED BY <1>2, <2>1, <2>2 DEF Pending
<1>6. IsAlternative(a)
  BY <1>1, <1>4 DEF LinkInv, SecondWaits
<1>7. \A n \in Ids : PathOf'[n] = PathOf[n]
  BY <1>1, PathStable
<1>8. \A m, n \in Ids : PathOf[m] = PathOf[n] => m = n
  <2>1. \A n \in Ids : Linked(n)
    BY <1>1, <1>3 DEF LinkInv, Attached
  <2> QED BY <1>1, <2>1, PathsDiffer DEF SiblingInv
<1> DEFINE p == PathOf[a]
<1>9. p \in Waits /\ p \notin Tried
  <2>1. \A m \in processed : PathOf[m] # p
    BY <1>3, <1>4, <1>8
  <2> QED BY <1>4, <2>1 DEF Waits, Tried
<1>10. Known' = Known
  <2>1. Settled' = Settled /\ Settled \subseteq Ids
    BY <1>1, <1>3, SettledKept DEF Settled
  <2> QED BY <1>7, <2>1 DEF Known
<1>11. Waits' = Waits \ {p}
  <2>1. Waits' = {PathOf[n] : n \in Pending \ {a}}
    BY <1>4, <1>5, <1>7 DEF Waits
  <2>2. \A n \in Pending : PathOf[n] = p <=> n = a
    BY <1>4, <1>8
  <2> HIDE DEF p
  <2> QED BY <2>1, <2>2 DEF Waits
<1>12. Tried' = Tried \cup {p}
  <2>1. \A m \in processed : m \in Ids /\ (IsAlternative(m)' <=> IsAlternative(m))
    BY <1>1, SidesKept DEF TypeOK
  <2>2. IsAlternative(a)'
    BY <1>1, <1>4, <1>6, LinkedStable
  <2>3. {m \in processed : IsAlternative(m)}' = {m \in processed : IsAlternative(m)} \cup {a}
    BY <1>3, <2>1, <2>2
  <2>4. {m \in processed : IsAlternative(m)}' \subseteq Ids
    BY <1>3, <1>4
  <2> QED BY <1>7, <2>3, <2>4 DEF Tried
<1> HIDE DEF p
<1> QED
  BY <1>9, <1>10, <1>11, <1>12, FrontierSteps, Zenon

(* The one side of a branch that no rewrite touched is the side made first. *)
LEMMA AnchorIsFirst ==
  ASSUME TypeOK, ShapeInv, SiblingInv, LinkInv, NEW e, NEW f \in ChildrenOf(current),
         registry[f].expr = e,
         \A t \in ChildrenOf(current) : registry[t].expr = e /\ t \notin rewritten => t = f
  PROVE  ~IsAlternative(f)
<1> SUFFICES ASSUME IsAlternative(f) PROVE FALSE
  OBVIOUS
<1>1. /\ current \in Ids /\ ChildrenOf(current) \subseteq Ids
      /\ \A t \in ChildrenOf(current) : registry[t].parent = current
      /\ \A t \in ChildrenOf(current) : registry[t].value \in BOOLEAN /\ t \in Nat
  <2>1. current \in Ids /\ Ids \subseteq Nat
    BY DEF TypeOK, Ids
  <2>2. ChildrenOf(current) \subseteq Ids
    BY <2>1, ChildrenAreIds
  <2>3. \A t \in ChildrenOf(current) : registry[t].parent = current
    BY <2>1 DEF ShapeInv, LinksAgree
  <2> QED BY <2>1, <2>2, <2>3, ValuesAreBoolean
<1>2. PICK t \in ChildrenOf(current) : t < f /\ registry[t].expr = e
  BY <1>1 DEF IsAlternative
<1>3. t \in rewritten /\ IsAlternative(t)
  BY <1>1, <1>2 DEF LinkInv, SecondRewritten
<1>4. PICK u \in ChildrenOf(current) : u < t /\ registry[u].expr = e
  BY <1>1, <1>2, <1>3 DEF IsAlternative
<1>5. u # t /\ u # f /\ t # f
  BY <1>1, <1>2, <1>4
<1>6. /\ registry[u].value # registry[t].value /\ registry[u].value # registry[f].value
      /\ registry[t].value # registry[f].value
  BY <1>1, <1>2, <1>4, <1>5, OneNodePerSide DEF SiblingInv
<1> QED
  BY <1>1, <1>6

LEMMA RefineStep ==
  ASSUME Whole, Whole', [Next]_vars
  PROVE  F!Next \/ UNCHANGED <<Known, Waits, Tried>>
<1>1. /\ TypeOK /\ LocalsOK /\ ShapeInv /\ SiblingInv /\ LinkInv /\ PoolInv
      /\ TypeOK' /\ ShapeInv' /\ TagInv'
  BY Zenon DEF Whole
<1>2. /\ \A n \in Ids : PathOf'[n] = PathOf[n]
      /\ \A m \in processed : m \in Ids /\ (IsAlternative(m)' <=> IsAlternative(m))
      /\ Pending \subseteq Ids /\ Settled \subseteq Ids
  <2>1. Pending \subseteq Ids
    BY <1>1, ElementOfSeq, LenProperties DEF Pending, TypeOK
  <2>2. \A m \in processed : m \in Ids
    BY <1>1 DEF TypeOK
  <2> QED BY <1>1, <2>1, <2>2, PathStable, SidesKept DEF Settled
<1>3. ASSUME ~Enqueue PROVE Known' = Known
  <2>1. Settled' = Settled
    BY <1>1, <1>3, SettledKept
  <2> QED BY <1>2, <2>1 DEF Known
<1>4. ASSUME Pending' = Pending PROVE Waits' = Waits
  BY <1>2, <1>4 DEF Waits
<1>5. ASSUME processed' = processed PROVE Tried' = Tried
  BY <1>2, <1>5 DEF Tried
<1>6. CASE Enqueue
  BY <1>6, EnqueueDiscovers
<1>7. ASSUME NEW i \in DOMAIN pool, Solve(i)
      PROVE  F!Next
  BY <1>7, SolveAttempts
<1>8. CASE ClearPool
  <2>1. /\ pool # <<>> /\ pool \in Seq(Ids) /\ pool' = <<>> /\ ~Enqueue /\ processed' = processed
    BY <1>1, <1>8 DEF ClearPool, tree, Enqueue, TypeOK
  <2>2. Pending # {} /\ Pending' = {}
    <3>1. Len(pool) \in Nat \ {0}
      BY <2>1, EmptySeq
    <3>2. 1 \in DOMAIN pool
      BY <2>1, <3>1, LenProperties
    <3>3. pool' = <<>> => Pending' = {}
      BY DEF Pending
    <3> QED BY <2>1, <3>2, <3>3 DEF Pending
  <2>3. Waits # {} /\ Waits' = {}
    BY <2>2 DEF Waits
  <2> QED BY <1>3, <1>5, <2>1, <2>3, FrontierSteps, Zenon
<1>9. CASE MarkTaken
  <2>1. /\ pc = "mark_taken" /\ processed' = processed \cup {branch.taken}
        /\ UNCHANGED <<registry, children, pool, branch>> /\ ~Enqueue
        /\ branch.taken \in Ids /\ current \in Ids
    BY <1>1, <1>9 DEF MarkTaken, Enqueue, LocalsOK, TakenPcs, TypeOK
  <2>2. /\ branch.taken \in ChildrenOf(current)
        /\ registry[branch.taken].expr = branch.expr
        /\ registry[branch.taken].value = branch.value /\ branch.value \in BOOLEAN
        /\ \A c \in ChildrenOf(current) :
              registry[c].expr = branch.expr => registry[c].value # ~branch.value
    BY <1>1, <2>1 DEF PoolInv, TakenAchieved, Creating, SiblingInv, RoomForBranch, TypeOK
  <2>3. registry[branch.taken].parent = current
    BY <1>1, <2>1, <2>2 DEF ShapeInv, LinksAgree
  <2>4. ASSUME NEW t \in ChildrenOf(current), registry[t].expr = branch.expr
        PROVE  t = branch.taken
    <3>1. registry[t].value \in BOOLEAN
      BY <1>1, <2>1, ChildrenAreIds, ValuesAreBoolean
    <3>2. registry[t].value = registry[branch.taken].value
      BY <2>2, <2>4, <3>1
    <3> QED BY <1>1, <2>1, <2>2, <2>4, <3>2, OneNodePerSide DEF SiblingInv
  <2>5. ~IsAlternative(branch.taken)
    BY <2>1, <2>2, <2>3, <2>4 DEF IsAlternative, Ids
  <2>6. ~IsAlternative(branch.taken)'
    BY <2>1, <2>5 DEF IsAlternative, ChildrenOf
  <2>7. {m \in processed : IsAlternative(m)}' = {m \in processed : IsAlternative(m)}
    BY <1>2, <2>1, <2>5, <2>6
  <2>8. Tried' = Tried
    BY <1>2, <2>7 DEF Tried
  <2>9. Pending' = Pending
    BY <2>1 DEF Pending
  <2> QED BY <1>3, <1>4, <2>1, <2>8, <2>9
<1>10. ASSUME UNCHANGED <<pool, processed>>, ~Enqueue
       PROVE  UNCHANGED <<Known, Waits, Tried>>
  <2>1. Pending' = Pending
    BY <1>10 DEF Pending
  <2> QED BY <1>3, <1>4, <1>5, <1>10, <2>1
<1>11. CASE RegisterTaken \/ LinkTaken \/ RegisterAlternative \/ LinkAlternative
            \/ Reset \/ TagAlternative \/ TagTaken \/ Advance \/ Deliver
            \/ Interrupt \/ Swallow \/ Finish
  <2>1. UNCHANGED <<pool, processed>>
    BY <1>11 DEF RegisterTaken, LinkTaken, RegisterAlternative, LinkAlternative, Reset,
                 TagAlternative, TagTaken, Advance, Deliver, Interrupt, Swallow, Finish, tree
  <2> QED BY <1>6, <1>10, <2>1
<1>12. ASSUME NEW c \in Conditions, NEW v \in BOOLEAN,
              BranchNew(c, v) \/ BranchKnown(c, v) \/ BranchInconsistent(c, v)
       PROVE  UNCHANGED <<Known, Waits, Tried>>
  <2>1. /\ UNCHANGED <<registry, children, pool>> /\ ~Enqueue
        /\ UNCHANGED processed \/ BranchInconsistent(c, v)
    BY <1>12 DEF BranchNew, BranchKnown, BranchInconsistent, Evaluates, Enqueue
  <2>2. CASE UNCHANGED processed
    BY <1>10, <2>1, <2>2
  <2>3. CASE BranchInconsistent(c, v)
    <3>1. PICK f \in ChildrenOf(current) :
             /\ processed' = processed \cup {f} /\ registry[f].expr = c.expr
             /\ \A t \in ChildrenOf(current) :
                   registry[t].expr = c.expr /\ t \notin rewritten => t = f
      BY <1>1, <2>3, FoundIsAnchor
    <3>2. ~IsAlternative(f)
      BY <1>1, <3>1, AnchorIsFirst
    <3>3. ~IsAlternative(f)'
      BY <2>1, <3>2 DEF IsAlternative, ChildrenOf
    <3>4. {m \in processed : IsAlternative(m)}' = {m \in processed : IsAlternative(m)}
      BY <1>2, <3>1, <3>2, <3>3
    <3>5. Tried' = Tried
      BY <1>2, <3>4 DEF Tried
    <3>6. Pending' = Pending
      BY <2>1 DEF Pending
    <3> QED BY <1>3, <1>4, <2>1, <3>5, <3>6
  <2> QED BY <2>1, <2>2, <2>3
<1>13. CASE UNCHANGED vars
  BY <1>6, <1>10, <1>13 DEF vars
<1> QED
  BY <1>6, <1>7, <1>8, <1>9, <1>10, <1>11, <1>12, <1>13 DEF Next

LEMMA RefineInit == Init => F!Init
<1> SUFFICES ASSUME Init PROVE F!Init
  OBVIOUS
<1>1. TypeOK /\ ShapeInv
  BY InitTypes, InitShape
<1>2. Settled = {Root} /\ Pending = {} /\ processed = {}
  BY DEF Init, Settled, Creating, Ids, Root, Pending
<1>3. PathOf[Root] = <<>>
  BY <1>1, PathUnfolds, Zenon
<1> QED
  BY <1>2, <1>3 DEF F!Init

(* ImplementsFrontier: as long as no deadline strikes inside a branch, and *)
(* whatever the optimizer rewrites, the tree implements Frontier: both     *)
(* sides of a branch become known in one step, the side not taken waits,   *)
(* and no path is given to the solver twice.                               *)
THEOREM FrontierImplemented ==
  ASSUME Interrupts = FALSE
  PROVE  Spec => ImplementsFrontier
<1>1. Init => Whole /\ F!Init
  BY InitWhole, RefineInit
<1>2. Whole /\ [Next]_vars => Whole'
  BY WholeStep, Zenon
<1>3. Whole /\ Whole' /\ [Next]_vars => [F!Next]_<<Known, Waits, Tried>>
  BY RefineStep, Zenon
<1>4. Whole /\ Whole' /\ [Next]_vars =>
         [F!Next]_<<{PathOf[n] : n \in Settled}, {PathOf[n] : n \in Pending},
                    {PathOf[n] : n \in {m \in processed : IsAlternative(m)}}>>
  BY <1>3, Zenon DEF Known, Waits, Tried
<1> QED
  BY <1>1, <1>2, <1>4, PTL DEF Spec, ImplementsFrontier, F!Spec

-----------------------------------------------------------------------------
(* What a deadline damages.  These facts about the branch in hand hold     *)
(* with deadlines too.                                                     *)
Hand ==
    /\ Untagged
    /\ TwoSides
    /\ pc = "tag_taken" => chain[branch.alternative] = branch.chain
    /\ MadeInOrder

Standing == TypeOK /\ LocalsOK /\ ShapeInv /\ PoolInv /\ SiblingInv /\ Hand

(* A linked child for the condition in hand is one of its two sides. *)
LEMMA SidesInHand ==
  ASSUME TypeOK, ShapeInv, SiblingInv, TwoSides, pc \in {"tag_alternative", "tag_taken"},
         NEW k \in ChildrenOf(current), registry[k].expr = branch.expr
  PROVE  k \in {branch.taken, branch.alternative}
<1>1. current \in Ids /\ branch.value \in BOOLEAN
  BY DEF TypeOK
<1>2. registry[k].value \in BOOLEAN
  BY <1>1, ChildrenAreIds, ValuesAreBoolean
<1>3. /\ branch.taken \in ChildrenOf(current) /\ branch.alternative \in ChildrenOf(current)
      /\ registry[branch.taken].expr = branch.expr
      /\ registry[branch.alternative].expr = branch.expr
      /\ registry[branch.taken].value = branch.value
      /\ registry[branch.alternative].value = ~branch.value
  BY DEF TwoSides
<1>4. CASE registry[k].value = branch.value
  BY <1>1, <1>3, <1>4, OneNodePerSide DEF SiblingInv
<1>5. CASE registry[k].value = ~branch.value
  BY <1>1, <1>3, <1>5, OneNodePerSide DEF SiblingInv
<1> QED
  BY <1>1, <1>2, <1>4, <1>5

(* While the alternative is being made, the taken side is the only linked  *)
(* child for the condition in hand.                                        *)
LEMMA TakenIsOnly ==
  ASSUME TypeOK, ShapeInv, PoolInv, SiblingInv,
         pc \in {"register_alternative", "link_alternative"},
         NEW k \in ChildrenOf(current), registry[k].expr = branch.expr
  PROVE  k = branch.taken
<1>1. current \in Ids /\ branch.value \in BOOLEAN
  BY DEF TypeOK
<1>2. registry[k].value \in BOOLEAN
  BY <1>1, ChildrenAreIds, ValuesAreBoolean
<1>3. /\ branch.taken \in ChildrenOf(current)
      /\ registry[branch.taken].expr = branch.expr
      /\ registry[branch.taken].value = branch.value
      /\ registry[k].value # ~branch.value
  BY DEF PoolInv, TakenAchieved, Creating, SiblingInv, RoomForBranch
<1> QED
  BY <1>1, <1>2, <1>3, OneNodePerSide DEF SiblingInv

LEMMA HandStep ==
  ASSUME Standing, [Next]_vars
  PROVE  Hand'
<1> USE DEF Standing, Hand
<1>1. current \in Ids /\ Len(registry) \in Nat
  BY DEF TypeOK
<1>2. CASE RegisterTaken
  <2>1. branch.expr \in Exprs /\ branch.value \in BOOLEAN
    BY <1>2 DEF TypeOK, LocalsOK, RegisterTaken, Branching, Creating
  <2>2. /\ pc' = "link_taken" /\ branch'.taken = Len(registry) + 1
        /\ branch'.alternative = 0
    BY <1>2 DEF RegisterTaken, TypeOK, MadeInOrder
  <2>3. chain'[Len(registry) + 1] = NoChain
    <3>1. chain' = Append(chain, NoChain) /\ Len(chain) = Len(registry)
          /\ chain \in Seq(Chains \cup {NoChain})
      BY <1>2 DEF RegisterTaken, Register, TypeOK
    <3> QED BY <3>1
  <2> QED BY <2>2, <2>3 DEF Untagged, TwoSides, MadeInOrder, Creating
<1>3. CASE RegisterAlternative
  <2>1. branch.expr \in Exprs /\ (~branch.value) \in BOOLEAN /\ branch.taken \in Ids
    BY <1>3 DEF TypeOK, LocalsOK, RegisterAlternative, Branching, Creating, TakenPcs
  <2>2. /\ pc = "register_alternative" /\ pc' = "link_alternative"
        /\ branch'.taken = branch.taken /\ branch'.alternative = Len(registry) + 1
    BY <1>3 DEF RegisterAlternative, TypeOK
  <2>3. chain'[Len(registry) + 1] = NoChain /\ chain'[branch.taken] = chain[branch.taken]
    <3>1. chain' = Append(chain, NoChain) /\ Len(chain) = Len(registry)
          /\ chain \in Seq(Chains \cup {NoChain})
      BY <1>3 DEF RegisterAlternative, Register, TypeOK
    <3> QED BY <2>1, <3>1 DEF Ids
  <2>4. chain[branch.taken] = NoChain
    BY <2>2 DEF Untagged, Creating
  <2>5. branch.taken < Len(registry) + 1
    BY <1>1, <2>1 DEF Ids
  <2> QED BY <2>2, <2>3, <2>4, <2>5 DEF Untagged, TwoSides, MadeInOrder, Creating
<1>4. CASE LinkTaken \/ LinkAlternative \/ MarkTaken
  <2>1. /\ UNCHANGED <<chain, branch>>
        /\ pc \in Creating \ {"register_taken"} /\ pc' \in Creating \ {"register_taken"}
        /\ \/ pc = "link_taken" /\ pc' = "mark_taken"
           \/ pc = "mark_taken" /\ pc' = "register_alternative"
           \/ pc = "link_alternative" /\ pc' = "enqueue"
    BY <1>4 DEF LinkTaken, LinkAlternative, MarkTaken, Creating
  <2> QED BY <2>1 DEF Untagged, TwoSides, MadeInOrder, Creating
<1>5. CASE Enqueue
  <2>1. /\ pc = "enqueue" /\ pc' \in {"advance", "tag_alternative"}
        /\ UNCHANGED <<registry, children, branch, current>>
    BY <1>5 DEF Enqueue, AfterLookup, tree
  <2>2. ChildrenOf(current)' = ChildrenOf(current)
    BY <2>1 DEF ChildrenOf
  <2> QED BY <2>1, <2>2 DEF PoolInv, TakenAchieved, AlternativeAchieved, Untagged, TwoSides,
                            MadeInOrder, Creating
<1>6. CASE TagAlternative \/ TagTaken
  <2>1. /\ UNCHANGED <<registry, children, branch, current>>
        /\ pc \in {"tag_alternative", "tag_taken"} /\ pc' \in {"tag_taken", "advance"}
        /\ pc' = "tag_taken" => Tag(branch.alternative)
    BY <1>6 DEF TagAlternative, TagTaken
  <2>2. ChildrenOf(current)' = ChildrenOf(current)
    BY <2>1 DEF ChildrenOf
  <2>3. TwoSides'
    BY <2>1, <2>2 DEF TwoSides
  <2>4. pc' = "tag_taken" => chain'[branch.alternative] = branch.chain
    BY <2>1, TagIsLocal DEF TwoSides
  <2> QED BY <2>1, <2>3, <2>4 DEF Untagged, MadeInOrder, Creating
<1>7. ASSUME NEW c \in Conditions, NEW v \in BOOLEAN,
             BranchNew(c, v) \/ BranchKnown(c, v) \/ BranchInconsistent(c, v)
      PROVE  Hand'
  <2>1. /\ UNCHANGED <<registry, children, chain, current>>
        /\ branch' = [expr |-> c.expr, value |-> v, chain |-> c.chain,
                      taken |-> FindChild(current, c.expr, v),
                      alternative |-> FindChild(current, c.expr, ~v)]
        /\ pc' \in {"register_taken", "advance", "tag_alternative", "inconsistent"}
        /\ pc' \in {"tag_alternative", "advance"} => branch'.taken # 0 /\ branch'.alternative # 0
        /\ pc' = "register_taken" => branch'.taken = 0 /\ branch'.alternative = 0
    BY <1>7 DEF BranchNew, BranchKnown, BranchInconsistent, Evaluates, AfterLookup
  <2>2. TwoSides'
    <3> SUFFICES ASSUME pc' \in {"tag_alternative", "advance"} PROVE TwoSides'
      BY <2>1 DEF TwoSides
    <3>1. FindChild(current, c.expr, v) # 0 /\ FindChild(current, c.expr, ~v) # 0
      BY <2>1
    <3>2. PICK i \in DOMAIN children[current] :
             /\ FindChild(current, c.expr, v) = children[current][i]
             /\ Matches(children[current][i], c.expr, v)
      BY <1>1, <3>1, FindChildFinds
    <3>3. PICK j \in DOMAIN children[current] :
             /\ FindChild(current, c.expr, ~v) = children[current][j]
             /\ Matches(children[current][j], c.expr, ~v)
      BY <1>1, <3>1, FindChildFinds
    <3>4. ChildrenOf(current)' = ChildrenOf(current)
      BY <2>1 DEF ChildrenOf
    <3> QED BY <2>1, <3>2, <3>3, <3>4 DEF TwoSides, Matches, ChildrenOf
  <2> QED BY <2>1, <2>2 DEF Untagged, MadeInOrder, Creating
<1>8. ASSUME pc' \notin Creating \cup {"tag_alternative", "tag_taken", "advance"}
      PROVE  Hand'
  BY <1>8 DEF Untagged, TwoSides, MadeInOrder, Creating
<1>9. CASE Reset \/ Advance \/ Deliver \/ Interrupt \/ Swallow \/ Finish \/ ClearPool
  BY <1>8, <1>9 DEF Reset, Advance, Deliver, Interrupt, Swallow, Finish, ClearPool, Creating
<1>10. ASSUME NEW i \in DOMAIN pool, Solve(i) PROVE Hand'
  BY <1>8, <1>10 DEF Solve, Creating
<1>11. CASE UNCHANGED vars
  <2>1. ChildrenOf(current)' = ChildrenOf(current)
    BY <1>11 DEF ChildrenOf, vars
  <2> QED BY <1>11, <2>1 DEF vars, Untagged, TwoSides, MadeInOrder
<1> QED
  BY <1>2, <1>3, <1>4, <1>5, <1>6, <1>7, <1>9, <1>10, <1>11 DEF Next

(* A node taken, solved, waiting or given up stays one of these. *)
LEMMA AccountedStays ==
  ASSUME TypeOK, LocalsOK, [Next]_vars
  PROVE  Accounted \subseteq Accounted'
<1> USE DEF Accounted
<1>1. processed \subseteq processed' /\ pool \in Seq(Ids)
  BY TreeGrows DEF TypeOK
<1>2. CASE UNCHANGED <<pool, dropped>>
  BY <1>1, <1>2 DEF Pending
<1>3. CASE Enqueue
  <2>1. /\ pool' = Append(pool, branch.alternative) /\ UNCHANGED dropped
        /\ \A i \in DOMAIN pool : i \in DOMAIN pool' /\ pool'[i] = pool[i]
    BY <1>1, <1>3, AppendProperties, LenProperties DEF Enqueue
  <2> QED BY <1>1, <2>1 DEF Pending
<1>4. ASSUME NEW i \in DOMAIN pool, Solve(i) PROVE Accounted \subseteq Accounted'
  <2>1. /\ pool' = SubSeq(pool, 1, i - 1) \o SubSeq(pool, i + 1, Len(pool))
        /\ processed' = processed \cup {pool[i]} /\ UNCHANGED dropped
    BY <1>4 DEF Solve
  <2>2. \A k \in DOMAIN pool : k # i => \E j \in DOMAIN pool' : pool'[j] = pool[k]
    BY <1>1, <2>1, RemoveAtKeepsRest
  <2> QED BY <2>1, <2>2 DEF Pending
<1>5. CASE ClearPool
  BY <1>1, <1>5 DEF ClearPool, Pending
<1>6. ASSUME NEW c \in Conditions, NEW v \in BOOLEAN,
             BranchNew(c, v) \/ BranchKnown(c, v) \/ BranchInconsistent(c, v)
      PROVE  UNCHANGED <<pool, dropped>>
  BY <1>6 DEF BranchNew, BranchKnown, BranchInconsistent, Evaluates
<1>7. CASE RegisterTaken \/ LinkTaken \/ MarkTaken \/ RegisterAlternative \/ LinkAlternative
  BY <1>2, <1>7 DEF RegisterTaken, LinkTaken, MarkTaken, RegisterAlternative, LinkAlternative
<1>8. CASE Reset \/ TagAlternative \/ TagTaken \/ Advance \/ Deliver
           \/ Interrupt \/ Swallow \/ Finish
  BY <1>2, <1>8 DEF Reset, TagAlternative, TagTaken, Advance, Deliver, Interrupt, Swallow, Finish
<1> QED
  BY <1>2, <1>3, <1>4, <1>5, <1>6, <1>7, <1>8 DEF Next, vars

(* A node that is accounted for and has its other side keeps both. *)
LEMMA SettledStays ==
  ASSUME Standing, [Next]_vars, NEW n \in Ids, n \notin Lost \cup OneSided
  PROVE  n \notin (Lost \cup OneSided)'
<1> USE DEF Standing
<1>1. CASE n = Root
  BY <1>1 DEF Lost, OneSided, Root
<1>2. CASE n # Root
  <2> DEFINE par == registry[n].parent
  <2>1. n \in Accounted /\ n \in Accounted'
    BY <1>2, AccountedStays DEF Lost, Accounted
  <2>2. /\ registry'[n] = registry[n] /\ par \in Ids
        /\ ChildrenOf(par) \subseteq ChildrenOf(par)' /\ ChildrenOf(par) \subseteq Ids
    BY <1>2, ParentsOlder, TreeGrows, ChildrenAreIds
  <2>3. PICK m \in ChildrenOf(par) : registry[m].expr = registry[n].expr
                                     /\ registry[m].value # registry[n].value
    BY <1>2 DEF OneSided, Siblings, SameBranch
  <2>4. n \in ChildrenOf(par)
    BY <1>2 DEF OneSided, Siblings
  <2>5. registry'[m] = registry[m]
    BY <2>2, <2>3, TreeGrows
  <2>6. n \notin OneSided'
    BY <2>2, <2>3, <2>4, <2>5 DEF OneSided, Siblings, SameBranch
  <2>7. n \notin Lost'
    BY <2>1 DEF Lost, Accounted
  <2> QED BY <2>6, <2>7
<1> QED
  BY <1>1, <1>2

(* Nothing but a deadline leaves a node lost or one-sided. *)
LEMMA NothingBreaks ==
  ASSUME Standing, [Next]_vars, ~Interrupt
  PROVE  ((Lost \cup OneSided) \ InHand(Creating))' \subseteq (Lost \cup OneSided) \ InHand(Creating)
<1> USE DEF Standing
<1> SUFFICES ASSUME NEW n \in (Lost \cup OneSided)', n \notin InHand(Creating)'
             PROVE  n \in (Lost \cup OneSided) \ InHand(Creating)
  OBVIOUS
<1>1. n \in Ids' /\ Len(registry) \in Nat /\ 0 \notin Ids
  BY DEF Lost, OneSided, TypeOK, Ids
<1>2. ASSUME Ids' = Ids, n \notin InHand(Creating)
      PROVE  n \in (Lost \cup OneSided) \ InHand(Creating)
  BY <1>1, <1>2, SettledStays
<1>3. ASSUME pc \notin Creating PROVE n \notin InHand(Creating)
  BY <1>3 DEF InHand
<1>4. CASE RegisterTaken
  <2>1. branch.expr \in Exprs /\ branch.value \in BOOLEAN
    BY <1>4 DEF TypeOK, LocalsOK, RegisterTaken, Branching, Creating
  <2>2. /\ pc = "register_taken" /\ pc' = "link_taken" /\ branch'.taken = Len(registry) + 1
        /\ branch.taken = 0 /\ branch.alternative = 0
    BY <1>4 DEF RegisterTaken, TypeOK, Hand, MadeInOrder
  <2>3. Ids' = Ids \cup {Len(registry) + 1}
    <3>1. Len(registry') = Len(registry) + 1
      BY <1>4, <2>1, RegisterExtends DEF RegisterTaken
    <3> QED BY <1>1, <3>1 DEF Ids
  <2>4. n \in Ids
    BY <1>1, <2>2, <2>3 DEF InHand, Creating
  <2> QED BY <1>1, <2>2, <2>4, SettledStays DEF InHand
<1>5. CASE RegisterAlternative
  <2>1. branch.expr \in Exprs /\ (~branch.value) \in BOOLEAN
    BY <1>5 DEF TypeOK, LocalsOK, RegisterAlternative, Branching, Creating
  <2>2. /\ pc = "register_alternative" /\ pc' = "link_alternative"
        /\ branch'.alternative = Len(registry) + 1 /\ branch'.taken = branch.taken
        /\ branch.alternative = 0
    BY <1>5 DEF RegisterAlternative, TypeOK, Hand, MadeInOrder
  <2>3. Ids' = Ids \cup {Len(registry) + 1}
    <3>1. Len(registry') = Len(registry) + 1
      BY <1>5, <2>1, RegisterExtends DEF RegisterAlternative
    <3> QED BY <1>1, <3>1 DEF Ids
  <2>4. n \in Ids /\ n # branch.taken
    BY <1>1, <2>2, <2>3 DEF InHand, Creating
  <2> QED BY <1>1, <2>2, <2>4, SettledStays DEF InHand
<1>6. CASE LinkTaken \/ LinkAlternative \/ MarkTaken
  <2>1. UNCHANGED <<registry, branch>> /\ pc' \in Creating
    BY <1>6 DEF LinkTaken, LinkAlternative, MarkTaken, Creating
  <2>2. n \notin InHand(Creating)
    BY <2>1 DEF InHand
  <2> QED BY <1>2, <2>1, <2>2 DEF Ids
<1>7. CASE Enqueue
  <2>1. /\ pc = "enqueue" /\ pool' = Append(pool, branch.alternative) /\ pool \in Seq(Ids)
        /\ UNCHANGED <<registry, children, processed, branch, current>>
        /\ current \in Ids /\ branch.value \in BOOLEAN
        /\ branch.taken \in Ids /\ branch.alternative \in Ids
    BY <1>7 DEF Enqueue, tree, TypeOK, LocalsOK, TakenPcs, AlternativePcs
  <2>2. /\ branch.taken \in ChildrenOf(current) /\ branch.alternative \in ChildrenOf(current)
        /\ registry[branch.taken].expr = branch.expr
        /\ registry[branch.alternative].expr = branch.expr
        /\ registry[branch.taken].value = branch.value
        /\ registry[branch.alternative].value = ~branch.value
        /\ branch.taken \in processed
    BY <2>1 DEF PoolInv, TakenAchieved, AlternativeAchieved, Creating
  <2>3. /\ registry[branch.taken].parent = current
        /\ registry[branch.alternative].parent = current
    BY <2>1, <2>2 DEF ShapeInv, LinksAgree
  <2>4. ChildrenOf(current)' = ChildrenOf(current)
    BY <2>1 DEF ChildrenOf
  <2>5. branch.alternative \in Pending'
    BY <2>1, AppendProperties, LenProperties DEF Pending
  <2>6. /\ branch.taken \notin Lost' /\ branch.alternative \notin Lost'
    BY <2>1, <2>2, <2>5 DEF Lost
  <2>7. branch.taken \notin OneSided' /\ branch.alternative \notin OneSided'
    <3>1. /\ Siblings(branch.taken)' = ChildrenOf(current)
          /\ Siblings(branch.alternative)' = ChildrenOf(current)
      BY <2>1, <2>3, <2>4 DEF Siblings, ChildrenOf
    <3>2. registry'[branch.alternative].value # registry'[branch.taken].value
      BY <2>1, <2>2
    <3> QED BY <2>1, <2>2, <3>1, <3>2 DEF OneSided, SameBranch
  <2>8. n \notin InHand(Creating)
    BY <2>6, <2>7 DEF InHand
  <2> QED BY <1>2, <2>1, <2>8 DEF Ids
<1>8. CASE Reset \/ TagAlternative \/ TagTaken \/ Advance \/ Deliver \/ Swallow \/ Finish
           \/ ClearPool
  <2>1. UNCHANGED registry /\ pc \notin Creating
    BY <1>8 DEF Reset, TagAlternative, TagTaken, Advance, Deliver, Swallow, Finish, ClearPool,
                tree, Creating
  <2> QED BY <1>2, <1>3, <2>1 DEF Ids
<1>9. ASSUME NEW c \in Conditions, NEW v \in BOOLEAN,
             BranchNew(c, v) \/ BranchKnown(c, v) \/ BranchInconsistent(c, v)
      PROVE  UNCHANGED registry /\ pc \notin Creating
  BY <1>9 DEF BranchNew, BranchKnown, BranchInconsistent, Evaluates, Creating
<1>10. ASSUME NEW i \in DOMAIN pool, Solve(i) PROVE UNCHANGED registry /\ pc \notin Creating
  BY <1>10 DEF Solve, Creating
<1>11. CASE UNCHANGED registry /\ pc \notin Creating
  BY <1>2, <1>3, <1>11 DEF Ids
<1>12. CASE UNCHANGED vars
  BY <1>2, <1>12 DEF vars, Ids, InHand
<1> QED
  BY <1>4, <1>5, <1>6, <1>7, <1>8, <1>9, <1>10, <1>11, <1>12 DEF Next

(* A linked pair that neither gains a node nor changes a tag. *)
LEMMA TagsUntouched ==
  ASSUME TypeOK, ShapeInv, NEW n \in Ids \ {Root},
         n \in Mistagged', registry'[n] = registry[n],
         n \in Siblings(n),
         \A m \in Siblings(n)' : m \in Siblings(n) \/ registry'[m].expr # registry[n].expr,
         \A m \in Siblings(n) : registry'[m] = registry[m],
         \A m \in Siblings(n) : registry[m].expr = registry[n].expr => chain'[m] = chain[m]
  PROVE  n \in Mistagged
<1>1. PICK m \in Siblings(n)' : registry'[m].expr = registry'[n].expr /\ chain'[m] # chain'[n]
  BY DEF Mistagged, SameBranch
<1>2. m \in Siblings(n) /\ registry[m].expr = registry[n].expr
  BY <1>1
<1>3. chain[m] # chain[n]
  BY <1>1, <1>2
<1> QED
  BY <1>2, <1>3 DEF Mistagged, SameBranch

(* Nothing but a deadline leaves a linked pair with two tags. *)
LEMMA NothingMistags ==
  ASSUME Standing, [Next]_vars, ~Interrupt
  PROVE  (Mistagged \ InHand({"tag_taken"}))' \subseteq Mistagged \ InHand({"tag_taken"})
<1> USE DEF Standing
<1> SUFFICES ASSUME NEW n \in Mistagged', n \notin InHand({"tag_taken"})'
             PROVE  n \in Mistagged \ InHand({"tag_taken"})
  OBVIOUS
<1>1. /\ n \in Ids' \ {Root} /\ n \in Siblings(n)'
      /\ Len(registry) \in Nat /\ current \in Ids
  BY DEF Mistagged, TypeOK, Root
<1>2. ASSUME pc # "tag_taken" PROVE n \notin InHand({"tag_taken"})
  BY <1>2 DEF InHand
<1>3. ASSUME n \in Ids
      PROVE  /\ registry[n].parent \in Ids /\ registry'[n] = registry[n]
             /\ Siblings(n) = ChildrenOf(registry[n].parent) /\ Siblings(n) \subseteq Ids
             /\ Siblings(n)' = ChildrenOf(registry[n].parent)'
             /\ \A m \in Siblings(n) : registry'[m] = registry[m]
  <2>1. registry[n].parent \in Ids /\ registry'[n] = registry[n]
    BY <1>1, <1>3, ParentsOlder, TreeGrows
  <2>2. Siblings(n) = ChildrenOf(registry[n].parent) /\ Siblings(n) \subseteq Ids
    BY <2>1, ChildrenAreIds DEF Siblings
  <2>3. Siblings(n)' = ChildrenOf(registry[n].parent)'
    BY <2>1 DEF Siblings, ChildrenOf
  <2> QED BY <2>1, <2>2, <2>3, TreeGrows
<1>4. CASE UNCHANGED <<registry, children, chain>> /\ pc # "tag_taken"
  <2>1. Mistagged' = Mistagged
    BY <1>4 DEF Mistagged, Siblings, SameBranch, ChildrenOf, Ids
  <2> QED BY <1>2, <1>4, <2>1
<1>5. ASSUME NEW e \in Exprs, NEW v \in BOOLEAN, Register(e, v), UNCHANGED current,
             pc # "tag_taken"
      PROVE  n \in Mistagged \ InHand({"tag_taken"})
  <2>1. /\ Ids' = Ids \cup {Len(registry) + 1}
        /\ \A k \in Ids : chain'[k] = chain[k] /\ ChildrenOf(k)' = ChildrenOf(k)
        /\ registry'[Len(registry) + 1].parent = current
    <3>1. Len(registry') = Len(registry) + 1
      BY <1>5, RegisterExtends
    <3>2. Ids' = Ids \cup {Len(registry) + 1}
      BY <1>1, <3>1 DEF Ids
    <3>3. \A k \in Ids : chain'[k] = chain[k]
      BY <1>5, RegisterExtends
    <3>4. registry'[Len(registry) + 1].parent = current
      <4>1. registry'[Len(registry) + 1] =
               [parent |-> current, expr |-> e, value |-> v,
                depth |-> registry[current].depth + 1]
        BY <1>5, RegisterExtends
      <4> QED BY <4>1
    <3>5. \A k \in Ids : ChildrenOf(k)' = ChildrenOf(k)
      BY <1>5, RegisterKeepsLinks
    <3> QED BY <3>2, <3>3, <3>4, <3>5
  <2>2. n # Len(registry) + 1
    <3> SUFFICES ASSUME n = Len(registry) + 1 PROVE FALSE
      OBVIOUS
    <3>1. Siblings(n)' = ChildrenOf(current)'
      BY <1>5, <2>1 DEF Siblings, ChildrenOf
    <3>2. n \in ChildrenOf(current)
      <4>1. ChildrenOf(current)' = ChildrenOf(current)
        BY <1>1, <1>5, <2>1 DEF ChildrenOf
      <4> QED BY <1>1, <3>1, <4>1
    <3> QED BY <1>1, <3>2, ChildrenAreIds DEF Ids
  <2>3. n \in Ids
    BY <1>1, <2>1, <2>2
  <2>4. Siblings(n)' = Siblings(n)
    BY <1>3, <2>1, <2>3
  <2>5. n \in Mistagged
    BY <1>1, <1>3, <2>1, <2>3, <2>4, TagsUntouched
  <2> QED BY <1>2, <1>5, <2>5
<1>6. CASE RegisterTaken
  <2>1. branch.expr \in Exprs /\ branch.value \in BOOLEAN /\ pc # "tag_taken"
        /\ Register(branch.expr, branch.value) /\ UNCHANGED current
    BY <1>6 DEF TypeOK, LocalsOK, RegisterTaken, Branching, Creating
  <2> QED BY <1>5, <2>1
<1>7. CASE RegisterAlternative
  <2>1. branch.expr \in Exprs /\ (~branch.value) \in BOOLEAN /\ pc # "tag_taken"
        /\ Register(branch.expr, ~branch.value) /\ UNCHANGED current
    BY <1>7 DEF TypeOK, LocalsOK, RegisterAlternative, Branching, Creating
  <2> QED BY <1>5, <2>1
<1>8. ASSUME NEW id \in Ids, Link(id), UNCHANGED <<registry, chain>>, pc # "tag_taken",
             \A k \in ChildrenOf(current) :
                registry[k].expr = registry[id].expr => chain[k] = chain[id]
      PROVE  n \in Mistagged \ InHand({"tag_taken"})
  <2>1. n \in Ids /\ \A k \in Ids : ChildrenOf(k)' = IF k = current THEN ChildrenOf(k) \cup {id}
                                                     ELSE ChildrenOf(k)
    BY <1>1, <1>8, LinkAdds DEF Ids
  <2>2. CASE registry[n].parent # current
    <3>1. Siblings(n)' = Siblings(n)
      BY <1>3, <2>1, <2>2
    <3> QED BY <1>1, <1>2, <1>3, <1>8, <2>1, <3>1, TagsUntouched
  <2>3. CASE registry[n].parent = current
    <3>1. Siblings(n) = ChildrenOf(current) /\ Siblings(n)' = ChildrenOf(current) \cup {id}
      BY <1>1, <1>3, <2>1, <2>3
    <3>2. PICK m \in ChildrenOf(current) \cup {id} :
             registry[m].expr = registry[n].expr /\ chain[m] # chain[n]
      BY <1>8, <3>1 DEF Mistagged, SameBranch
    <3>3. n # id /\ m # id
      BY <1>1, <1>8, <3>1, <3>2
    <3>4. n \in Mistagged
      BY <1>1, <2>1, <3>1, <3>2, <3>3 DEF Mistagged, SameBranch
    <3> QED BY <1>2, <1>8, <3>4
  <2> QED BY <2>2, <2>3
<1>9. CASE LinkTaken
  <2>1. /\ pc = "link_taken" /\ Link(branch.taken) /\ UNCHANGED <<registry, chain>>
        /\ branch.taken \in Ids
    BY <1>9 DEF LinkTaken, LocalsOK, TakenPcs
  <2>2. \A k \in ChildrenOf(current) : registry[k].expr # registry[branch.taken].expr
    BY <2>1 DEF PoolInv, TakenAchieved, Creating, SiblingInv, RoomForBranch
  <2> QED BY <1>8, <2>1, <2>2
<1>10. CASE LinkAlternative
  <2>1. /\ pc = "link_alternative" /\ Link(branch.alternative) /\ UNCHANGED <<registry, chain>>
        /\ branch.alternative \in Ids
    BY <1>10 DEF LinkAlternative, LocalsOK, AlternativePcs
  <2>2. /\ registry[branch.alternative].expr = branch.expr
        /\ chain[branch.taken] = NoChain /\ chain[branch.alternative] = NoChain
    BY <2>1 DEF PoolInv, AlternativeAchieved, Hand, Untagged, Creating
  <2>3. \A k \in ChildrenOf(current) :
           registry[k].expr = registry[branch.alternative].expr
              => chain[k] = chain[branch.alternative]
    BY <2>1, <2>2, TakenIsOnly
  <2> QED BY <1>8, <2>1, <2>3
<1>11. ASSUME NEW id \in {branch.taken, branch.alternative}, Tag(id),
              pc \in {"tag_alternative", "tag_taken"},
              UNCHANGED <<registry, children, branch, current>>,
              pc = "tag_taken" => id = branch.taken,
              pc = "tag_alternative" => pc' = "tag_taken"
       PROVE  n \in Mistagged \ InHand({"tag_taken"})
  <2>1. /\ branch.taken \in ChildrenOf(current) /\ branch.alternative \in ChildrenOf(current)
        /\ registry[branch.taken].expr = branch.expr
        /\ registry[branch.alternative].expr = branch.expr
    BY <1>11 DEF Hand, TwoSides
  <2>2. /\ n \in Ids /\ Siblings(n)' = Siblings(n) /\ n \in Siblings(n)
    BY <1>1, <1>11 DEF Siblings, ChildrenOf, Ids
  <2>3. /\ chain'[id] = branch.chain
        /\ \A k \in Ids : k # id => chain'[k] = chain[k]
        /\ \A k \in Ids : k # current => id \notin ChildrenOf(k)
    BY <1>11, <2>1, TagIsLocal
  <2>4. /\ registry[branch.taken].parent = current
        /\ registry[branch.alternative].parent = current
    BY <1>1, <2>1 DEF ShapeInv, LinksAgree
  <2>5. CASE registry[n].parent = current /\ registry[n].expr = branch.expr
    <3>1. Siblings(n) = ChildrenOf(current)
      BY <2>5 DEF Siblings
    <3>2. n \in {branch.taken, branch.alternative}
      BY <1>11, <2>2, <2>5, <3>1, SidesInHand DEF Hand
    <3>3. pc = "tag_taken" /\ id = branch.taken
      BY <1>11, <3>2 DEF InHand
    <3>4. PICK m \in ChildrenOf(current) : registry[m].expr = branch.expr /\ chain'[m] # chain'[n]
      BY <1>11, <2>2, <2>5, <3>1 DEF Mistagged, SameBranch
    <3>5. m \in {branch.taken, branch.alternative}
      BY <1>11, <3>4, SidesInHand DEF Hand
    <3>6. chain'[branch.taken] = chain'[branch.alternative]
      BY <1>1, <2>1, <2>3, <3>3, ChildrenAreIds DEF Hand
    <3> QED BY <3>2, <3>4, <3>5, <3>6
  <2>6. CASE ~(registry[n].parent = current /\ registry[n].expr = branch.expr)
    <3>1. n \notin {branch.taken, branch.alternative}
      BY <2>1, <2>4, <2>6
    <3>2. \A m \in Siblings(n) : registry[m].expr = registry[n].expr => m # id
      BY <1>3, <2>1, <2>2, <2>3, <2>6
    <3>3. \A m \in Siblings(n) : registry[m].expr = registry[n].expr => chain'[m] = chain[m]
      BY <1>3, <2>2, <2>3, <3>2
    <3>4. n \in Mistagged
      BY <1>1, <1>3, <2>2, <3>3, TagsUntouched
    <3> QED BY <3>1, <3>4 DEF InHand
  <2> QED BY <2>5, <2>6
<1>12. CASE TagAlternative
  BY <1>11, <1>12 DEF TagAlternative
<1>13. CASE TagTaken
  BY <1>11, <1>13 DEF TagTaken
<1>14. CASE Reset \/ Enqueue \/ Advance \/ Deliver \/ Swallow \/ Finish \/ ClearPool \/ MarkTaken
  BY <1>4, <1>14 DEF Reset, Enqueue, Advance, Deliver, Swallow, Finish, ClearPool, MarkTaken, tree
<1>15. ASSUME NEW c \in Conditions, NEW v \in BOOLEAN,
              BranchNew(c, v) \/ BranchKnown(c, v) \/ BranchInconsistent(c, v)
       PROVE  UNCHANGED <<registry, children, chain>> /\ pc # "tag_taken"
  BY <1>15 DEF BranchNew, BranchKnown, BranchInconsistent, Evaluates
<1>16. ASSUME NEW i \in DOMAIN pool, Solve(i)
       PROVE  UNCHANGED <<registry, children, chain>> /\ pc # "tag_taken"
  BY <1>16 DEF Solve
<1>17. CASE UNCHANGED vars
  <2>1. Mistagged' = Mistagged /\ InHand({"tag_taken"})' = InHand({"tag_taken"})
    BY <1>17 DEF vars, Mistagged, InHand, Siblings, SameBranch, ChildrenOf, Ids
  <2> QED BY <2>1
<1> QED
  BY <1>4, <1>6, <1>7, <1>9, <1>10, <1>12, <1>13, <1>14, <1>15, <1>16, <1>17 DEF Next

(* DamageConfined: whatever deadlines, rewrites and plateaus do, a node is *)
(* lost, loses its other side or its tag only in the step in which a       *)
(* deadline unwinds the branch that has it in hand.                        *)
THEOREM DamageConfinedHolds == Spec => DamageConfined
<1>1. Init => Standing
  <2>1. Init => Hand
    BY DEF Init, Hand, Untagged, TwoSides, MadeInOrder, Creating
  <2> QED BY <2>1, InitTypes, InitShape, InitPool, InitSiblings DEF Standing
<1>2. Standing /\ [Next]_vars => Standing'
  <2> SUFFICES ASSUME Standing, [Next]_vars PROVE Standing'
    OBVIOUS
  <2>1. TypeOK' /\ LocalsOK'
    BY TypeStep DEF Standing
  <2>2. ShapeInv'
    BY <2>1, ShapeStep DEF Standing
  <2>3. PoolInv' /\ SiblingInv'
    BY PoolStep, SiblingStep DEF Standing
  <2> QED BY <2>1, <2>2, <2>3, HandStep DEF Standing
<1>3. Standing /\ [Next]_vars =>
        [NewDamage # {} => /\ pc' = "unwinding"
                           /\ NewDamage \subseteq {branch.taken, branch.alternative}]_vars
  <2> SUFFICES ASSUME Standing, [Next]_vars, NewDamage # {}
               PROVE  /\ pc' = "unwinding"
                      /\ NewDamage \subseteq {branch.taken, branch.alternative}
    OBVIOUS
  <2>1. CASE ~Interrupt
    BY <2>1, NothingBreaks, NothingMistags DEF NewDamage, Damaged
  <2>2. CASE Interrupt
    <3>1. /\ pc' = "unwinding"
          /\ UNCHANGED <<registry, children, chain, processed, pool, dropped>>
      BY <2>2 DEF Interrupt, tree
    <3>2. Lost' = Lost /\ OneSided' = OneSided /\ Mistagged' = Mistagged
      BY <3>1 DEF Lost, OneSided, Mistagged, Siblings, SameBranch, ChildrenOf, Pending, Ids
    <3>3. \A steps : InHand(steps) \subseteq {branch.taken, branch.alternative}
      BY DEF InHand
    <3>4. Damaged' \subseteq Damaged \cup {branch.taken, branch.alternative}
      BY <3>2, <3>3 DEF Damaged
    <3> QED BY <3>1, <3>4 DEF NewDamage
  <2> QED BY <2>1, <2>2
<1> QED
  BY <1>1, <1>2, <1>3, PTL DEF Spec, DamageConfined
=============================================================================
