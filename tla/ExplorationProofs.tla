-------------------------- MODULE ExplorationProofs --------------------------
(***************************************************************************)
(* Proofs about Exploration, for every scope, every budget, every chain    *)
(* tagging and every number of seeds and constraints.                      *)
(***************************************************************************)
EXTENDS Exploration, TLAPS, FiniteSetTheorems, SequenceTheorems, ProofFacts

(* What a dispatch returns is a sequence of inputs; tagging it keeps its    *)
(* length.                                                                 *)
LEMMA SeedListsAreSequences ==
  ASSUME NEW list \in SeedLists, NEW prov \in Provenances
  PROVE  /\ list \in Seq(Inputs)
         /\ Tagged(prov, list) \in Seq(Inputs \X Provenances)
         /\ Tagged(prov, list) = <<>> <=> list = <<>>
<1>1. PICK n \in 0 .. MaxSeeds : list \in [1 .. n -> Inputs]
  BY ConfigAssumption DEF SeedLists
<1>2. n \in Nat /\ list \in Seq(Inputs) /\ Len(list) = n
  BY <1>1, ConfigAssumption
<1>3. /\ Tagged(prov, list) \in Seq(Inputs \X Provenances)
      /\ Len(Tagged(prov, list)) = n
  BY <1>1, <1>2 DEF Tagged
<1>4. \A S : \A s \in Seq(S) : s = <<>> <=> Len(s) = 0
  BY EmptySeq
<1> QED
  BY <1>2, <1>3, <1>4, Zenon

-----------------------------------------------------------------------------
(* Type correctness.  A mini-loop execution uses up an iteration it found   *)
(* left, so remaining stays a natural number.                               *)
Types ==
    /\ TypeOK
    /\ pc \in {"mini_solving", "post_solver"} => remaining > 0

LEMMA Budgets == PostLoopRounds \in Nat /\ MiniIterations \in Nat
  BY ConfigAssumption

LEMMA ObservedFinite ==
  ASSUME observed \subseteq Lines
  PROVE  IsFiniteSet(observed) /\ ObservedCount \in Nat
  BY ScopeAssumption, FS_Subset, FS_CardinalityType DEF ObservedCount

LEMMA TypesInit == Init => Types
<1> SUFFICES ASSUME Init PROVE Types
  OBVIOUS
<1> USE ScopeAssumption, ConfigAssumption, ChainAssumption
<1>1. streak \in [Chains -> Nat] /\ call = NoCall
  BY DEF Init
<1>2. call \in [args : Inputs, provenance : Provenances, late : BOOLEAN, error : Errors]
  BY <1>1 DEF NoCall, Provenances, Errors
<1>3. /\ queue \in Seq(Inputs \X Provenances) /\ pool \in Seq(1 .. MaxConstraints)
      /\ records \in Seq([args : Inputs, provenance : Provenances,
                          outcome : Outcomes, newLines : SUBSET TargetLines])
      /\ candidates \in Seq(Inputs)
  BY EmptySeq DEF Init
<1>4. /\ pc = "seeds" /\ created = 0 /\ iteration = 0 /\ seedPhase = TRUE
      /\ reason = "" /\ observed = {} /\ lastSize = 0 /\ stale = 0
      /\ baseline = NoBaseline /\ failures = 0 /\ deprioritized = 0
      /\ pickedChain = NoChain /\ late = FALSE /\ round = 0 /\ remaining = 0
      /\ before = 0 /\ postFailures = 0 /\ dispatches = 0
  BY DEF Init
<1>5. /\ 0 \in Nat /\ 0 \in 0 .. MaxConstraints /\ 0 \in 0 .. PostLoopRounds
      /\ 0 \in 0 .. MiniIterations
  OBVIOUS
<1>6. /\ pc \in MainPcs \cup PostPcs \cup Final /\ reason \in Reasons
      /\ pc \notin {"mini_solving", "post_solver"} /\ observed \subseteq Lines
  <2>1. pc = "seeds" /\ reason = "" /\ observed = {}
    BY <1>4, Zenon
  <2> QED BY <2>1, Zenon DEF MainPcs, Reasons
<1>7. /\ seedPhase \in BOOLEAN /\ late \in BOOLEAN
      /\ pickedChain \in Chains \cup {NoChain} /\ baseline \in Nat \cup {NoBaseline}
  BY <1>4, Zenon
<1> QED
  BY <1>1, <1>2, <1>3, <1>4, <1>5, <1>6, <1>7, Zenon DEF Types, TypeOK

(* Removing an entry leaves a sequence over the same set. *)
LEMMA WithoutKeeps ==
  ASSUME NEW S, NEW s \in Seq(S), NEW i \in 1 .. Len(s)
  PROVE  Without(s, i) \in Seq(S)
<1>1. /\ i - 1 \in Int /\ i + 1 \in Int /\ 1 \in Int /\ Len(s) \in Int
      /\ \A j \in 1 .. i - 1 : j \in 1 .. Len(s)
      /\ \A j \in i + 1 .. Len(s) : j \in 1 .. Len(s)
  BY LenProperties
<1>2. \A j \in 1 .. Len(s) : s[j] \in S
  BY ElementOfSeq
<1>3. SubSeq(s, 1, i - 1) \in Seq(S)
  BY <1>1, <1>2, SubSeqProperties, Zenon
<1>4. SubSeq(s, i + 1, Len(s)) \in Seq(S)
  BY <1>1, <1>2, SubSeqProperties, Zenon
<1> QED
  BY <1>3, <1>4, ConcatProperties, Zenon DEF Without

(* The scheduler picks a position of the pool. *)
LEMMA PickInPool ==
  ASSUME TypeOK, pool # <<>>
  PROVE  /\ PickIndex \in DOMAIN pool
         /\ pool[PickIndex] \in 1 .. MaxConstraints
         /\ ChainOf[pool[PickIndex]] \in Chains \cup {NoChain}
         /\ Without(pool, PickIndex) \in Seq(1 .. MaxConstraints)
<1> DEFINE plain  == {i \in DOMAIN pool : ChainOf[pool[i]] = NoChain}
           active == {i \in DOMAIN pool \ plain : ~IsDeprioritized(ChainOf[pool[i]])}
<1>1. /\ pool \in Seq(1 .. MaxConstraints) /\ Len(pool) \in Nat \ {0}
      /\ DOMAIN pool = 1 .. Len(pool)
  BY EmptySeq DEF TypeOK
<1>2. plain \in SUBSET Nat /\ active \in SUBSET Nat
  BY <1>1
<1>3. /\ plain # {} => FirstOf(plain) \in plain
      /\ active # {} => FirstOf(active) \in active
  <2> HIDE DEF plain, active
  <2> QED BY <1>2, LeastNatural DEF FirstOf
<1>4. PickIndex = IF plain # {} THEN FirstOf(plain)
                  ELSE IF active # {} THEN FirstOf(active) ELSE 1
  BY DEF PickIndex
<1>5. plain \subseteq DOMAIN pool /\ active \subseteq DOMAIN pool
  OBVIOUS
<1>6. PickIndex \in 1 .. Len(pool)
  <2> HIDE DEF plain, active
  <2>1. PickIndex \in plain \/ PickIndex \in active \/ PickIndex = 1
    BY <1>3, <1>4, Zenon
  <2>2. 1 \in 1 .. Len(pool)
    BY <1>1
  <2> QED BY <2>1, <2>2, <1>1, <1>5, Zenon
<1>7. pool[PickIndex] \in 1 .. MaxConstraints
  BY <1>1, <1>6, ElementOfSeq
<1>8. Without(pool, PickIndex) \in Seq(1 .. MaxConstraints)
  BY <1>1, <1>6, WithoutKeeps, Zenon
<1> QED
  BY <1>1, <1>6, <1>7, <1>8, ChainAssumption

(* What an execution leaves behind. *)
LEMMA ExecuteTypes ==
  ASSUME TypeOK, NEW hit \in SUBSET Lines, NEW k \in 0 .. MaxConstraints,
         NEW error \in {"none", "timeout", "other"}, Execute(hit, k, error)
  PROVE  /\ observed' \subseteq Lines
         /\ dispatches' \in Nat
         /\ created' \in 0 .. MaxConstraints
         /\ pool' \in Seq(1 .. MaxConstraints)
         /\ records' \in Seq([args : Inputs, provenance : Provenances,
                              outcome : Outcomes, newLines : SUBSET TargetLines])
<1> DEFINE newLines == (hit \ observed) \cap TargetLines
           entry == [args |-> call.args, provenance |-> call.provenance,
                     outcome |-> Classify(error, newLines), newLines |-> newLines]
           fresh == [i \in 1 .. k |-> created + i]
<1> USE ConfigAssumption
<1>1. created' \in 0 .. MaxConstraints /\ observed' \subseteq Lines /\ dispatches' \in Nat
  BY DEF Execute, Ends, TypeOK
<1>2. fresh \in Seq(1 .. MaxConstraints)
  BY DEF Execute, Ends, TypeOK
<1>3. pool' \in Seq(1 .. MaxConstraints)
  BY <1>2, ConcatProperties DEF Execute, TypeOK
<1>4. Classify(error, newLines) \in Outcomes
  <2> HIDE DEF newLines
  <2> QED BY DEF Classify, Outcomes
<1>5. entry \in [args : Inputs, provenance : Provenances,
                 outcome : Outcomes, newLines : SUBSET TargetLines]
  BY <1>4 DEF TypeOK
<1>6. records' \in Seq([args : Inputs, provenance : Provenances,
                       outcome : Outcomes, newLines : SUBSET TargetLines])
  <2> HIDE DEF entry
  <2>1. records' = Append(records, entry)
    BY DEF Execute, entry
  <2> QED
    BY <2>1, <1>5, AppendProperties DEF TypeOK
<1> QED
  BY <1>1, <1>3, <1>6

(* A call holds an input, who proposed it, and whether it starts too late. *)
LEMMA StartCallTypes ==
  ASSUME TypeOK, NEW args \in Inputs, NEW prov \in Provenances, NEW next,
         StartCall(args, prov, next)
  PROVE  call' \in [args : Inputs, provenance : Provenances, late : BOOLEAN, error : Errors]
<1> DEFINE tooLate == late /\ ~seedPhase
<1>1. tooLate \in BOOLEAN
  BY Zenon DEF TypeOK
<1>2. call' = [args |-> args, provenance |-> prov, late |-> tooLate, error |-> "none"]
  BY Zenon DEF StartCall
<1> HIDE DEF tooLate
<1> QED
  BY <1>1, <1>2 DEF Errors

(* Crediting a flip keeps a streak per chain. *)
LEMMA UpdateChainTypes ==
  ASSUME streak \in [Chains -> Nat], deprioritized \in Nat,
         pickedChain \in Chains \cup {NoChain}, NEW lines, UpdateChain(lines)
  PROVE  streak' \in [Chains -> Nat] /\ deprioritized' \in Nat
<1> DEFINE count == IF lines # {} THEN 0 ELSE streak[pickedChain] + 1
<1>1. CASE pickedChain = NoChain
  BY <1>1 DEF UpdateChain, chainStats
<1>2. CASE pickedChain # NoChain
  <2>1. count \in Nat
    BY <1>2
  <2>2. streak' = [streak EXCEPT ![pickedChain] = count]
    BY <1>2, Zenon DEF UpdateChain
  <2>3. deprioritized' = deprioritized + 1 \/ deprioritized' = deprioritized
    <3>1. deprioritized' = IF lines = {} /\ streak[pickedChain] + 1 = StreakThreshold
                           THEN deprioritized + 1 ELSE deprioritized
      BY <1>2, Zenon DEF UpdateChain
    <3> QED
      BY <3>1, Zenon
  <2> HIDE DEF count
  <2>4. streak' \in [Chains -> Nat]
    BY <2>1, <2>2
  <2>5. deprioritized' \in Nat
    BY <2>3
  <2> QED
    BY <2>4, <2>5
<1> QED
  BY <1>1, <1>2

LEMMA TypesStep == Types /\ [Next]_vars => Types'
<1> SUFFICES ASSUME Types, [Next]_vars PROVE Types'
  OBVIOUS
<1> USE DEF Types, engineVars, plateauVars, chainStats, postVars, Terminate
<1> USE DEF MainPcs, PostPcs, Final
<1>1. CASE Abort
  BY <1>1, Zenon DEF Abort, TypeOK
<1>3. CASE CheckBudget
  BY <1>3 DEF CheckBudget, TypeOK, Reasons
<1>4. CASE PopQueue
  <2>1. /\ queue \in Seq(Inputs \X Provenances) /\ queue # <<>>
        /\ Tail(queue) \in Seq(Inputs \X Provenances)
        /\ Head(queue) \in Inputs \X Provenances
    BY <1>4, HeadTailProperties DEF PopQueue, TypeOK
  <2>2. /\ Head(queue)[1] \in Inputs /\ Head(queue)[2] \in Provenances
    BY <2>1
  <2>3. call' \in [args : Inputs, provenance : Provenances, late : BOOLEAN, error : Errors]
    BY <1>4, <2>2, StartCallTypes DEF PopQueue, TypeOK
  <2>4. pc' \in {"next", "running"} /\ pickedChain' \in Chains \cup {NoChain}
    BY <1>4 DEF PopQueue, StartCall, TypeOK
  <2> QED
    BY <1>4, <2>1, <2>3, <2>4 DEF PopQueue, TypeOK
<1>5. CASE EndSeedPhase
  BY <1>5 DEF EndSeedPhase, TypeOK
<1>6. CASE PickConstraint
  BY <1>6, PickInPool DEF PickConstraint, TypeOK
<1>8. CASE SolverTooLate
  BY <1>8 DEF SolverTooLate, TypeOK, Reasons
<1>10. ASSUME NEW args \in Inputs,
              SolverAnswers(args) \/ Resolve(args) \/ MiniAnswers(args)
       PROVE  Types'
  <2>1. call' \in [args : Inputs, provenance : Provenances, late : BOOLEAN, error : Errors]
    <3>1. \A next : \A prov \in {"solver", "plugin_unknown"} :
            StartCall(args, prov, next) => call' \in
              [args : Inputs, provenance : Provenances, late : BOOLEAN, error : Errors]
      BY StartCallTypes DEF Provenances
    <3> QED
      BY <1>10, <3>1, Zenon DEF SolverAnswers, Resolve, MiniAnswers, TypeOK
  <2>2. /\ pc' \in {"pick", "running", "mini", "post_solver"}
        /\ pc' = "post_solver" => pc = "mini_solving"
    BY <1>10 DEF SolverAnswers, Resolve, MiniAnswers, StartCall
  <2> QED
    BY <1>10, <2>1, <2>2 DEF SolverAnswers, Resolve, MiniAnswers, TypeOK
<1>14. CASE Verdict
  BY <1>14 DEF Verdict, TypeOK, Reasons
<1>15. CASE CheckPlateauOutcome
  <2>1. failures' \in Nat /\ baseline' \in Nat \cup {NoBaseline}
    BY <1>15 DEF CheckPlateauOutcome, TypeOK
  <2>2. pc' \in {"post", "stale"} /\ reason' \in Reasons
    BY <1>15 DEF CheckPlateauOutcome, TypeOK, Reasons
  <2> QED
    BY <1>15, <2>1, <2>2 DEF CheckPlateauOutcome, TypeOK
<1>16. CASE CountStale
  <2>1. lastSize' \in Nat /\ stale' \in Nat
    BY <1>16, ObservedFinite DEF CountStale, LargerOf, TypeOK
  <2> QED
    BY <1>16, <2>1 DEF CountStale, TypeOK
<1>17. CASE FirePlateau
  <2>1. baseline' \in Nat /\ dispatches' \in Nat /\ pool' = <<>>
    BY <1>17, ObservedFinite DEF FirePlateau, TypeOK
  <2>2. pool' \in Seq(1 .. MaxConstraints)
    BY <2>1, EmptySeq
  <2> QED
    BY <1>17, <2>1, <2>2 DEF FirePlateau, TypeOK
<1>2. ASSUME NEW list \in SeedLists, NEW prov \in {"seed", "plugin_seed"},
             RequestSeeds(list, prov)
      PROVE  Types'
  <2>1. Tagged(prov, list) \in Seq(Inputs \X Provenances)
    BY SeedListsAreSequences DEF Provenances
  <2>2. <<<<InitialArgs, "seed">>>> \in Seq(Inputs \X Provenances)
    BY ScopeAssumption DEF Provenances
  <2>3. queue' \in Seq(Inputs \X Provenances)
    BY <1>2, <2>1, <2>2, ConcatProperties DEF RequestSeeds
  <2> QED
    BY <1>2, <2>3 DEF RequestSeeds, TypeOK
<1>18. ASSUME NEW list \in SeedLists, PlateauSeeds(list)
       PROVE  Types'
  <2>1. Tagged("plugin_plateau", list) \in Seq(Inputs \X Provenances)
    BY SeedListsAreSequences DEF Provenances
  <2>2. queue' \in Seq(Inputs \X Provenances)
    BY <1>18, <2>1, ConcatProperties DEF PlateauSeeds, TypeOK
  <2>3. seedPhase' \in BOOLEAN
    BY <1>18, Zenon DEF PlateauSeeds, TypeOK
  <2> QED
    BY <1>18, <2>2, <2>3 DEF PlateauSeeds, TypeOK
<1>19. ASSUME NEW list \in SeedLists, Discover(list)
       PROVE  Types'
  BY <1>19, SeedListsAreSequences DEF Discover, TypeOK, Provenances
<1>20. ASSUME NEW hit \in SUBSET Lines, NEW k \in 0 .. MaxConstraints,
              NEW error \in {"none", "timeout", "other"},
              Return(hit, k, error) \/ PostReturn(hit, k, error)
       PROVE  Types'
  <2>1. Execute(hit, k, error)
    BY <1>20 DEF Return, PostReturn
  <2>2. call' \in [args : Inputs, provenance : Provenances, late : BOOLEAN, error : Errors]
    <3>1. call' = [call EXCEPT !.error = error]
      BY <1>20, Zenon DEF Return, PostReturn
    <3> QED
      BY <3>1 DEF TypeOK, Errors
  <2>3. /\ observed' \subseteq Lines /\ dispatches' \in Nat /\ created' \in 0 .. MaxConstraints
        /\ pool' \in Seq(1 .. MaxConstraints)
        /\ records' \in Seq([args : Inputs, provenance : Provenances,
                            outcome : Outcomes, newLines : SUBSET TargetLines])
    BY <2>1, ExecuteTypes, Zenon
  <2>4. CASE Return(hit, k, error)
    <3>1. streak' \in [Chains -> Nat] /\ deprioritized' \in Nat
      BY <2>4, UpdateChainTypes DEF Return, TypeOK
    <3>2. /\ pc' = "verdict" /\ iteration' \in Nat
          /\ UNCHANGED <<queue, seedPhase, reason, lastSize, stale, baseline, failures,
                         pickedChain, late, round, candidates, remaining, before,
                         postFailures>>
      BY <2>4 DEF Return, TypeOK
    <3> QED
      BY <2>2, <2>3, <3>1, <3>2 DEF TypeOK
  <2>5. CASE PostReturn(hit, k, error)
    <3>1. /\ pc' \in {"candidates", "mini"}
          /\ remaining' \in 0 .. MiniIterations
          /\ UNCHANGED <<queue, iteration, seedPhase, reason, lastSize, stale, baseline,
                         failures, streak, deprioritized, pickedChain, late, round,
                         candidates, before, postFailures>>
      BY <2>5, Budgets DEF PostReturn, TypeOK
    <3> QED
      BY <2>2, <2>3, <3>1 DEF TypeOK
  <2> QED
    BY <1>20, <2>4, <2>5
<1>21. CASE BeginRound \/ EndRound
  <2>1. pc' \in {"done", "discover", "post"}
    BY <1>21 DEF BeginRound, EndRound
  <2>2. /\ round' \in 0 .. PostLoopRounds /\ before' \in Nat /\ postFailures' \in Nat
    <3>1. ObservedCount \in Nat
      BY ObservedFinite, Zenon DEF TypeOK
    <3>2. CASE BeginRound
      BY <3>1, <3>2, Budgets DEF BeginRound, TypeOK
    <3>3. CASE EndRound
      BY <3>3, Budgets DEF EndRound, TypeOK
    <3> QED
      BY <1>21, <3>2, <3>3
  <2> QED
    BY <1>21, <2>1, <2>2 DEF BeginRound, EndRound, TypeOK
<1>22. CASE NextCandidate
  <2>1. /\ candidates' \in Seq(Inputs) /\ Head(candidates) \in Inputs
    BY <1>22, HeadTailProperties DEF NextCandidate, TypeOK
  <2>2. call' \in [args : Inputs, provenance : Provenances, late : BOOLEAN, error : Errors]
    BY <1>22, <2>1, StartCallTypes DEF NextCandidate, TypeOK, Provenances
  <2>3. pc' \in {"candidates", "post_candidate"}
    BY <1>22 DEF NextCandidate, StartCall
  <2>4. UNCHANGED <<queue, pool, created, records, iteration, seedPhase, reason, observed,
                    lastSize, stale, baseline, failures, dispatches, streak,
                    deprioritized, pickedChain, late, round, remaining, before,
                    postFailures>>
    BY <1>22 DEF NextCandidate
  <2> QED
    BY <2>1, <2>2, <2>3, <2>4 DEF TypeOK
<1>23. CASE BeginMiniLoop
  BY <1>23, Budgets DEF BeginMiniLoop, TypeOK
<1>24. CASE MiniPick
  <2>1. /\ pool' \in Seq(1 .. MaxConstraints) /\ pc' \in {"mini_solving", "round_end"}
        /\ pc' = "mini_solving" => remaining > 0
    <3>1. CASE remaining > 0 /\ pool # <<>> /\ ~FullyCovered
      <4>1. pool' = Tail(pool) /\ pool \in Seq(1 .. MaxConstraints) /\ pool # <<>>
        BY <1>24, <3>1 DEF MiniPick, TypeOK
      <4>2. pool' \in Seq(1 .. MaxConstraints)
        BY <4>1, HeadTailProperties
      <4> QED
        BY <1>24, <3>1, <4>2 DEF MiniPick
    <3>2. CASE ~(remaining > 0 /\ pool # <<>> /\ ~FullyCovered)
      BY <1>24, <3>2 DEF MiniPick, TypeOK
    <3> QED
      BY <3>1, <3>2, Zenon
  <2> QED
    BY <1>24, <2>1 DEF MiniPick, TypeOK
<1>25. CASE MiniFails \/ Unresolved \/ SkipPlateauOutcome \/ PoolDrained
  BY <1>25 DEF MiniFails, Unresolved, SkipPlateauOutcome, PoolDrained, TypeOK
<1>26. ASSUME NEW next \in {"pick", "unknown"}, SolverFails(next)
       PROVE  Types'
  BY <1>26 DEF SolverFails, TypeOK
<1>27. CASE NoInput
  BY <1>27 DEF NoInput, TypeOK, Reasons
<1>28. CASE Tick
  BY <1>28 DEF Tick, TypeOK
<1>29. CASE UNCHANGED vars
  BY <1>29 DEF vars, TypeOK
<1> QED
  BY <1>1, <1>2, <1>3, <1>4, <1>5, <1>6, <1>8, <1>10, <1>14, <1>15, <1>16, <1>17,
     <1>18, <1>19, <1>20, <1>21, <1>22, <1>23, <1>24, <1>25, <1>26, <1>27, <1>28, <1>29,
     Zenon DEF Next, EngineStep

-----------------------------------------------------------------------------
(* Control: where the queue, seed phase and the post loop stand. *)
Control ==
    /\ pc = "seeds" => seedPhase
    /\ pc \in {"pick", "solving", "unknown", "no_input"} => queue = <<>> /\ ~seedPhase
    /\ QueueOnlyInSeedPhase
    /\ SeedsNotStranded
    /\ pc = "post" /\ seedPhase => FullyCovered
    /\ PostLoopOutsideSeedPhase

LEMMA ControlInit == Init => Control
  BY DEF Init, Control, QueueOnlyInSeedPhase, SeedsNotStranded,
         PostLoopOutsideSeedPhase, PostPcs

LEMMA ControlStep == TypeOK /\ Control /\ [Next]_vars => Control'
<1> SUFFICES ASSUME TypeOK, Control, [Next]_vars PROVE Control'
  OBVIOUS
<1> USE DEF Control, QueueOnlyInSeedPhase, SeedsNotStranded,
            PostLoopOutsideSeedPhase, PostPcs, Final, engineVars, plateauVars,
            chainStats, postVars, Terminate, StartCall
<1>1. CASE Abort
  BY <1>1 DEF Abort, FullyCovered
<1>2. ASSUME NEW list \in SeedLists, NEW prov \in {"seed", "plugin_seed"},
             RequestSeeds(list, prov)
      PROVE  Control'
  BY <1>2 DEF RequestSeeds, FullyCovered
<1>3. CASE CheckBudget
  BY <1>3 DEF CheckBudget, FullyCovered
<1>4. CASE PopQueue
  BY <1>4 DEF PopQueue, FullyCovered
<1>5. CASE EndSeedPhase
  BY <1>5 DEF EndSeedPhase, FullyCovered
<1>6. CASE PickConstraint
  BY <1>6 DEF PickConstraint, FullyCovered
<1>7. CASE PoolDrained
  BY <1>7 DEF PoolDrained, FullyCovered
<1>8. CASE SolverTooLate
  BY <1>8 DEF SolverTooLate, FullyCovered
<1>9. CASE NoInput
  BY <1>9 DEF NoInput, FullyCovered
<1>10. ASSUME NEW args \in Inputs,
              SolverAnswers(args) \/ Resolve(args) \/ MiniAnswers(args)
       PROVE  Control'
  BY <1>10 DEF SolverAnswers, Resolve, MiniAnswers, FullyCovered
<1>11. ASSUME NEW next \in {"pick", "unknown"}, SolverFails(next)
       PROVE  Control'
  BY <1>11 DEF SolverFails, FullyCovered
<1>12. CASE Unresolved
  BY <1>12 DEF Unresolved, FullyCovered
<1>13. ASSUME NEW hit \in SUBSET Lines, NEW k \in 0 .. MaxConstraints,
              NEW error \in {"none", "timeout", "other"},
              Return(hit, k, error) \/ PostReturn(hit, k, error)
       PROVE  Control'
  BY <1>13 DEF Return, PostReturn, Execute
<1>14. CASE Verdict
  BY <1>14 DEF Verdict, FullyCovered
<1>15. CASE CheckPlateauOutcome \/ SkipPlateauOutcome
  BY <1>15 DEF CheckPlateauOutcome, SkipPlateauOutcome, FullyCovered
<1>16. CASE CountStale \/ FirePlateau
  BY <1>16 DEF CountStale, FirePlateau, FullyCovered
<1>17. ASSUME NEW list \in SeedLists, PlateauSeeds(list)
       PROVE  Control'
  <2>1. /\ Tagged("plugin_plateau", list) \in Seq(Inputs \X Provenances)
        /\ Tagged("plugin_plateau", list) = <<>> <=> list = <<>>
    BY SeedListsAreSequences DEF Provenances
  <2>2. queue \in Seq(Inputs \X Provenances)
    BY DEF TypeOK
  <2>3. queue' # <<>> => queue # <<>> \/ list # <<>>
    BY <1>17, <2>1, <2>2 DEF PlateauSeeds
  <2> QED
    BY <1>17, <2>3 DEF PlateauSeeds, FullyCovered
<1>18. ASSUME NEW list \in SeedLists, Discover(list)
       PROVE  Control'
  BY <1>18 DEF Discover, FullyCovered
<1>19. CASE BeginRound \/ EndRound
  BY <1>19 DEF BeginRound, EndRound, FullyCovered
<1>20. CASE NextCandidate \/ BeginMiniLoop \/ MiniPick \/ MiniFails
  BY <1>20 DEF NextCandidate, BeginMiniLoop, MiniPick, MiniFails, FullyCovered
<1>21. CASE Tick
  BY <1>21 DEF Tick, FullyCovered
<1>22. CASE UNCHANGED vars
  BY <1>22 DEF vars, FullyCovered
<1> QED
  BY <1>1, <1>2, <1>3, <1>4, <1>5, <1>6, <1>7, <1>8, <1>9, <1>10, <1>11, <1>12, <1>13,
     <1>14, <1>15, <1>16, <1>17, <1>18, <1>19, <1>20, <1>21, <1>22, Zenon
     DEF Next, EngineStep

-----------------------------------------------------------------------------
(* Inputs: an input in flight has no record yet, because whoever starts it *)
(* has just asked has_seen_args.                                           *)
InFlight == {"running", "post_candidate", "post_solver"}

Fresh ==
    /\ pc \in InFlight => ~Seen(call.args)
    /\ RecordsDistinct

LEMMA FreshInit == Init => Fresh
<1> SUFFICES ASSUME Init PROVE Fresh
  OBVIOUS
<1>1. records = <<>> /\ pc = "seeds"
  BY DEF Init
<1> QED
  BY <1>1 DEF Fresh, RecordsDistinct, InFlight

(* A new record of an input that has none keeps the inputs distinct. *)
LEMMA ExecuteFresh ==
  ASSUME TypeOK, Fresh, pc \in InFlight, NEW hit \in SUBSET Lines,
         NEW k \in 0 .. MaxConstraints,
         NEW error \in {"none", "timeout", "other"}, Execute(hit, k, error)
  PROVE  RecordsDistinct'
<1>1. PICK entry : records' = Append(records, entry) /\ entry.args = call.args
  <2> DEFINE newLines == (hit \ observed) \cap TargetLines
             entry == [args |-> call.args, provenance |-> call.provenance,
                       outcome |-> Classify(error, newLines), newLines |-> newLines]
  <2>1. entry.args = call.args
    OBVIOUS
  <2>2. records' = Append(records, entry)
    BY Zenon DEF Execute
  <2> HIDE DEF entry
  <2> QED
    BY <2>1, <2>2
<1>2. /\ records \in Seq([args : Inputs, provenance : Provenances,
                           outcome : Outcomes, newLines : SUBSET TargetLines])
  BY DEF TypeOK
<1>3. /\ DOMAIN records = 1 .. Len(records) /\ Len(records) \in Nat
      /\ DOMAIN records' = 1 .. Len(records) + 1
      /\ \A i \in 1 .. Len(records) : records'[i] = records[i]
      /\ records'[Len(records) + 1] = entry
  BY <1>1, <1>2, AppendProperties
<1>4. \A i \in DOMAIN records : records[i].args # call.args
  BY DEF Fresh, Seen
<1>5. \A i, j \in DOMAIN records : records[i].args = records[j].args => i = j
  BY DEF Fresh, RecordsDistinct
<1> QED
  BY <1>1, <1>3, <1>4, <1>5 DEF RecordsDistinct

LEMMA FreshStep == TypeOK /\ Fresh /\ [Next]_vars => Fresh'
<1> SUFFICES ASSUME TypeOK, Fresh, [Next]_vars PROVE Fresh'
  OBVIOUS
<1> USE DEF engineVars, plateauVars, chainStats, postVars, Terminate, Final, InFlight
(* Steps that neither start an input nor record one. *)
<1>1. ASSUME UNCHANGED <<records, call>>, pc' \notin InFlight \/ pc' = pc
      PROVE  Fresh'
  BY <1>1 DEF Fresh, RecordsDistinct, Seen
<1>2. ASSUME NEW args, NEW prov, NEW next, StartCall(args, prov, next), ~Seen(args),
             UNCHANGED records
      PROVE  Fresh'
  <2>1. call'.args = args
    BY <1>2 DEF StartCall
  <2> QED
    BY <1>2, <2>1 DEF Fresh, RecordsDistinct, Seen
<1>3. CASE PopQueue \/ NextCandidate
  <2>1. CASE UNCHANGED <<pc, call>>
    BY <1>1, <1>3, <2>1 DEF PopQueue, NextCandidate
  <2>2. CASE ~ UNCHANGED <<pc, call>>
    BY <1>2, <1>3, <2>2, Zenon DEF PopQueue, NextCandidate
  <2> QED
    BY <2>1, <2>2
<1>4. ASSUME NEW args \in Inputs,
             SolverAnswers(args) \/ Resolve(args) \/ MiniAnswers(args)
      PROVE  Fresh'
  <2>1. CASE Seen(args)
    BY <1>1, <1>4, <2>1 DEF SolverAnswers, Resolve, MiniAnswers
  <2>2. CASE ~Seen(args)
    BY <1>2, <1>4, <2>2, Zenon DEF SolverAnswers, Resolve, MiniAnswers
  <2> QED
    BY <2>1, <2>2
<1>5. ASSUME NEW hit \in SUBSET Lines, NEW k \in 0 .. MaxConstraints,
             NEW error \in {"none", "timeout", "other"},
             Return(hit, k, error) \/ PostReturn(hit, k, error)
      PROVE  Fresh'
  <2>1. pc \in InFlight /\ pc' \notin InFlight /\ Execute(hit, k, error)
    BY <1>5 DEF Return, PostReturn
  <2> QED
    BY <2>1, ExecuteFresh DEF Fresh
<1>6. CASE Abort \/ CheckBudget \/ EndSeedPhase \/ PickConstraint \/ PoolDrained
           \/ SolverTooLate \/ NoInput \/ Unresolved \/ Verdict
  BY <1>1, <1>6 DEF Abort, CheckBudget, EndSeedPhase, PickConstraint, PoolDrained,
     SolverTooLate, NoInput, Unresolved, Verdict
<1>7. CASE CheckPlateauOutcome \/ SkipPlateauOutcome \/ CountStale \/ FirePlateau
           \/ BeginRound \/ BeginMiniLoop \/ MiniPick \/ MiniFails \/ EndRound
           \/ Tick \/ UNCHANGED vars
  BY <1>1, <1>7 DEF CheckPlateauOutcome, SkipPlateauOutcome, CountStale, FirePlateau,
     BeginRound, BeginMiniLoop, MiniPick, MiniFails, EndRound, Tick, vars
<1>8. ASSUME NEW list \in SeedLists,
             \/ \E prov \in {"seed", "plugin_seed"} : RequestSeeds(list, prov)
             \/ PlateauSeeds(list) \/ Discover(list)
      PROVE  Fresh'
  BY <1>1, <1>8 DEF RequestSeeds, PlateauSeeds, Discover
<1>9. ASSUME NEW next \in {"pick", "unknown"}, SolverFails(next)
      PROVE  Fresh'
  BY <1>1, <1>9 DEF SolverFails
<1> QED
  BY <1>3, <1>4, <1>5, <1>6, <1>7, <1>8, <1>9, Zenon DEF Next, EngineStep

-----------------------------------------------------------------------------
(* Deltas: only an execution touches the records or the lines observed. *)
LEMMA OnlyExecutions ==
  ASSUME [Next]_vars
  PROVE  \/ UNCHANGED <<records, observed>>
         \/ \E hit \in SUBSET Lines, k \in 0 .. MaxConstraints,
               error \in {"none", "timeout", "other"} : Execute(hit, k, error)
<1> USE DEF engineVars, plateauVars, postVars
<1>1. CASE Abort \/ CheckBudget \/ PopQueue \/ EndSeedPhase \/ PickConstraint
           \/ PoolDrained \/ SolverTooLate \/ NoInput \/ Unresolved \/ Verdict
  BY <1>1 DEF Abort, CheckBudget, PopQueue, EndSeedPhase, PickConstraint, PoolDrained,
     SolverTooLate, NoInput, Unresolved, Verdict
<1>2. CASE CheckPlateauOutcome \/ SkipPlateauOutcome \/ CountStale \/ FirePlateau
           \/ BeginRound \/ NextCandidate \/ BeginMiniLoop \/ MiniPick \/ MiniFails
           \/ EndRound \/ Tick \/ UNCHANGED vars
  BY <1>2 DEF CheckPlateauOutcome, SkipPlateauOutcome, CountStale, FirePlateau,
     BeginRound, NextCandidate, BeginMiniLoop, MiniPick, MiniFails, EndRound, Tick, vars
<1>3. ASSUME NEW list \in SeedLists,
             \/ \E prov \in {"seed", "plugin_seed"} : RequestSeeds(list, prov)
             \/ PlateauSeeds(list) \/ Discover(list)
      PROVE  UNCHANGED <<records, observed>>
  BY <1>3 DEF RequestSeeds, PlateauSeeds, Discover
<1>4. ASSUME NEW next \in {"pick", "unknown"}, SolverFails(next)
      PROVE  UNCHANGED <<records, observed>>
  BY <1>4 DEF SolverFails
<1>5. ASSUME NEW args \in Inputs,
             SolverAnswers(args) \/ Resolve(args) \/ MiniAnswers(args)
      PROVE  UNCHANGED <<records, observed>>
  BY <1>5 DEF SolverAnswers, Resolve, MiniAnswers
<1>6. ASSUME NEW hit \in SUBSET Lines, NEW k \in 0 .. MaxConstraints,
             NEW error \in {"none", "timeout", "other"},
             Return(hit, k, error) \/ PostReturn(hit, k, error)
      PROVE  Execute(hit, k, error)
  BY <1>6 DEF Return, PostReturn
<1> QED
  BY <1>1, <1>2, <1>3, <1>4, <1>5, <1>6, Zenon DEF Next, EngineStep

(* The strengthening that is inductive: pre-covered lines are claimed as     *)
(* well, each once, when they fire.                                         *)
DeltasExact ==
    /\ UNION {records[i].newLines : i \in DOMAIN records} = observed \cap TargetLines
    /\ \A i, j \in DOMAIN records :
          i # j => records[i].newLines \cap records[j].newLines = {}

LEMMA DeltasInit == Init => DeltasExact
<1> SUFFICES ASSUME Init PROVE DeltasExact
  OBVIOUS
<1>1. records = <<>> /\ observed = {}
  BY DEF Init
<1>2. DOMAIN records = {}
  BY <1>1
<1> QED
  BY <1>1, <1>2 DEF DeltasExact

LEMMA ExecuteDeltas ==
  ASSUME TypeOK, DeltasExact, NEW hit \in SUBSET Lines,
         NEW k \in 0 .. MaxConstraints,
         NEW error \in {"none", "timeout", "other"}, Execute(hit, k, error)
  PROVE  DeltasExact'
<1> DEFINE newLines == (hit \ observed) \cap TargetLines
           entry == [args |-> call.args, provenance |-> call.provenance,
                     outcome |-> Classify(error, newLines), newLines |-> newLines]
           n == Len(records)
<1>1. entry.newLines = newLines
  OBVIOUS
<1>2. records' = Append(records, entry) /\ observed' = observed \cup hit
  BY Zenon DEF Execute
<1> HIDE DEF entry
<1>3. /\ n \in Nat /\ DOMAIN records = 1 .. n /\ DOMAIN records' = 1 .. n + 1
      /\ \A i \in 1 .. n : records'[i] = records[i]
      /\ records'[n + 1] = entry
  BY <1>2, AppendProperties DEF TypeOK
<1>4. \A i \in 1 .. n : records[i].newLines \subseteq observed
  BY <1>3 DEF DeltasExact
<1>5. ASSUME NEW i \in DOMAIN records', NEW j \in DOMAIN records', i # j
      PROVE  records'[i].newLines \cap records'[j].newLines = {}
  <2>1. CASE i \in 1 .. n /\ j \in 1 .. n
    BY <1>3, <1>5, <2>1 DEF DeltasExact
  <2>2. CASE i \in 1 .. n /\ j = n + 1
    BY <1>1, <1>3, <1>4, <2>2
  <2>3. CASE i = n + 1 /\ j \in 1 .. n
    BY <1>1, <1>3, <1>4, <2>3
  <2> QED
    BY <1>3, <1>5, <2>1, <2>2, <2>3
<1>6. UNION {records[i].newLines : i \in DOMAIN records} = observed \cap TargetLines
  BY DEF DeltasExact
<1>7. ASSUME NEW x
      PROVE  (\E i \in DOMAIN records' : x \in records'[i].newLines)
                <=> x \in observed' \cap TargetLines
  <2>1. (\E i \in 1 .. n : x \in records[i].newLines) <=> x \in observed \cap TargetLines
    BY <1>3, <1>6
  <2>2. (\E i \in 1 .. n + 1 : x \in records'[i].newLines)
           <=> (\E i \in 1 .. n : x \in records[i].newLines) \/ x \in newLines
    <3> HIDE DEF newLines, n
    <3>1. \A i : i \in 1 .. n + 1 <=> i \in 1 .. n \/ i = n + 1
      BY <1>3
    <3> QED
      BY <1>1, <1>3, <3>1, Zenon
  <2> QED
    BY <1>2, <1>3, <2>1, <2>2
<1>8. UNION {records'[i].newLines : i \in DOMAIN records'} = observed' \cap TargetLines
  BY <1>7
<1> QED
  BY <1>5, <1>8 DEF DeltasExact

LEMMA DeltasStep == TypeOK /\ DeltasExact /\ [Next]_vars => DeltasExact'
<1> SUFFICES ASSUME TypeOK, DeltasExact, [Next]_vars PROVE DeltasExact'
  OBVIOUS
<1>1. CASE UNCHANGED <<records, observed>>
  BY <1>1 DEF DeltasExact
<1> QED
  BY <1>1, OnlyExecutions, ExecuteDeltas, Zenon

-----------------------------------------------------------------------------
(* Deadlines: the reason "timeout" means that the deadline has passed, as   *)
(* long as targets raise no TimeoutError of their own, and then the post    *)
(* loop's executions are past it when they start.                           *)
Deadlines ==
    /\ reason = "timeout" /\ ~OwnTimeouts => late
    /\ pc = "verdict" /\ call.error = "timeout" /\ ~seedPhase /\ ~OwnTimeouts => late
    /\ pc \in {"post_candidate", "post_solver"} /\ reason = "timeout" /\ ~OwnTimeouts
          => call.late
    /\ FutileAfterTimeout

LEMMA DeadlinesInit == Init => Deadlines
  BY DEF Init, Deadlines, FutileAfterTimeout, PostPcs

LEMMA DeadlinesStep == TypeOK /\ Control /\ Deadlines /\ [Next]_vars => Deadlines'
<1> SUFFICES ASSUME TypeOK, Control, Deadlines, [Next]_vars PROVE Deadlines'
  OBVIOUS
<1> USE DEF engineVars, plateauVars, chainStats, postVars, Terminate, Final, PostPcs,
            Deadlines, FutileAfterTimeout
(* A post-loop execution that starts past the deadline is marked late. *)
<1>0. ASSUME NEW args, NEW prov, NEW next \in {"post_candidate", "post_solver"},
             StartCall(args, prov, next), pc \in PostPcs \ {"post"},
             UNCHANGED <<late, seedPhase, reason, before, observed>>
      PROVE  Deadlines'
  <2>1. call'.late = (late /\ ~seedPhase) /\ pc' = next
    BY <1>0 DEF StartCall
  <2>2. ~seedPhase
    BY <1>0 DEF Control, PostLoopOutsideSeedPhase
  <2>3. late => call'.late
    BY <2>1, <2>2, Zenon
  <2> QED
    BY <1>0, <2>1, <2>3 DEF ObservedCount
<1>1. CASE Abort \/ CheckBudget \/ EndSeedPhase \/ PickConstraint
           \/ PoolDrained \/ SolverTooLate \/ NoInput \/ Unresolved \/ Verdict
  BY <1>1 DEF Abort, CheckBudget, PopQueue, EndSeedPhase, PickConstraint, PoolDrained,
     SolverTooLate, NoInput, Unresolved, Verdict, ObservedCount
<1>2. CASE CheckPlateauOutcome \/ SkipPlateauOutcome \/ CountStale \/ FirePlateau
           \/ BeginRound \/ BeginMiniLoop \/ MiniPick \/ MiniFails
           \/ EndRound \/ Tick \/ UNCHANGED vars
  BY <1>2 DEF CheckPlateauOutcome, SkipPlateauOutcome, CountStale, FirePlateau,
     BeginRound, NextCandidate, BeginMiniLoop, MiniPick, MiniFails, EndRound, Tick, vars, ObservedCount
<1>3. ASSUME NEW list \in SeedLists,
             \/ \E prov \in {"seed", "plugin_seed"} : RequestSeeds(list, prov)
             \/ PlateauSeeds(list) \/ Discover(list)
      PROVE  Deadlines'
  BY <1>3 DEF RequestSeeds, PlateauSeeds, Discover, ObservedCount
<1>4. ASSUME NEW next \in {"pick", "unknown"}, SolverFails(next)
      PROVE  Deadlines'
  BY <1>4 DEF SolverFails, ObservedCount
<1>5. ASSUME NEW args \in Inputs,
             SolverAnswers(args) \/ Resolve(args) \/ MiniAnswers(args)
      PROVE  Deadlines'
  <2>1. CASE Seen(args)
    BY <1>5, <2>1 DEF SolverAnswers, Resolve, MiniAnswers, ObservedCount
  <2>2. CASE ~Seen(args)
    <3>1. UNCHANGED <<late, seedPhase, reason, before, observed>>
      BY <1>5 DEF SolverAnswers, Resolve, MiniAnswers
    <3>2. CASE SolverAnswers(args) \/ Resolve(args)
      BY <3>2, <2>2 DEF SolverAnswers, Resolve, StartCall
    <3>3. CASE MiniAnswers(args)
      BY <1>0, <2>2, <3>1, <3>3 DEF MiniAnswers
    <3> QED
      BY <1>5, <3>2, <3>3
  <2> QED
    BY <2>1, <2>2
<1>6. CASE PopQueue \/ NextCandidate
  <2>1. CASE PopQueue
    BY <2>1 DEF PopQueue, StartCall, ObservedCount
  <2>2. CASE NextCandidate /\ UNCHANGED <<pc, call>>
    BY <2>2 DEF NextCandidate, ObservedCount
  <2>3. CASE NextCandidate /\ ~ UNCHANGED <<pc, call>>
    BY <1>0, <2>3 DEF NextCandidate
  <2> QED
    BY <1>6, <2>1, <2>2, <2>3
<1>7. ASSUME NEW hit \in SUBSET Lines, NEW k \in 0 .. MaxConstraints,
             NEW error \in {"none", "timeout", "other"},
             Return(hit, k, error) \/ PostReturn(hit, k, error)
      PROVE  Deadlines'
  <2>1. /\ error = "timeout" => seedPhase \/ late \/ OwnTimeouts
        /\ call.late => hit = {}
        /\ observed' = observed \cup hit
    BY <1>7 DEF Return, PostReturn, Execute, Ends
  <2>2. call' = [call EXCEPT !.error = error]
    BY <1>7, Zenon DEF Return, PostReturn
  <2>3. call'.error = error
    BY <2>2 DEF TypeOK
  <2>4. UNCHANGED <<late, seedPhase, reason, before>>
    BY <1>7 DEF Return, PostReturn
  <2>5. CASE Return(hit, k, error)
    <3>1. pc' = "verdict"
      BY <2>5 DEF Return
    <3> QED
      BY <2>1, <2>3, <2>4, <3>1
  <2>6. CASE PostReturn(hit, k, error)
    <3>1. pc \in {"post_candidate", "post_solver"} /\ pc' \in {"candidates", "mini"}
      BY <2>6 DEF PostReturn
    <3>2. ObservedCount = before /\ hit = {} => ObservedCount' = before
      BY <2>1 DEF ObservedCount
    <3> QED
      BY <2>1, <2>3, <2>4, <3>1, <3>2
  <2> QED
    BY <1>7, <2>5, <2>6
<1> QED
  BY <1>1, <1>2, <1>3, <1>4, <1>5, <1>6, <1>7, Zenon DEF Next, EngineStep

-----------------------------------------------------------------------------
(* Plateaus: each dispatch since coverage last grew is one counted failure, *)
(* but for the one whose outcome is still to be measured; growth is what    *)
(* sets both back, the dispatches at once and the failures when measured.   *)
Plateaus ==
    /\ pc = "stale" /\ ~seedPhase => baseline = NoBaseline
    /\ pc \in MainPcs => failures = 0 \/ failures < MaxStaleAttempts
    /\ baseline = NoBaseline => dispatches <= failures
    /\ baseline # NoBaseline => baseline <= ObservedCount
    /\ baseline # NoBaseline /\ baseline = ObservedCount => dispatches <= failures + 1
    /\ baseline # NoBaseline /\ baseline < ObservedCount => dispatches = 0
    /\ DispatchesBounded

LEMMA PlateausInit == Init => Plateaus
<1> SUFFICES ASSUME Init PROVE Plateaus
  OBVIOUS
<1>1. pc = "seeds" /\ failures = 0 /\ dispatches = 0 /\ baseline = NoBaseline
  BY DEF Init
<1>2. MaxStaleAttempts \in Nat
  BY ConfigAssumption
<1> QED
  BY <1>1, <1>2 DEF Plateaus, DispatchesBounded, LargerOf

(* Lines are never lost, and a new one makes the count larger. *)
LEMMA ObservedGrows ==
  ASSUME TypeOK, NEW hit \in SUBSET Lines, observed' = observed \cup hit
  PROVE  /\ ObservedCount \in Nat /\ ObservedCount' \in Nat
         /\ hit \subseteq observed => ObservedCount' = ObservedCount
         /\ ~(hit \subseteq observed) => ObservedCount' > ObservedCount
<1>1. observed \subseteq Lines /\ observed' \subseteq Lines
  BY DEF TypeOK
<1>2. IsFiniteSet(observed) /\ IsFiniteSet(observed')
  BY <1>1, ScopeAssumption, FS_Subset
<1>3. Cardinality(observed) \in Nat /\ Cardinality(observed') \in Nat
  BY <1>2, FS_CardinalityType
<1>4. observed \in SUBSET observed'
  OBVIOUS
<1>5. /\ Cardinality(observed) <= Cardinality(observed')
      /\ Cardinality(observed') = Cardinality(observed) => observed' = observed
  BY <1>2, <1>4, FS_Subset
<1>6. hit \subseteq observed => observed' = observed
  OBVIOUS
<1>7. ~(hit \subseteq observed) => observed' # observed
  OBVIOUS
<1>8. ~(hit \subseteq observed) => Cardinality(observed') # Cardinality(observed)
  BY <1>5, <1>7, Zenon
<1>9. hit \subseteq observed => Cardinality(observed') = Cardinality(observed)
  BY <1>6, Zenon
<1> DEFINE old == Cardinality(observed)
           new == Cardinality(observed')
<1>10. ObservedCount = old /\ ObservedCount' = new
  BY DEF ObservedCount
<1>11. old \in Nat /\ new \in Nat /\ old <= new
  BY <1>3, <1>5
<1> HIDE DEF old, new
<1>12. ~(hit \subseteq observed) => new # old
  BY <1>8 DEF old, new
<1>13. hit \subseteq observed => new = old
  BY <1>9 DEF old, new
<1> QED
  BY <1>10, <1>11, <1>12, <1>13

LEMMA PlateausStep == TypeOK /\ Plateaus /\ [Next]_vars => Plateaus'
<1> SUFFICES ASSUME TypeOK, Plateaus, [Next]_vars PROVE Plateaus'
  OBVIOUS
<1> USE DEF engineVars, plateauVars, postVars, Terminate, Plateaus, DispatchesBounded,
            LargerOf, MainPcs
<1>0. /\ MaxStaleAttempts \in Nat /\ ObservedCount \in Nat
      /\ failures \in Nat /\ dispatches \in Nat
      /\ baseline \in Nat \cup {NoBaseline} /\ NoBaseline \notin Nat
  BY ConfigAssumption, ObservedFinite DEF TypeOK, NoBaseline
(* Steps after which nothing here is to be shown anew. *)
<1>1. ASSUME UNCHANGED <<observed, baseline, failures, dispatches, seedPhase>>,
             pc' \in MainPcs => pc \in MainPcs,
             pc' = "stale" => pc = "stale" \/ baseline = NoBaseline \/ seedPhase
      PROVE  Plateaus'
  BY <1>1 DEF ObservedCount
<1>2. CASE Abort \/ CheckBudget \/ PopQueue \/ PickConstraint
           \/ PoolDrained \/ SolverTooLate \/ NoInput \/ Unresolved \/ Verdict
  BY <1>1, <1>2 DEF Abort, CheckBudget, PopQueue, PickConstraint, PoolDrained,
     SolverTooLate, NoInput, Unresolved, Verdict, StartCall
<1>3. CASE SkipPlateauOutcome \/ CountStale
           \/ BeginRound \/ NextCandidate \/ BeginMiniLoop \/ MiniPick \/ MiniFails
           \/ EndRound \/ Tick \/ UNCHANGED vars
  BY <1>1, <1>3 DEF SkipPlateauOutcome, CountStale,
     BeginRound, NextCandidate, BeginMiniLoop, MiniPick, MiniFails, EndRound, Tick, vars,
     StartCall, PostPcs
<1>4. CASE EndSeedPhase
  BY <1>4 DEF EndSeedPhase, ObservedCount
<1>5. ASSUME NEW list \in SeedLists,
             \/ \E prov \in {"seed", "plugin_seed"} : RequestSeeds(list, prov)
             \/ PlateauSeeds(list) \/ Discover(list)
      PROVE  Plateaus'
  BY <1>5 DEF RequestSeeds, PlateauSeeds, Discover, ObservedCount
<1>6. ASSUME NEW next \in {"pick", "unknown"}, SolverFails(next)
      PROVE  Plateaus'
  BY <1>1, <1>6 DEF SolverFails
<1>7. ASSUME NEW args \in Inputs,
             SolverAnswers(args) \/ Resolve(args) \/ MiniAnswers(args)
      PROVE  Plateaus'
  BY <1>1, <1>7 DEF SolverAnswers, Resolve, MiniAnswers, StartCall
<1>8. CASE CheckPlateauOutcome
  BY <1>0, <1>8 DEF CheckPlateauOutcome, ObservedCount
<1>9. CASE FirePlateau
  <2>1. /\ pc = "stale" /\ ~seedPhase /\ pc' = "plateau" /\ baseline' = ObservedCount
        /\ dispatches' = dispatches + 1 /\ failures' = failures
        /\ ObservedCount' = ObservedCount
    BY <1>9 DEF FirePlateau, ObservedCount
  <2>2. baseline = NoBaseline /\ dispatches <= failures
    BY <2>1
  <2>3. failures = 0 \/ failures < MaxStaleAttempts
    BY <2>1
  <2> QED
    BY <1>0, <2>1, <2>2, <2>3
<1>10. ASSUME NEW hit \in SUBSET Lines, NEW k \in 0 .. MaxConstraints,
              NEW error \in {"none", "timeout", "other"},
              Return(hit, k, error) \/ PostReturn(hit, k, error)
       PROVE  Plateaus'
  <2>1. /\ observed' = observed \cup hit
        /\ dispatches' = IF hit \subseteq observed THEN dispatches ELSE 0
    BY <1>10, Zenon DEF Return, PostReturn, Execute
  <2>2. /\ UNCHANGED <<baseline, failures, seedPhase>>
        /\ pc' \in MainPcs => pc \in MainPcs
        /\ pc' # "stale"
    BY <1>10 DEF Return, PostReturn
  <2> QED
    BY <1>0, <2>1, <2>2, ObservedGrows
<1> QED
  BY <1>2, <1>3, <1>4, <1>5, <1>6, <1>7, <1>8, <1>9, <1>10, Zenon DEF Next, EngineStep

-----------------------------------------------------------------------------
(* Every behaviour of the engine.                                          *)
Invariant == Types /\ Control /\ Fresh /\ DeltasExact /\ Deadlines /\ Plateaus

LEMMA InvariantHolds == Spec => []Invariant
<1>1. Init => Invariant
  BY TypesInit, ControlInit, FreshInit, DeltasInit, DeadlinesInit, PlateausInit, Zenon
     DEF Invariant
<1>2. Invariant /\ [Next]_vars => Invariant'
  BY TypesStep, ControlStep, FreshStep, DeltasStep, DeadlinesStep, PlateausStep, Zenon
     DEF Invariant, Types
<1> QED
  BY <1>1, <1>2, PTL DEF Spec

(* Type correctness: every variable of explore keeps its shape. *)
THEOREM TypeCorrect == Spec => []TypeOK
<1>1. Invariant => TypeOK
  BY Zenon DEF Invariant, Types
<1> QED
  BY <1>1, InvariantHolds, PTL

(* No input is executed twice, from whichever of the five sources it comes. *)
THEOREM RecordsDistinctHolds == Spec => []RecordsDistinct
<1>1. Invariant => RecordsDistinct
  BY Zenon DEF Invariant, Fresh
<1> QED
  BY <1>1, InvariantHolds, PTL

(* A seed left in the queue when the main loop ends means full coverage. *)
THEOREM SeedsNotStrandedHolds == Spec => []SeedsNotStranded
<1>1. Invariant => SeedsNotStranded
  BY Zenon DEF Invariant, Control
<1> QED
  BY <1>1, InvariantHolds, PTL

(* Seeds wait only while seed phase exempts them from the budget, and what  *)
(* the post loop runs is never exempt.                                      *)
THEOREM SeedPhaseHolds == Spec => [](QueueOnlyInSeedPhase /\ PostLoopOutsideSeedPhase)
<1>1. Invariant => QueueOnlyInSeedPhase /\ PostLoopOutsideSeedPhase
  BY Zenon DEF Invariant, Control
<1> QED
  BY <1>1, InvariantHolds, PTL

(* Every observed line of the target's file that is not pre-covered is in   *)
(* the new_lines of one record and of no other, and nothing else is.        *)
THEOREM DeltasPartitionHolds == Spec => []DeltasPartition
<1>1. Invariant => DeltasPartition
  <2>1. DeltasExact => DeltasPartition
    BY DEF DeltasExact, DeltasPartition, Claimed
  <2> QED
    BY <2>1, Zenon DEF Invariant
<1> QED
  BY <1>1, InvariantHolds, PTL

(* Post-loop discovery after a timeout observes nothing. *)
THEOREM FutileAfterTimeoutHolds == Spec => []FutileAfterTimeout
<1>1. Invariant => FutileAfterTimeout
  BY Zenon DEF Invariant, Deadlines
<1> QED
  BY <1>1, InvariantHolds, PTL

(* Plateau recovery asks the plugins a bounded number of times between two  *)
(* growths of coverage.                                                     *)
THEOREM DispatchesBoundedHolds == Spec => []DispatchesBounded
<1>1. Invariant => DispatchesBounded
  BY Zenon DEF Invariant, Plateaus
<1> QED
  BY <1>1, InvariantHolds, PTL

(* No plateau fires before the outcome of the one before it was measured. *)
THEOREM PlateauMeasuredHolds == Spec => PlateauMeasured
<1>1. Invariant /\ [Next]_vars
        => [pc = "stale" /\ pc' = "plateau" => baseline = NoBaseline]_vars
  <2> SUFFICES ASSUME Invariant, [Next]_vars, pc = "stale", pc' = "plateau"
               PROVE  baseline = NoBaseline
    BY Zenon
  <2>1. pc = "stale" /\ ~seedPhase => baseline = NoBaseline
    BY Zenon DEF Invariant, Plateaus
  <2>2. ~seedPhase
    BY DEF Next, EngineStep, Abort, RequestSeeds, CheckBudget, PopQueue, EndSeedPhase,
       PickConstraint, PoolDrained, SolverTooLate, NoInput, SolverAnswers, Resolve,
       MiniAnswers, SolverFails, Unresolved, Return, PostReturn, Verdict,
       CheckPlateauOutcome, SkipPlateauOutcome, CountStale, FirePlateau, PlateauSeeds,
       Discover, BeginRound, NextCandidate, BeginMiniLoop, MiniPick, MiniFails, EndRound,
       Tick, vars
  <2> QED
    BY <2>1, <2>2
<1> QED
  BY <1>1, InvariantHolds, PTL DEF Spec, PlateauMeasured
=============================================================================
