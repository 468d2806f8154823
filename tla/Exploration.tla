---------------------------- MODULE Exploration -----------------------------
(***************************************************************************)
(* One Engine.explore call: seed replay, the solver-driven loop, plateau   *)
(* recovery and post-loop discovery, with the chain-priority scheduler     *)
(* that picks the next constraint.  The engine is one thread; what it      *)
(* meets is the clock (which passes the deadline at any moment), the       *)
(* target (which lines it hits, how it ends), the solver and the plugins.  *)
(*                                                                         *)
(* The path tree is seen through the pool alone: an execution appends      *)
(* constraints that were never in it before (PathTree, PoolSound); they    *)
(* are numbered in the order in which they are created.                    *)
(***************************************************************************)
EXTENDS Integers, Sequences, FiniteSets

CONSTANTS
    Inputs,           \* argument dicts
    InitialArgs,      \* initial_args of explore
    Lines,            \* executable lines of every file of the scope
    TargetLines,      \* those of the target's own file
    PreCovered,       \* scope.pre_covered
    Chains, NoChain,  \* or-chain ids, chain_id = None
    ChainOf,          \* chain_id of each constraint, by number
    MaxIterations,    \* config.max_iterations
    PlateauThreshold, \* config.plateau_threshold
    MaxStaleAttempts, \* config.max_stale_llm_attempts
    PostLoopRounds,   \* config.post_loop_rounds
    MiniIterations,   \* config.post_loop_mini_iterations
    StreakThreshold,  \* _UNPRODUCTIVE_STREAK_THRESHOLD
    OwnTimeouts,      \* TRUE: the target may raise TimeoutError by itself
    MaxSeeds,         \* bound: seeds one plugin dispatch returns
    MaxConstraints    \* bound: constraints created in the run

ASSUME ScopeAssumption ==
    /\ InitialArgs \in Inputs
    /\ TargetLines \subseteq Lines
    /\ PreCovered \subseteq Lines
    /\ IsFiniteSet(Lines)

ASSUME ConfigAssumption ==
    /\ MaxIterations \in Nat /\ PlateauThreshold \in Nat
    /\ MaxStaleAttempts \in Nat /\ PostLoopRounds \in Nat
    /\ MiniIterations \in Nat /\ StreakThreshold \in Nat \ {0}
    /\ OwnTimeouts \in BOOLEAN
    /\ MaxSeeds \in Nat /\ MaxConstraints \in Nat

ASSUME ChainAssumption ==
    /\ NoChain \notin Chains
    /\ ChainOf \in [1 .. MaxConstraints -> Chains \cup {NoChain}]

VARIABLES
    pc,          \* where the engine's thread is
    queue,       \* input_queue: <<args, provenance>> still to replay
    pool,        \* constraints_to_solve
    created,     \* how many constraints the executions have created
    records,     \* state.records
    iteration,   \* state.iteration
    seedPhase,   \* state.seed_phase
    reason,      \* state.termination_reason; "" while not terminated
    observed,    \* tracker: lines the tracer saw, over all scope files
    lastSize,    \* last_coverage_size
    stale,       \* stale_count
    baseline,    \* state.coverage_at_last_plateau; NoBaseline for None
    failures,    \* state.plateau_failure_count
    streak,      \* or_chain_stats[chain].unproductive_streak
    deprioritized, \* state.gen_chain_deprioritized
    pickedChain, \* _last_picked_chain_id
    late,        \* the clock is past start_time + timeout_seconds
    call,        \* the execution in flight: its input and how it ended
    round,       \* post-loop rounds begun
    candidates,  \* candidates of this round still to run
    remaining,   \* mini-loop iterations left in this round
    before,      \* coverage_before of this round
    postFailures, \* failure_count of run_post_loop_discovery
    dispatches   \* history: plateau dispatches since observed last grew

engineVars == <<queue, pool, created, records, iteration, seedPhase, reason,
                observed, lastSize, stale, baseline, failures, streak,
                deprioritized, pickedChain, call, round, candidates, remaining,
                before, postFailures, dispatches>>
vars == <<pc, late, engineVars>>
postVars == <<round, candidates, remaining, before, postFailures>>
chainStats == <<streak, deprioritized>>
plateauVars == <<lastSize, stale, baseline, failures, dispatches>>

NoBaseline == -1
NoCall == [args |-> InitialArgs, provenance |-> "seed", late |-> FALSE, error |-> "none"]

Final == {"done", "error_result", "escaped"}
PostPcs == {"post", "discover", "candidates", "post_candidate", "mini",
            "mini_solving", "post_solver", "round_end"}

SeedLists == UNION {[1 .. n -> Inputs] : n \in 0 .. MaxSeeds}

Init ==
    /\ pc = "seeds"
    /\ queue = <<>>
    /\ pool = <<>>
    /\ created = 0
    /\ records = <<>>
    /\ iteration = 0
    /\ seedPhase = TRUE
    /\ reason = ""
    /\ observed = {}
    /\ lastSize = 0
    /\ stale = 0
    /\ baseline = NoBaseline
    /\ failures = 0
    /\ streak = [c \in Chains |-> 0]
    /\ deprioritized = 0
    /\ pickedChain = NoChain
    /\ late = FALSE
    /\ call = NoCall
    /\ round = 0
    /\ candidates = <<>>
    /\ remaining = 0
    /\ before = 0
    /\ postFailures = 0
    /\ dispatches = 0

-----------------------------------------------------------------------------
(* Views of the state the code recomputes at every use.                    *)
Seen(args)     == \E i \in DOMAIN records : records[i].args = args
FullyCovered   == Lines \subseteq observed \cup PreCovered
ObservedCount  == Cardinality(observed)
HasPendingChain == \E i \in DOMAIN pool : ChainOf[pool[i]] # NoChain
Tagged(prov, list) == [i \in DOMAIN list |-> <<list[i], prov>>]
Without(s, i)  == SubSeq(s, 1, i - 1) \o SubSeq(s, i + 1, Len(s))

IsDeprioritized(c) == streak[c] >= StreakThreshold

(* _pick_next_constraint: the first untagged constraint, else the first of *)
(* a chain that is not deprioritized, else the head.                       *)
FirstOf(positions) == CHOOSE i \in positions : \A j \in positions : i <= j
PickIndex ==
    LET plain  == {i \in DOMAIN pool : ChainOf[pool[i]] = NoChain}
        active == {i \in DOMAIN pool \ plain : ~IsDeprioritized(ChainOf[pool[i]])}
    IN  IF plain # {} THEN FirstOf(plain)
        ELSE IF active # {} THEN FirstOf(active) ELSE 1

(* The clock passes the deadline; it may do so between any two steps. *)
Tick ==
    /\ ~late
    /\ pc \notin Final
    /\ late' = TRUE
    /\ UNCHANGED <<pc, engineVars>>

Terminate(why, next) ==
    /\ reason' = why
    /\ pc' = next

(* An exception leaves explore: TypeError and OSError become the error     *)
(* result, anything else goes to the caller.  Seed, plateau, resolver and  *)
(* discovery handlers and the solver executable are not contained; a       *)
(* target's BaseException (other than SystemExit) is not either.           *)
Abort ==
    /\ \/ pc \in {"seeds", "plateau", "unknown", "discover", "solving", "mini_solving"}
          /\ pc' \in {"error_result", "escaped"}
       \/ pc \in {"running", "post_candidate", "post_solver"}
          /\ pc' = "escaped"
    /\ UNCHANGED <<late, engineVars>>

(* The head of _run: the initial input, then the caller's or the plugins'  *)
(* seeds.                                                                  *)
RequestSeeds(list, prov) ==
    /\ pc = "seeds"
    /\ queue' = <<<<InitialArgs, "seed">>>> \o Tagged(prov, list)
    /\ pc' = "loop"
    /\ UNCHANGED <<pool, created, records, iteration, seedPhase, reason, observed,
                   plateauVars, chainStats, pickedChain, late, call, postVars>>

-----------------------------------------------------------------------------
(* Definitions whose name contains a double underscore are faulty variants *)
(* of the definition they are named after: no behaviour of the             *)
(* specification uses them; they show that a property can fail.            *)
CheckBudget__IgnoresSeedPhase ==
    /\ pc = "loop"
    /\ \/ /\ iteration >= MaxIterations
          /\ Terminate("max_iterations", "post")
       \/ /\ iteration < MaxIterations /\ late
          /\ Terminate("timeout", "post")
       \/ /\ iteration < MaxIterations /\ ~late
          /\ pc' = "next"
          /\ UNCHANGED reason
    /\ UNCHANGED <<queue, pool, created, records, iteration, seedPhase, observed,
                   plateauVars, chainStats, pickedChain, late, call, postVars>>

(* _check_budget at the top of _exploration_loop. *)
CheckBudget ==
    /\ pc = "loop"
    /\ \/ /\ ~seedPhase /\ iteration >= MaxIterations
          /\ Terminate("max_iterations", "post")
       \/ /\ ~seedPhase /\ iteration < MaxIterations /\ late
          /\ Terminate("timeout", "post")
       \/ /\ seedPhase \/ (iteration < MaxIterations /\ ~late)
          /\ pc' = "next"
          /\ UNCHANGED reason
    /\ UNCHANGED <<queue, pool, created, records, iteration, seedPhase, observed,
                   plateauVars, chainStats, pickedChain, late, call, postVars>>

(* _fire_iteration_start and the head of _run_iteration.  An execution     *)
(* that is past the global deadline when it starts is interrupted before   *)
(* the target's first line; a seed has a deadline of its own.              *)
StartCall(args, prov, next) ==
    /\ call' = [args |-> args, provenance |-> prov,
                late |-> late /\ ~seedPhase, error |-> "none"]
    /\ pc' = next

PopQueue ==
    /\ pc = "next"
    /\ queue # <<>>
    /\ queue' = Tail(queue)
    /\ IF Seen(Head(queue)[1])
       THEN UNCHANGED <<pc, call, pickedChain>>
       ELSE /\ StartCall(Head(queue)[1], Head(queue)[2], "running")
            /\ pickedChain' = NoChain
    /\ UNCHANGED <<pool, created, records, iteration, seedPhase, reason, observed,
                   plateauVars, chainStats, late, postVars>>

(* The queue is drained: seed phase is over. *)
EndSeedPhase ==
    /\ pc = "next"
    /\ queue = <<>>
    /\ seedPhase' = FALSE
    /\ pickedChain' = NoChain
    /\ pc' = "pick"
    /\ UNCHANGED <<queue, pool, created, records, iteration, reason, observed,
                   plateauVars, chainStats, late, call, postVars>>

PickConstraint ==
    /\ pc = "pick"
    /\ pool # <<>>
    /\ pickedChain' = ChainOf[pool[PickIndex]]
    /\ pool' = Without(pool, PickIndex)
    /\ pc' = "solving"
    /\ UNCHANGED <<queue, created, records, iteration, seedPhase, reason, observed,
                   plateauVars, chainStats, late, call, postVars>>

(* The pool is empty: _next_input returns None. *)
PoolDrained ==
    /\ pc = "pick"
    /\ pool = <<>>
    /\ pc' = "no_input"
    /\ UNCHANGED <<late, engineVars>>

(* The solver call came back after the deadline: _next_input terminates    *)
(* and returns None.                                                       *)
SolverTooLate ==
    /\ pc = "solving"
    /\ late
    /\ Terminate("timeout", "no_input")
    /\ UNCHANGED <<queue, pool, created, records, iteration, seedPhase, observed,
                   plateauVars, chainStats, pickedChain, late, call, postVars>>

(* _exploration_loop: if next_input is None, _terminate(state,             *)
(* "exhausted"), also when the reason is set already.                      *)
NoInput ==
    /\ pc = "no_input"
    /\ Terminate("exhausted", "post")
    /\ UNCHANGED <<queue, pool, created, records, iteration, seedPhase, observed,
                   plateauVars, chainStats, pickedChain, late, call, postVars>>

(* SAT with a model that yields args: run it unless it was run before. *)
SolverAnswers(args) ==
    /\ pc = "solving"
    /\ ~late
    /\ IF Seen(args) THEN pc' = "pick" /\ UNCHANGED call
       ELSE StartCall(args, "solver", "running")
    /\ UNCHANGED <<queue, pool, created, records, iteration, seedPhase, reason,
                   observed, plateauVars, chainStats, pickedChain, late, postVars>>

(* UNSAT goes on to the next constraint; UNKNOWN, ERROR and an unreadable  *)
(* model ask the resolver plugins.                                         *)
SolverFails(next) ==
    /\ pc = "solving"
    /\ ~late
    /\ pc' = next
    /\ UNCHANGED <<late, engineVars>>

Resolve(args) ==
    /\ pc = "unknown"
    /\ IF Seen(args) THEN pc' = "pick" /\ UNCHANGED call
       ELSE StartCall(args, "plugin_unknown", "running")
    /\ UNCHANGED <<queue, pool, created, records, iteration, seedPhase, reason,
                   observed, plateauVars, chainStats, pickedChain, late, postVars>>

Unresolved ==
    /\ pc = "unknown"
    /\ pc' = "pick"
    /\ UNCHANGED <<late, engineVars>>

-----------------------------------------------------------------------------
Classify(error, newLines) ==
    CASE error = "timeout" -> "timeout"
      [] error = "other"   -> "target_error"
      [] error = "none"    -> IF newLines # {} THEN "covered_new" ELSE "no_gain"

(* How an execution can end: hit lines, created constraints, error.  The   *)
(* wrap_leaves failure is the "other" that hits nothing.  A TimeoutError   *)
(* comes from the tracer (the seed's own deadline, or the global one), or  *)
(* from the target itself.                                                 *)
Ends(hit, k, error) ==
    /\ created + k <= MaxConstraints
    /\ call.late => hit = {} /\ k = 0 /\ error # "none"
    /\ error = "timeout" => seedPhase \/ late \/ OwnTimeouts

Execute__WholeTrace(hit, k, error) ==
    LET newLines == hit \cap TargetLines IN
    /\ Ends(hit, k, error)
    /\ observed' = observed \cup hit
    /\ dispatches' = IF hit \subseteq observed THEN dispatches ELSE 0
    /\ created' = created + k
    /\ pool' = pool \o [i \in 1 .. k |-> created + i]
    /\ records' = Append(records, [args |-> call.args, provenance |-> call.provenance,
                                   outcome |-> Classify(error, newLines),
                                   newLines |-> newLines])

Execute(hit, k, error) ==
    LET newLines == (hit \ observed) \cap TargetLines IN
    /\ Ends(hit, k, error)
    /\ observed' = observed \cup hit
    /\ dispatches' = IF hit \subseteq observed THEN dispatches ELSE 0
    /\ created' = created + k
    /\ pool' = pool \o [i \in 1 .. k |-> created + i]
    /\ records' = Append(records, [args |-> call.args, provenance |-> call.provenance,
                                   outcome |-> Classify(error, newLines),
                                   newLines |-> newLines])

(* _post_iteration_update: credit the flip to the chain it came from, and  *)
(* count the chain when its streak crosses the threshold.                  *)
UpdateChain(newLines) ==
    IF pickedChain = NoChain THEN UNCHANGED chainStats
    ELSE /\ streak' = [streak EXCEPT ![pickedChain] = IF newLines # {} THEN 0 ELSE @ + 1]
         /\ deprioritized' = IF newLines = {} /\ streak[pickedChain] + 1 = StreakThreshold
                             THEN deprioritized + 1 ELSE deprioritized

(* The target returned in the main loop. *)
Return(hit, k, error) ==
    /\ pc = "running"
    /\ Execute(hit, k, error)
    /\ UpdateChain((hit \ observed) \cap TargetLines)
    /\ iteration' = iteration + 1
    /\ call' = [call EXCEPT !.error = error]
    /\ pc' = "verdict"
    /\ UNCHANGED <<queue, seedPhase, reason, lastSize, stale, baseline, failures,
                   pickedChain, late, postVars>>

(* The stops after an iteration: a timeout outside the seed phase, then    *)
(* full coverage with no chain disjunct left to flip.                      *)
Verdict ==
    /\ pc = "verdict"
    /\ LET timedOut == call.error = "timeout" /\ ~seedPhase
           covered  == FullyCovered /\ ~HasPendingChain
       IN  \/ /\ timedOut
              /\ Terminate("timeout", "post")
           \/ /\ ~timedOut /\ covered
              /\ Terminate("full_coverage", "post")
           \/ /\ ~timedOut /\ ~covered
              /\ pc' = "outcome"
              /\ UNCHANGED reason
    /\ UNCHANGED <<queue, pool, created, records, iteration, seedPhase, observed,
                   plateauVars, chainStats, pickedChain, late, call, postVars>>

CheckPlateauOutcome__OffByOne ==
    /\ pc = "outcome"
    /\ baseline # NoBaseline /\ ~seedPhase
    /\ baseline' = NoBaseline
    /\ failures' = IF ObservedCount > baseline THEN 0 ELSE failures + 1
    /\ IF ObservedCount <= baseline /\ failures' > MaxStaleAttempts
       THEN Terminate("plateau_exhausted", "post")
       ELSE pc' = "stale" /\ UNCHANGED reason
    /\ UNCHANGED <<queue, pool, created, records, iteration, seedPhase, observed,
                   lastSize, stale, dispatches, chainStats, pickedChain, late, call,
                   postVars>>

(* check_plateau_outcome, once the plateau's seeds have drained. *)
CheckPlateauOutcome ==
    /\ pc = "outcome"
    /\ baseline # NoBaseline /\ ~seedPhase
    /\ baseline' = NoBaseline
    /\ failures' = IF ObservedCount > baseline THEN 0 ELSE failures + 1
    /\ IF ObservedCount <= baseline /\ failures' >= MaxStaleAttempts
       THEN Terminate("plateau_exhausted", "post")
       ELSE pc' = "stale" /\ UNCHANGED reason
    /\ UNCHANGED <<queue, pool, created, records, iteration, seedPhase, observed,
                   lastSize, stale, dispatches, chainStats, pickedChain, late, call,
                   postVars>>

SkipPlateauOutcome__Always ==
    /\ pc = "outcome"
    /\ pc' = "stale"
    /\ UNCHANGED <<late, engineVars>>

SkipPlateauOutcome ==
    /\ pc = "outcome"
    /\ baseline = NoBaseline \/ seedPhase
    /\ pc' = "stale"
    /\ UNCHANGED <<late, engineVars>>

LargerOf(a, b) == IF a >= b THEN a ELSE b

(* handle_plateau up to its early returns. *)
CountStale ==
    /\ pc = "stale"
    /\ ObservedCount > lastSize \/ stale + 1 < PlateauThreshold \/ seedPhase
    /\ stale' = IF ObservedCount > lastSize THEN 0 ELSE stale + 1
    /\ lastSize' = LargerOf(lastSize, ObservedCount)
    /\ pc' = "loop"
    /\ UNCHANGED <<queue, pool, created, records, iteration, seedPhase, reason,
                   observed, baseline, failures, dispatches, chainStats, pickedChain,
                   late, call, postVars>>

(* handle_plateau fires: the pool is given up and the baseline recorded. *)
FirePlateau ==
    /\ pc = "stale"
    /\ ObservedCount <= lastSize /\ stale + 1 >= PlateauThreshold /\ ~seedPhase
    /\ pool' = <<>>
    /\ baseline' = ObservedCount
    /\ stale' = 0
    /\ dispatches' = dispatches + 1
    /\ pc' = "plateau"
    /\ UNCHANGED <<queue, created, records, iteration, seedPhase, reason, observed,
                   lastSize, failures, chainStats, pickedChain, late, call, postVars>>

(* ... and the plugins' seeds re-enter the seed phase. *)
PlateauSeeds(list) ==
    /\ pc = "plateau"
    /\ queue' = queue \o Tagged("plugin_plateau", list)
    /\ seedPhase' = (seedPhase \/ list # <<>>)
    /\ pc' = "loop"
    /\ UNCHANGED <<pool, created, records, iteration, reason, observed, plateauVars,
                   chainStats, pickedChain, late, call, postVars>>

-----------------------------------------------------------------------------
(* run_post_loop_discovery: each round begins here. *)
BeginRound ==
    /\ pc = "post"
    /\ IF FullyCovered \/ round >= PostLoopRounds
       THEN pc' = "done" /\ UNCHANGED <<round, before>>
       ELSE /\ pc' = "discover"
            /\ round' = round + 1
            /\ before' = ObservedCount
    /\ UNCHANGED <<queue, pool, created, records, iteration, seedPhase, reason,
                   observed, plateauVars, chainStats, pickedChain, late, call,
                   candidates, remaining, postFailures>>

Discover(list) ==
    /\ pc = "discover"
    /\ candidates' = list
    /\ pc' = IF list = <<>> THEN "done" ELSE "candidates"
    /\ UNCHANGED <<queue, pool, created, records, iteration, seedPhase, reason,
                   observed, plateauVars, chainStats, pickedChain, late, call, round,
                   remaining, before, postFailures>>

NextCandidate__Unchecked ==
    /\ pc = "candidates"
    /\ candidates # <<>>
    /\ candidates' = Tail(candidates)
    /\ StartCall(Head(candidates), "plugin_post_loop", "post_candidate")
    /\ UNCHANGED <<queue, pool, created, records, iteration, seedPhase, reason,
                   observed, plateauVars, chainStats, pickedChain, late, round,
                   remaining, before, postFailures>>

NextCandidate ==
    /\ pc = "candidates"
    /\ candidates # <<>>
    /\ candidates' = Tail(candidates)
    /\ IF Seen(Head(candidates)) THEN UNCHANGED <<pc, call>>
       ELSE StartCall(Head(candidates), "plugin_post_loop", "post_candidate")
    /\ UNCHANGED <<queue, pool, created, records, iteration, seedPhase, reason,
                   observed, plateauVars, chainStats, pickedChain, late, round,
                   remaining, before, postFailures>>

(* An execution of the post loop: recorded, but not counted in iteration. *)
PostReturn(hit, k, error) ==
    /\ pc \in {"post_candidate", "post_solver"}
    /\ Execute(hit, k, error)
    /\ call' = [call EXCEPT !.error = error]
    /\ pc' = IF pc = "post_candidate" THEN "candidates" ELSE "mini"
    /\ remaining' = IF pc = "post_candidate" THEN remaining ELSE remaining - 1
    /\ UNCHANGED <<queue, iteration, seedPhase, reason, lastSize, stale, baseline,
                   failures, chainStats,
                   pickedChain, late, round, candidates, before, postFailures>>

BeginMiniLoop ==
    /\ pc = "candidates"
    /\ candidates = <<>>
    /\ remaining' = MiniIterations
    /\ pc' = "mini"
    /\ UNCHANGED <<queue, pool, created, records, iteration, seedPhase, reason,
                   observed, plateauVars, chainStats, pickedChain, late, call, round,
                   candidates, before, postFailures>>

MiniPick__Peeks ==
    /\ pc = "mini"
    /\ pc' = IF remaining > 0 /\ pool # <<>> /\ ~FullyCovered
             THEN "mini_solving" ELSE "round_end"
    /\ UNCHANGED <<late, engineVars>>

(* The mini-loop pops the head, whatever its chain. *)
MiniPick ==
    /\ pc = "mini"
    /\ IF remaining > 0 /\ pool # <<>> /\ ~FullyCovered
       THEN pc' = "mini_solving" /\ pool' = Tail(pool)
       ELSE pc' = "round_end" /\ UNCHANGED pool
    /\ UNCHANGED <<queue, created, records, iteration, seedPhase, reason, observed,
                   plateauVars, chainStats, pickedChain, late, call, postVars>>

MiniAnswers(args) ==
    /\ pc = "mini_solving"
    /\ IF Seen(args) THEN pc' = "mini" /\ UNCHANGED call
       ELSE StartCall(args, "solver", "post_solver")
    /\ UNCHANGED <<queue, pool, created, records, iteration, seedPhase, reason,
                   observed, plateauVars, chainStats, pickedChain, late, postVars>>

MiniFails ==
    /\ pc = "mini_solving"
    /\ pc' = "mini"
    /\ UNCHANGED <<late, engineVars>>

EndRound ==
    /\ pc = "round_end"
    /\ postFailures' = IF ObservedCount > before THEN 0 ELSE postFailures + 1
    /\ pc' = IF ObservedCount <= before /\ postFailures' >= MaxStaleAttempts
             THEN "done" ELSE "post"
    /\ UNCHANGED <<queue, pool, created, records, iteration, seedPhase, reason,
                   observed, plateauVars, chainStats, pickedChain, late, call, round,
                   candidates, remaining, before>>

-----------------------------------------------------------------------------
EngineStep ==
    \/ Abort
    \/ \E list \in SeedLists, prov \in {"seed", "plugin_seed"} : RequestSeeds(list, prov)
    \/ CheckBudget \/ PopQueue \/ EndSeedPhase \/ PickConstraint \/ PoolDrained
    \/ SolverTooLate \/ NoInput
    \/ \E args \in Inputs : SolverAnswers(args) \/ Resolve(args) \/ MiniAnswers(args)
    \/ \E next \in {"pick", "unknown"} : SolverFails(next)
    \/ Unresolved
    \/ \E hit \in SUBSET Lines, k \in 0 .. MaxConstraints,
          error \in {"none", "timeout", "other"} :
          Return(hit, k, error) \/ PostReturn(hit, k, error)
    \/ Verdict \/ CheckPlateauOutcome \/ SkipPlateauOutcome
    \/ CountStale \/ FirePlateau
    \/ \E list \in SeedLists : PlateauSeeds(list) \/ Discover(list)
    \/ BeginRound \/ NextCandidate \/ BeginMiniLoop \/ MiniPick \/ MiniFails
    \/ EndRound

Next == EngineStep \/ Tick

Spec == Init /\ [][Next]_vars

(* The engine's thread keeps running; a target that never returns is the   *)
(* isolated runner's business.                                             *)
FairSpec == Spec /\ WF_vars(EngineStep)

-----------------------------------------------------------------------------
Provenances == {"seed", "solver", "plugin_seed", "plugin_plateau",
                "plugin_unknown", "plugin_post_loop"}
Errors   == {"none", "timeout", "other"}
Outcomes == {"covered_new", "no_gain", "target_error", "timeout"}
Reasons  == {"", "max_iterations", "timeout", "exhausted", "full_coverage",
             "plateau_exhausted"}
MainPcs  == {"seeds", "loop", "next", "pick", "solving", "unknown", "no_input",
             "running", "verdict", "outcome", "stale", "plateau"}

(* TypeOK: every variable keeps its shape; the pool only holds constraints *)
(* that an execution created.                                              *)
TypeOK ==
    /\ pc \in MainPcs \cup PostPcs \cup Final
    /\ queue \in Seq(Inputs \X Provenances)
    /\ created \in 0 .. MaxConstraints
    /\ pool \in Seq(1 .. MaxConstraints)
    /\ records \in Seq([args : Inputs, provenance : Provenances,
                        outcome : Outcomes, newLines : SUBSET TargetLines])
    /\ iteration \in Nat
    /\ seedPhase \in BOOLEAN
    /\ reason \in Reasons
    /\ observed \subseteq Lines
    /\ lastSize \in Nat /\ stale \in Nat
    /\ baseline \in Nat \cup {NoBaseline}
    /\ failures \in Nat
    /\ streak \in [Chains -> Nat] /\ deprioritized \in Nat
    /\ pickedChain \in Chains \cup {NoChain}
    /\ late \in BOOLEAN
    /\ call \in [args : Inputs, provenance : Provenances, late : BOOLEAN, error : Errors]
    /\ round \in 0 .. PostLoopRounds
    /\ candidates \in Seq(Inputs)
    /\ remaining \in 0 .. MiniIterations
    /\ before \in Nat /\ postFailures \in Nat /\ dispatches \in Nat

(* RecordsDistinct: no input is executed twice in one exploration, whoever *)
(* proposes it (seeds, solver, resolver, plateau, post loop) and however   *)
(* often: has_seen_args is asked again for every source.                   *)
RecordsDistinct ==
    \A i, j \in DOMAIN records : records[i].args = records[j].args => i = j

(* QueueOnlyInSeedPhase: a waiting seed implies seed phase, so the budget  *)
(* and the global deadline are never applied while seeds wait.             *)
QueueOnlyInSeedPhase == queue # <<>> => seedPhase

(* SeedsNotStranded: the main loop leaves seeds unexecuted only because    *)
(* everything is covered ("... would strand the tail of the queue",        *)
(* engine.py:485).                                                         *)
SeedsNotStranded ==
    pc \in PostPcs \cup {"done"} /\ queue # <<>> => reason = "full_coverage"

(* The lines the records claim: the union of their new_lines.              *)
Claimed == UNION {records[i].newLines : i \in DOMAIN records}

(* DeltasPartition: each observed target line that is not pre-covered is   *)
(* in the new_lines of exactly one record, over every way an execution can *)
(* end and every phase of the engine (engine.py:293-298).  A pre-covered   *)
(* line that fires is in some new_lines too, so the union is more than     *)
(* executed_lines without the pre-covered ones, which state.py:72-75 and   *)
(* coverage_scope.py:69-70 say it is.                                      *)
DeltasPartition ==
    /\ Claimed \ PreCovered = (observed \cap TargetLines) \ PreCovered
    /\ \A i, j \in DOMAIN records :
          i # j => records[i].newLines \cap records[j].newLines = {}

(* DispatchesBounded: between two growths of coverage the plateau event is *)
(* dispatched at most max_stale_llm_attempts times (and once if that is 0) *)
(* although the pool, the queue and seed phase restart in between.         *)
DispatchesBounded == dispatches <= LargerOf(1, MaxStaleAttempts)

(* PlateauMeasured: a plateau fires only when the previous one has been    *)
(* judged, "otherwise a repeat dispatch would overwrite the recorded       *)
(* baseline" (engine.py:321).                                              *)
PlateauMeasured ==
    [][pc = "stale" /\ pc' = "plateau" => baseline = NoBaseline]_vars

(* PostLoopOutsideSeedPhase: what post-loop discovery runs is under the    *)
(* global deadline, never under the per-seed one.                          *)
PostLoopOutsideSeedPhase == pc \in PostPcs \ {"post"} => ~seedPhase

(* FutileAfterTimeout: when the loop ended because the deadline passed,    *)
(* post-loop rounds cannot observe a line: their executions are past the   *)
(* same deadline before they start.                                        *)
FutileAfterTimeout ==
    pc \in PostPcs \ {"post"} /\ reason = "timeout" /\ ~OwnTimeouts
        => ObservedCount = before

(* Terminates: every exploration ends, although plateaus refill the queue  *)
(* and the post loop does not count its executions.                        *)
Terminates == <>(pc \in Final)

=============================================================================
