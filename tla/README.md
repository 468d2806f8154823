# A TLA+ verification project for PyCT

PyCT (`src/src/pyct`) is a concolic tester for Python.  It runs a target
function on concrete arguments wrapped in concolic values, collects the branch
conditions of each execution in a path-constraint tree, asks an SMT solver for
inputs that take the other side of a branch, and falls back on plugins (an LLM)
when the solver or the coverage stalls.  The run can be put in a child process
behind a watchdog.

Paths below are relative to `src/src/pyct` unless they begin with `src/`.

## 1. Inventory

| Component | State | Operations | Hard behaviour | What makes it correct |
|---|---|---|---|---|
| Path-constraint tree (`engine/path.py`, `utils/constraint.py`, `predicate.py`) | registry of constraints, parent and child ids, predicates, chain tags, `processed`, current node, the pool `constraints_to_solve` | `reset`, `add_branch`, `find_child`, `add_child`, `get_path_predicates` | runs *inside the traced target*, so a deadline can cut it at any line; the optimizer rewrites nodes in place | both sides of a branch exist or neither; no alternative is lost; the pool holds only unsolved flips of taken branches; the path is what the target decided |
| Exploration loop (`engine/engine.py`, `engine/state.py`) | input queue, seed phase, records, iteration, coverage, chain statistics, termination reason | replay a seed, pick and solve a constraint, run the target, test budgets | budgets suspended during the seed phase; deadlines that pass inside a solver call or a run; several sources of inputs | each input once; no seed dropped; coverage deltas add up; the run ends |
| Recovery (`engine/recovery.py`) | stale count, plateau baseline and failures, post-loop rounds | `handle_plateau`, `check_plateau_outcome`, `run_post_loop_discovery` | refills the queue and re-enters the seed phase | plugin calls bounded, each plateau measured once |
| Coverage (`engine/coverage_*.py`, `engine/line_tracer.py`) | observed and pre-covered lines per file | `update`, `is_fully_covered`, the tracer | the tracer raises the deadline | observed only grows; full coverage means the scope |
| Isolated runner (`engine/isolated_runner.py`) | child process, pipe, last checkpoint, pending announcement, deadline | spawn, announce, checkpoint, final, wait, recv, kill, reap | two processes; crashes, torn messages, late messages, a deadline | a lost child's attempts are accounted for; the parent comes back |
| Argument binding (`engine/binding.py`, `utils/call_binding.py`) | leaf table of nested arguments; the containers shared by template, queue, records and target | build the table, copy, write a model, wrap leaves, call | aliasing of mutable containers between attempts; shapes that seeds change | a model lands where it was read; records keep showing what was run; the target sees each place of the table under one variable, the first that names it |
| Solver pipeline and codec (`solver/`, `utils/smt_converter.py`) | statistics, tallies, files kept; a `cvc5` process per call | print, run, read the status, parse the model | time-outs, output cut short, missing executable, four spellings of a string | an input made from a model takes the path; UNSAT means unreachable |
| Optimizer (`engine/constraint_optimizer.py`) | none, but rewrites the tree's predicates | count and case-fold rewrites | soundness of each rewrite; what it does to a shared tree | the solver's answer still fits the branch |
| Concolic values (`core/`) | pairs of a concrete value and an expression | Python's operators on ints, floats, bools, ranges, strings | Python and SMT-LIB round, divide, index and count differently | concrete result = value of the expression; a registered condition has the truth value the target saw |
| Rewriting of the target (`engine/ast_transformer.py`, `core/builtin_wrappers.py`) | chain counter, registry of chain positions | rewrite calls and comparisons, shift lines, register | shared syntax nodes, several rewrites of one file, effects of operands | same behaviour as the original, chain ids found at run time, lines of the file |
| Dispatcher and LLM plugin (`engine/plugin`, `plugins/llm`) | handlers by priority; calls in daemon threads; token counts | collect, resolve, observe; call with time-out and retries; parse | exceptions of one plugin; answers after the time-out; malformed answers | order of priority; a call gets its own answer; no tokens counted twice, and none lost unless a call was given up; every dispatch comes back |
| Process-wide patches (`engine/environment.py`) | `builtins.len`, `socket.getaddrinfo` | install, restore | overlapping explorations | restored as found |
| Results, utilities, CLI, benchmark tools, tests | | | | not core |

How they interact: the engine binds the arguments and calls the rewritten
target; the target computes on concolic values, and its `bool()` of a concolic
condition calls the tree, which appends to the engine's pool; the engine takes
constraints from the pool, the optimizer and the solver turn them into models and
the binding turns those into arguments; recovery and the plugins put inputs in
the queue or run them; the isolated runner hangs on two callbacks of the engine
and a pipe.

Every hazard found is in `PROJECT.json` under `hazards`, at its line, with the
properties aimed at it.

## 2. Modules

| Module | Models |
|---|---|
| `PathTree` | the tree and the pool, one action per effect of `add_branch` |
| `Frontier` | what the tree promises the engine: known, pending and attempted paths |
| `Exploration` | one `explore`: main loop, plateaus, post loop |
| `IsolatedRunner` | child, pipe and parent of `run_isolated` |
| `ConcolicNumbers` | ints, floats, bools and ranges with both halves of each value |
| `SmtStrings` | the string operators of SMT-LIB that PyCT uses |
| `PythonStrings` | what Python's `str` and `int()` do with strings, characters beyond ASCII included |
| `ConcolicStrings` | strings beside the numbers of `ConcolicNumbers` |
| `SolverQuery` | one solver call after another, from a constraint to an input |
| `Binding` | arguments as containers in a heap, from one attempt to the next |
| `TargetRewriting` | the rewriting of targets, and what rewritten targets do |
| `Plugins` | the dispatcher, the LLM plugin and its threads |
| `MC...` | conditions, arguments, targets, replies and symmetry for TLC |
| `ExplorationProofs`, `IsolatedRunnerProofs`, `PluginsProofs`, `BindingProofs` | theorems about the module of that name (section 6) |
| `PathTreeProofs` | theorems about `PathTree`, and that it implements `Frontier` |
| `ConcolicProofs` | theorems about `ConcolicNumbers` and `ConcolicStrings`, then about `TargetRewriting` |
| `ProofFacts` | induction and recursion up to a number, sequences, and what the operators of `SmtStrings` and `PythonStrings` return for every string |

### PathTree

The registry is a sequence (Python ids begin at 0, here the root is 1 and 0 is
`None`); `children`, `chain`, `processed` are attributes of its entries.  `pc`
is the line `add_branch` is about to run.  `Evaluates` is a branch of the
target, `BranchNew`, `BranchKnown` and `BranchInconsistent` are the three
outcomes of `_get_or_create_branch`, the last with what the wording of its error does
to the tree (formatting a constraint sets `processed`; with the `SMTLIB2` log on, the
log lines of `path.py:103-104` and `solver/solver.py:70` would do the same to the nodes
they print, which is left out because the log is off unless asked for); `RegisterTaken`, `LinkTaken`, `MarkTaken`,
`RegisterAlternative`, `LinkAlternative`, `Enqueue` are the effects of
`_create_new_branch` and `Constraint.__init__` / `add_child` in their order;
`TagAlternative`, `TagTaken`, `Advance`, `Deliver` end the call.  `Interrupt` is
the tracer's `TimeoutError`, possible before each of them; `Swallow` is a target
that catches what a branch raised.  `Solve` takes a constraint from the pool and,
when its expression is in `Rewritable`, marks the node's predicate as replaced,
which is what `optimize` does to the object the tree still holds.  `ClearPool` is
the plateau's clear.  Reading the pool in any order is the scheduler's
business, which `Exploration` has; here `Solve` takes any position.

`Frontier` has no registry and no order: a set of known paths closed under the
flip of the last decision, a set of pending ones, a set of attempted ones.
`ImplementsFrontier` is `Frontier!Spec` under the mapping that sends a node to
the decisions on its path and hides a branch until it is complete.

### Exploration

`pc` names the place in `_exploration_loop`, `_next_input` and `recovery.py`.
The environment is: which lines a run hits, how it ends, how many constraints
it adds, what the solver answers, what plugins return, and a clock reduced to
`late` (past `start_time + timeout_seconds`), which may turn true at any step.
The tree appears as the pool only: an execution appends constraints never seen
in it before, which is what `PoolSound` of `PathTree` says.

### IsolatedRunner

`child`, `outbox`, `phase`, `iteration`, `records` are the child's engine as seen
by its two callbacks and by `_child_entry`; `pipe` holds messages, `half` says
that the last is incomplete; `parent`, `checkpoint`, `pending`, `expired`,
`result` are `_wait_for_result` and `_reap_child`.  Attempts are numbers.  A
message is written at once (`Send`) or header first (`BeginWrite`, `EndWrite`),
as `Connection.send` does above 16 KB.  `poisoned` stands for records that cannot
be pickled: containers without symbolic leaves are passed by reference
(`engine/binding.py:221-238`), so a target can put such a value in a record.
`announced` and `finalSent` are histories.

### ConcolicNumbers and ConcolicStrings

A concolic value is a pair: `val`, what Python computed, and `den`, what its SMT
expression denotes under the inputs of the execution.  An action is an operation
of the target on the value in hand; it computes `val` with Python's operator and
`den` with SMT-LIB's, as the code pairs them, and adds the conditions the code
registers (`branches`).  Whether an operation keeps an expression at all is
decided by the guards of `handlers.py` and `converters.py` (`Tracked`,
`IntOperand`).  Numbers are counted in halves, so that floors, truncations and
true division have something to lose.  The halves stand for the floats there are: a
quotient or product that is none of them is rounded to the nearest one, even at a tie
(`Nearest`), while the expression keeps the exact real, which the model follows to the
half below it.

Strings are sequences of code points.  `SmtStrings` has the operators of SMT-LIB, which
know the letters and digits of ASCII; `PythonStrings` has those of Python.  What lies
beyond ASCII is the constant `Unicode`: for some characters, their classes, their
numeral and their two cases, which may be several characters.  `IsLiteral` and `IntOf`
are `int(text)`: blanks around, a sign of either kind, underscores between digits, and
digits of any script.

The two halves are not equal everywhere in the code.  `exact` is a history that
turns false at each known gap, and the properties hold of exact values:

* `n // x` and `n % x` with a plain `n` and a negative concolic `x`: the check
  for the sign looks at the operand, which here is the dividend
  (`core/operations/converters.py:110`);
* a quotient or product that no float is: Python rounds it, the expression is exact
  (`Rounded`);
* a concolic float with a fraction as operand of an int: the expression cuts it;
* `round(x, -n)` keeps the expression of `x`;
* `find` from a negative start, or without a match from a positive one; `index`
  from a start; an empty string sought in an inverted region;
* `replace` of the empty string; stripping blanks other than the space;
* `islower` and `isupper` of a string with characters that are no letters;
* `lower`, `upper` and the tests of characters on letters or digits beyond ASCII;
* `int()` of a text that is not a minus and ASCII digits alone (`StrictLiteral`): for
  `"+1"`, `"1_0"`, blanks around or digits of another script the code goes on with the
  number while `str.to_int` denotes -1.

### SolverQuery

A constraint is the sequence of conditions on its path.  `Tests` is what a
condition means to the target, `Asserts` what the solver reads in the formula;
between the two lie rewriting (`RewriteNode`), printing (`Encode`), reading by
SMT-LIB (`Denoted`), printing by the solver (`Printed`) and parsing
(`ParseString`, `ParseReal`), each an operator on code points.  `Solve`,
`SolverAnswers` (or `SolverMissing`), `Execute` and `ReadModel` are one call of
`find_model`; the process may answer, print half of a model, an error or nothing,
or hang.  A condition above the leaf may or may not have been rewritten by its
own solving, so both are tried.

Python folds by the constant `Unicode` (`PyLower`, `PyUpper` of `PythonStrings`), the
expression by the 26 letters of ASCII.  `FaithfulUnsat` asks only about inputs whose text
both fold alike (`FoldsAlike`); of other inputs it is false (section 7).

### Binding

Values live in a heap of containers, because what matters is who else holds the
container that is written to.  A template fixes the initial arguments, shared and
cyclic containers, containers that cannot be copied, and seeds of another shape.
`PopQueue`, `Solve` and `Resolve` choose the arguments, `Attempt` records, copies,
wraps and calls, `TargetWrites` is any write the target can make to what it was
passed, `TargetReturns` ends the attempt.  The signature has positional-only,
callable and plain parameters.  `model`, `origin` and the field `was` of a record
are histories.  What the code does by recursion over nested values (`_walk`, the
routes, the writing of one leaf after another) is a function of the number of turns
taken; a value is compared three containers deep, below that by identity.

The table is built in the order of the given arguments, whose names are parameters of
the target.  Two routes to one container give two leaves and two variables for one cell
(`SameCell`).  `apply_model` writes the leaves in order, so the last one gives the cell
its value; `wrap_concolic` looks at the exact type and leaves what is wrapped already
(`Named`), so the first one gives it its variable.  `ModelLands` and `SymbolsMatchModel`
say just that of every place; that a value shown under a variable is the one the model
gave that variable is false where a place has two (section 7).  A list where the
table has a leaf is rebuilt with all it holds, list by list (`WrappedList`), so its items
share one variable, and a list that holds itself ends the attempt (`Endless`).
`SplitArgs` fills positional-only slots with the values that reach it, whether or not
one before them is missing (`Gap`).

### TargetRewriting

A target is one expression: a sequence of nodes, each after its children, as the
transformers leave them, and the root last.  A node is an object with an identity,
because the rewritten tree of a membership test holds its left operand once per
element and every walk meets it that often (`Visits`).  `RewriteCall` and
`RewriteCompare` are the two visitors, `Compiled` the tree after the lines are shifted
and the ids stamped, `Register` the writing of the registry.  `Rewrite` is
`rewrite_target` and `_try_rewrite` with chain counter and registry, which outlive a
rewriting; `Run` evaluates the compiled tree on a wrapped argument and the original on
the plain one, side by side.  `Meaning` is Python's evaluation of the handful of
operations the rewriters touch: an outcome of each node for every number of calls of
`pop()` made before, so that operands evaluated twice, late or not at all show.

The comparison of a wrapped string is in the model too: a literal that is no string makes
`_safe_compare` give `NotImplemented`, which Python turns into `False` at a place without a
chain id, while at one with an id `_stamp_chain_id` sets an attribute on it and raises.

`Ordinary` says for which targets a rewriting is meant to change nothing; each exception
is a place where the rewriters do change what happens: an operand with effects before
several elements (it runs once per element), an operand that does anything before an
empty container (it no longer runs), a value without a hash tested in a set or dict
(the equalities do not raise), `map(int, x)` that is not the whole target or over
something else than a numeral or a list of integers (a list and not an iterator, and
converted at once), and `is` in a chain or with anything but a sentinel (left alone: a
wrapper is never the object it wraps, and which plain values are one object is the
interpreter's choice).  A class keeps its own code and is left out.  `SameResult` asks
for the same outcome of `Comparable` targets: ordinary ones where every test either has
strings only for elements or an operand that cannot be a wrapped string (`Kindred`); of
the others it is false (section 7).

### Plugins

`mode`, `pending`, `gathered` are a dispatch in the engine's thread; `calls`,
`container`, `tokens` the daemon threads of `complete()`.  `GiveUp` is `join()`
returning with the thread alive, after which the thread goes on with `Respond`,
`LoadInput`, `StoreInput`, `LoadOutput`, `StoreOutput`, `Deliver` whenever it likes:
each `+=` on a token counter is a load and a store, since no lock is held and the
thread of the next call may be at the same line (`loaded` is what a call has read).
An answer is a sequence of entries of eight kinds, which is what the parser can tell
apart.  `asked` and `heard` are histories.

## 3. Runs

| Run | Asks |
|---|---|
| `pathtree_rewriting` | no deadline strikes, the optimizer may rewrite: `NothingLost`, `PathMatchesDecisions`, `TagsAgree`, `ImplementsFrontier`; `BranchesPaired` as long as nothing was rewritten |
| `pathtree_interrupted` | deadlines at every line, and rewrites: `TypeOK`, `TreeShape`, `SiblingsDistinct`, `PoolSound`, and `DamageConfined`: what a deadline leaves lost, one-sided or mistagged is the branch it struck |
| `exploration_loop` | the whole of `explore` on a scope of two files: `RecordsDistinct`, `SeedsNotStranded`, `DeltasPartition`, and `Terminates` under fairness of the engine's own steps |
| `exploration_plateaus` | several plateaus in one run, targets that raise `TimeoutError` themselves: `DispatchesBounded`, `PlateauMeasured` |
| `isolated_protocol` | a child that may be lost anywhere, inside a message too, with records that may become unpicklable: `LostChildAccounted`, `CheckpointTrue`, `FinalPreferred`, `ComesBack` |
| `concolic_values` | executions of three operations on every kind of value: `Coherent`, `BranchesHold`, `RangeFaithful`, `SplitFaithful`, `CharactersFaithful` |
| `query_calls` | two solver calls on every constraint of a pool: `SolvedInputSatisfies`, `FaithfulUnsat` |
| `binding_arguments` | three attempts from nine templates: `RecordsShowInputs`, `ModelLands`, `SymbolsMatchModel`, `WritableButTuples` |
| `rewriting_targets` | fifteen targets of one file, rewritten up to three times in any order, on eleven arguments: `SameResult`, `ChainsTrue` |
| `plugins_dispatch` | two events for three plugins, one of which asks the service: `AskedInOrder`, `OwnAnswer`, `TokensCounted`, `CollectedClean`, `DispatchEnds` |

Two runs show a disagreement between the code and what it says of itself
(`findings` in `PROJECT.json` quotes both):

| Run | Shows |
|---|---|
| `rewriting_lines` | the left operand of a membership test with several elements ends up in another line of the file, so a line event is credited to a line that did not run |
| `plugins_malformed` | an answer such as `[{{"x": 1}}]` makes `literal_eval` raise `TypeError`, which no handler catches, and the exploration ends without its records |

## 4. Bounds

* `PathTree`: `MaxConstraints` 6 or 7 nodes and `MaxDepth` 2 or 3 decisions per
  execution.  Seven nodes are the root and three branches: two branches on one
  path, or a branch under each side of another, and a second and third execution
  that meets them again.  Two expressions are enough for a path with different
  conditions and for the same condition twice; one of them is rewritable and
  occurs both with and without a chain.
* `Exploration`: three to five inputs, two or three lines in one or two files,
  two or three constraints of which one belongs to a chain, plugin answers of at
  most one seed per dispatch.  Counters of the configuration are 1 to 3, so each
  of them is reached and passed.  Five inputs and three constraints are needed to
  let two plateaus fire in one run.
* `IsolatedRunner`: five attempts, split in any way between the two loops, and a
  pipe of three messages: enough for an announcement, its checkpoint and the next
  announcement to be unread together, and for the child to block on a full pipe.
  The code never looks at more than the last two attempts.
* `ConcolicNumbers`, `ConcolicStrings`: three operations, so that a value with an
  expression of its own meets every operation and its result a third.  Inputs and
  literals have both signs, zero, whole numbers and halves; `Bound` only keeps
  results small.  The fifteen texts hold a letter of each case, a digit, a sign, a
  blank, a newline and a repeated letter, then what `int()` reads beyond digits (a plus,
  an underscore, a tab) and five characters beyond ASCII, one for each way they differ:
  a letter with a longer upper case, one whose lower case is ASCII, a decimal, a digit
  that is no decimal, and a blank.  Constants are the empty string, a letter and a
  digit.  Results grow to four characters at most.
* `SolverQuery`: one call per condition of every kind and side, and two
  conditions where the first takes values away from the second; a second call
  shows the counters and the state the first left.  The texts a solver may choose
  include every one of up to two characters of three and those the escapes turn
  literals into, and letters beyond ASCII that lower or upper to ASCII ones.
* `Binding`: each template is one way containers can be entangled, or arguments be missing.  Three attempts
  are an initial one, one made from a model and one after it; one write of the
  target per attempt is enough because any cell in its reach may be the one.
* `TargetRewriting`: every shape of membership test and every rewritten builtin is
  a target; three rewritings let one target be rewritten again after another.
* `Plugins`: two events let an answer that is given up come in during the next
  call.  The replies hold every kind of entry, alone or beside one that breaks the
  whole answer.

## 5. Fairness

* `Terminates` assumes weak fairness of `EngineStep`, the engine's own
  thread, target runs included: the deadline of the tracer ends a Python target.
  Nothing is assumed of the clock, so the result does not rest on the time-out.
* `ComesBack` assumes weak fairness of the parent's steps and of the clock,
  because the operating system schedules the parent and time passes; of the
  child it assumes only that a message it began to write is completed, and
  `StallsWriting` takes that back.
* `DispatchEnds` assumes weak fairness of the engine's thread, of which the
  return of `join()` after its time-out is a step; the service and the daemon
  threads owe nothing.
* The other modules have no liveness property.

Deadlock: `PathTree` can always begin or end an execution, and `IsolatedRunner`
has an explicit step of the returned caller, so both keep TLC's check on.  An
exploration, a sequence of attempts, calls, rewritings, operations or events comes
to an end, so the other runs switch it off.

## 6. Proofs

All theorems hold for every value of the constants that satisfies the assumptions
of the module concerned; the last column names what else is assumed.

| Module | Theorem | Statement | Hypotheses |
|---|---|---|---|
| `PathTreeProofs` | `TypeCorrect` | `Spec => []TypeOK` | none |
| | `TreeShapeHolds` | `Spec => []TreeShape` | none |
| | `SiblingsDistinctHolds` | `Spec => []SiblingsDistinct` | none |
| | `PoolSoundHolds` | `Spec => []PoolSound` | none |
| | `NothingLostHolds` | `Spec => []NothingLost` | no deadline strikes |
| | `TagsAgreeHolds` | `Spec => []TagsAgree` | no deadline strikes |
| | `DamageConfinedHolds` | `Spec => DamageConfined`, an action property | none |
| | `PairingHolds` | `Spec => []BranchesPaired` | no deadline strikes |
| | `PathMatchesDecisionsHolds` | `Spec => []PathMatchesDecisions` | no deadline strikes |
| | `FrontierImplemented` | `Spec => ImplementsFrontier`, a refinement | no deadline strikes |
| `ExplorationProofs` | `TypeCorrect` | `Spec => []TypeOK` | none |
| | `RecordsDistinctHolds` | `Spec => []RecordsDistinct` | none |
| | `SeedsNotStrandedHolds` | `Spec => []SeedsNotStranded` | none |
| | `SeedPhaseHolds` | `Spec => [](QueueOnlyInSeedPhase /\ PostLoopOutsideSeedPhase)` | none |
| | `DeltasPartitionHolds` | `Spec => []DeltasPartition` | none |
| | `FutileAfterTimeoutHolds` | `Spec => []FutileAfterTimeout` | the target raises no `TimeoutError` of its own |
| | `DispatchesBoundedHolds` | `Spec => []DispatchesBounded` | none |
| | `PlateauMeasuredHolds` | `Spec => PlateauMeasured`, an action property | none |
| `IsolatedRunnerProofs` | `TypeCorrect` | `Spec => []TypeOK` | none |
| | `CheckpointTrueHolds` | `Spec => []CheckpointTrue` | none |
| | `FinalPreferredHolds` | `Spec => []FinalPreferred` | none |
| | `LostChildAccountedHolds` | `Spec => []LostChildAccounted` | none |
| `PluginsProofs` | `OwnAnswerHolds` | `Spec => []OwnAnswer` | none |
| | `TokensCountedHolds` | `Spec => []TokensCounted` | none |
| | `AskedInOrderHolds` | `Spec => []AskedInOrder` | none |
| | `CollectedCleanHolds` | `Spec => []CollectedClean` | none |
| `ConcolicProofs` | `NumbersCoherent` | `NumberSpec => []Coherent` | none |
| | `ConditionsHold` | `NumberSpec => []BranchesHold` | none |
| | `StringsCoherent` | `StrSpec => []Coherent` | none |
| | `StringConditionsHold` | `StrSpec => []BranchesHold` | none |
| | `RangesYield` | `StrSpec => []RangeFaithful` | none |
| | `SplitsYield` | `StrSpec => []SplitFaithful` | none |
| | `CharactersYield` | `StrSpec => []CharactersFaithful` | none |
| | `RewritingInvHolds` | `RewritingSpec => []RewritingInv` | none |
| | `SameResultHolds` | `RewritingSpec => []SameResult` | none |
| | `ChainsTrueHolds` | `RewritingSpec => []ChainsTrue` | none |
| `SolverQueryProofs` | `SolvedInputSatisfiesHolds` | `Spec => []SolvedInputSatisfies` | none |
| | `FaithfulUnsatHolds` | `Spec => []FaithfulUnsat` | none |
| `BindingProofs` | `RecordsShowInputsHolds` | `Spec => []RecordsShowInputs` | none |
| | `ModelLandsHolds` | `Spec => []ModelLands` | none |
| | `SymbolsMatchModelHolds` | `Spec => []SymbolsMatchModel` | none |
| | `WritableButTuplesHolds` | `Spec => []WritableButTuples` | none |

### PathTree

The hypothesis of `PairingHolds` is sharp: with a deadline inside a branch, and after a
rewrite, a lookup finds one side only and `PathConstraintError` is reached.
`DamageConfinedHolds` says what is left of pairing, tags and pool when deadlines do
strike.

None of these invariants is inductive by itself, because a branch is built in
ten steps.  Each proof adds what is true in between:

* `LocalsOK` gives the ids in `branch` their meaning at each `pc`;
* `ShapeInv` adds to `TreeShape` that a node registered and not yet linked
  already names the current node as its parent (`AboutToLink`);
* `PoolInv` says of the alternative about to be enqueued what `PoolSound` says of
  those in the pool, except that it is not in it;
* `PairInv` says, as long as nothing was rewritten, that a lookup finds both sides
  or neither except at the branch under construction (`HalfMade`); `find_child` is
  a first-match search, so its meaning is a lemma (`FindChildDecides`) on the least
  index, for which `LeastNatural` supplies the well-foundedness of the naturals;
* `AccountInv` accounts for the nodes of the branch under construction;
* `SiblingInv` (`Anchored`, `AnchorsHold`, `RoomForBranch`) is the subtle one: after
  a rewrite a node is invisible to `find_child`, so "no two linked children have
  the same predicate" does not follow from the failed lookups.  It holds because
  `optimize` only touches a node taken from the pool: each branch keeps one child
  that is not rewritten and never will be (its anchor), so when both lookups fail
  the branch was never there;
* `TagInv` says of the branch under construction or under re-tagging which of its
  two sides already carries the new chain (`HalfTagged`, `Untagged`), and that every
  other pair of sides is `Alike`.  It needs `SiblingInv`: with two nodes for one
  side, tagging one would leave the other behind.
* `Hand` is the part of this that deadlines leave true, about the branch in hand alone.
  With it `NothingBreaks` and `NothingMistags` show, one effect of `add_branch` after
  the other, that a node is lost, one-sided or mistagged after a step only if it was
  before or is in hand; what a refused branch finds is its anchor (`FoundIsAnchor`), so
  marking it processed takes nothing out of the pool.

### Frontier

The refinement maps a node to its path, `PathOf`, a recursive function along the
parents.  That there is such a function follows from `ShapeInv`: parents are older
than their children, so no node can be the first one without a path (`WalkExists`,
by `InductionUpTo` of `ProofFacts`).  Two linked nodes never have the same path
(`PathsDiffer`, from `SiblingInv`), which is what makes "this path was attempted" the
same as "this node was solved".  The invariant `Whole` is that of `PathTreeProofs`
with `LinkInv` (every node is linked but for the one `add_branch` is about to link,
the side taken is older than its alternative, and what waits in the pool is always
an alternative, as is what was rewritten) and `PathInv` (the path of the current node is the decisions made).  `Enqueue` is the abstract `Discover`,
`Solve` is `Attempt`, `ClearPool` is `GiveUp`, and every other step leaves the
mapped variables alone.

### Exploration

The invariant is the conjunction of six parts.  `Types` adds to `TypeOK` that the
post loop's mini loop has rounds left while it solves.  `Control` ties queue, seed phase and the
place in the loop, and gives `SeedsNotStranded` and the seed-phase theorem.
`Fresh` says that the input on its way to an execution is not among the records,
from the test each of its five sources makes to the execution itself; this is
`RecordsDistinct` one step ahead.  `DeltasExact` says what the deltas are, pre-covered
lines included, and is inductive; `DeltasPartition` is what it says of the others.
`Deadlines` says that a run that ended at the time-out has `late` true, so nothing
is observed after it.  `Plateaus` counts: each dispatch since coverage last grew
is one counted failure, but for the one whose outcome waits to be measured, and the
failures stay below the limit while the main loop goes on.

### IsolatedRunner

`Types` adds to `TypeOK` that an announcement carries an index below its number,
which holds because `iteration` never passes the number of records.  `Truth` says
that every sequence of records anywhere (in the outbox, in the pipe, at the
parent) counts 1, 2, ... and is no longer than the child's; `HonestPrefix` turns
that into `IsPrefix`.  `Writing` says that the half message is the last one and
is what the child is writing.  `Finals` follows the final result from the outbox to
the answer: it is the last message of the pipe, and once it was written completely
no other end of the parent is possible but the deadline.
`Accounts` is what `LostChildAccounted` needs.  As long as no message failed to
pickle, announcements and checkpoints alternate, so every message has an ordinal
(`2n - 1` for the announcement of attempt `n`, `2n` for the checkpoint after it) and
the parent has a position; `InOrder` says that the i-th unread message is the i-th
after the position, `InStep` that the child is that far ahead, and `ReadAttempts`
that what was announced and read is exactly `1..n`.  `Truth` numbers the records, so
the answer, with its tombstone, is `1, 2, ..., n` (`AccountsImply`).

### Plugins

`Safe` says that the slot of a call holds its own answer once the thread is done and
nothing before (`SlotsOwn`), that a call waited for to the end is over and so never
changes (`HeardEnded`), that the engine waits only while it asks the LLM plugin
(`Waiting`), that neither a counter nor what a thread has loaded of it exceeds the
number of responses written back (`Counting`), and that they are that number as long
as every response came to a call that is or was waited for, since then the only thread
that can be adding is the one the engine waits for (`Exact`).  `CountsReport` reads a
report off these at whatever moment the threads are.

The order of the questions is a second invariant, for any registration, priorities and
replies: the list of handlers still to ask and the list of those asked are the two
halves of the handlers of the event, in the order of `InOrder`, and what was gathered
so far comes, plugin by plugin, from those of them that answered.  `InOrder` is total
on the plugins because each one is registered, and `Before` sorts by it.  That nothing
callable is gathered follows from `Those`, which is defined by recursion along the
entries: what it returns is proved by induction on the number of entries taken.

### ConcolicNumbers and ConcolicStrings

`NumberInv` adds to `Coherent` and `BranchesHold` the same for what a range keeps
between two turns, and where it stands: as many steps from its start as numbers were
given, each before the stop, and at or past it when it is done.  The lemmas are about
the operators: floor and Euclidean quotient agree for divisors above zero, truncation
is the corrected `to_int`, and each operator gives the same on both halves when they
are equal and the guard of the code lets the expression through, and rounds nothing where
the exact number is a float (`NearestExact`).  `StepKeeps` proves a
step on numbers for any target, so that the target with strings uses it as it stands.

`StrInv`, for the specification the run `concolic_values` checks, adds that a string in
hand has two halves that agree unless a gap was met; that a loop over characters has
given as many as its index says, each the one at its place; and that the pieces of a
split are what `SplitFaithful` asks.  Most operations of `core/str/` compute the two
halves by different routes, and a lemma for each says that the routes meet:

* `PositionFaithful`, `SubFaithful`: a position counted from the start by an expression
  is the one Python clamps the index to, so `str.substr` of it is the slice;
* `FirstInRegion`, `FindFaithful`: the first match in `s[a:b]` is the start plus the
  first match in the region, which is where `start > 0` without a match parts them;
* `CountsAgree`: SMT-LIB's count is Python's, but for an empty string past the end;
* `CutsStrip`: as many conditional cuts as the concrete string needs cut what `lstrip`
  strips, by induction on the cuts; `rstrip` is the same of the reversed string;
* `LiteralTrimmed`: of a minus and ASCII digits alone `int()` trims nothing, so it reads
  the number that `str.to_int` does;
* `WithBetweenProperties`: replacing nothing by nothing changes nothing;
* `SplitTurn`: a turn of `split` keeps that the pieces and the rest, joined by the
  separator, are the string, and either ends or leaves a shorter rest, so the turns
  suffice (`SplitProperties`, by induction on the turns).

A function defined by recursion in a `LET` is a `CHOOSE` to the provers: that the
chosen function exists is `RecursionUpTo` and `RecursionFrom` of `ProofFacts`, once for
recursion from the number before and once from the places after.

### SolverQuery

`QueryInv` relates one call to itself: each condition of the path stands in the formula
as it is or rewritten (`SentFrom`), what the process left is a model of that formula or
the absence of one (`AnswersSent`), and status and input are what was read from it.
Both theorems then rest on `FormulaTests`, that an assignment satisfies the formula
exactly when it passes the tests of the path, and on `ModelReadBack`:

* `ReadsAsWritten`, `ParsesAsPrinted`: encoding or printing a string without a
  backslash doubles its quotes, and reading or parsing undoes that.  `Flattened` says
  where each piece of a concatenation begins, so a scan from the left meets the pieces
  one after the other (`Undoubled`);
* `CountsMatches`, `ChainedCounts`, `AbsentCounts`: how much shorter the string gets
  when every match is removed, how many matches `str.indexof` finds one after the
  other, and whether there is one, are the same count, by induction on the distance
  from the end of the string;
* `CharwiseFolds`: the characterwise clauses are the folded comparison, for a literal
  that is already folded and needs no escape.  Without these two conditions it is
  false (section 7), which is why `Folded` has them.  It is about the expression's
  folding; that the target folds alike is the premise `FoldsAlike`, which
  `SolvedInputSatisfies` has from the transparent text of the model.

### Binding

`ApartInv` says that there are two sets of containers, `F` and `W`, closed under what
they hold and with nothing in common: whatever a parameter with leaves holds, in the
initial arguments, the queue, a record or the attempt about to be made, is in `F`,
whatever is passed by reference is in `W`, and so is all the target was passed
(`Apart`).  The target writes in `W` only (`WriteFacts`), so what records show does not
change (`TreeSame`).  The lemmas follow the code:

* `ReachFromFacts`: what `copy.deepcopy` comes to is the least set of containers that
  holds the value and all that those hold.  The model takes as many turns as there are
  containers; that they suffice is by counting, since a turn that adds nothing is the
  last;
* `DeepCopyFacts`, `CopyTouchedFacts`: a copy has one new container for each one
  reached, and these hold only one another;
* `WalkFacts`: every leaf of the table is at a primitive of its sort, and no walk is
  longer than the containers are many, because none is entered twice;
* `DescendFacts`, `PutFacts`: a route that begins in a closed set of containers stays
  in it, so reading, writing a model (`ApplyModelGrown`) and wrapping
  (`WrapLeavesGrown`) touch the copies alone; so does the wrapping of a list of lists,
  whose ways are finitely many unless it holds itself (`ListsAtUnrolled`,
  `WrappedListFacts`, `MoreGrown`);
* `SplitArgsFacts`: a parameter of the target holds its default or a value given for
  some name, whichever way values shift;
* `CollectedFacts`: what is still held stays where it is.

The other three theorems follow what happens to one input.

* `Unspoilt`: the containers of a parameter that shares nothing with one passed by
  reference are still what they were at the start, so a model is written into the
  arguments the table was built from (`StartFacts`).
* `Tracked` is what is true while leaves are written, one after another: the
  containers of a parameter have their copies, one each (`to`), of the same kind and
  with the same cells, and a cell holds what was last written to its spot, or what
  it held (`Now`).  Two leaves with one spot are one cell, so the later one wins there
  as it does in the model (`PutOwn`); what is written for another parameter is in
  containers of that one's own (`Elsewhere`, `PutOther`).  A route comes to the copy of
  the container it comes to in the original (`CopyWalk`), whatever was written before,
  because a leaf is written with a primitive and never with a container.
  `ApplyModelTracked` gives `ModelLands`, and `WrapLeavesTracked`, where a leaf is
  written back under its number unless it has one (`NowNamed`, `FirstAtFacts`), gives
  `SymbolsMatchModel`.
* `Matching` joins the two: an input made from a model has leaves of the same sorts at
  the same spots as the first arguments, so naming them with the table names the cells
  the model wrote.  `SplitArgsInPlace` adds the call: without a gap a value has the same
  rank among the slots and among the values that fill them, so it is bound to its own
  parameter.
* `Ready` is what makes copying and writing succeed: every parameter with leaves can be
  copied, has its leaves, and has none in a tuple.  The first arguments are ready by
  the way the table is built and stay so (`RestoredReady`), an input made from ready
  arguments is ready again (`MadeReady`), and from ready arguments neither
  `apply_model` nor `wrap_leaves` raises (`ApplyModelWorks`, `WrapLeavesWorks`).
  `InitialFirst` is needed for the first attempt, which no model made.

`SymbolsMatchModel` speaks of the parameters whose value reaches the target:
`call_with_args` drops a value that is not callable where the annotation wants one, so
a number given to such a parameter has a leaf and a variable that the target never
sees (template `Dropped`).

### TargetRewriting

`RewritingInv` holds for any targets of one file, of any size and shape `WellFormed`
admits, and any number of rewritings in any order:

* `Numbered`: there is a number for each rewritten function such that its tree is its
  source compiled with the ids after that number, and the blocks of ids of two
  functions do not meet;
* `Sited`: every place the registry knows is the place of a test of a target rewritten
  at some time, a class included;
* `Known`: as long as no test has moved, the registry has the latest id of each;
* `Recorded`: what a run recorded are the outcomes of the source and of a tree compiled
  from it.

`ChainsTrue` is not inductive because it looks at the functions rewritten last, while
the registry keeps what earlier rewritings and classes left in it; and "the latest id"
is true only with the blocks apart and the places apart.  `SpotsApart` gives the
second: comparisons start in different places of the file, and a node the walk meets
once is moved to where its source is (`SpotOnce`).

A wrapped string can only come from the argument, from `str()` or from an operation on
one, so an operand that is none of these has no text (`OperandKindred`, over
`OperationTextless` and `TextlessUntexted`), and comparing it raises nothing at a chain's
place.

`SameResult` needs `TargetSame`, a simulation from the leaves to the root.  `NodeRenders`
lists what the rewriters make of a node: nothing, a helper, an expanded `map`, an
unwrapping `is`, a constant, or a row of equalities.  `NodesMatch` then proves for each
node, by induction on its number (`InductionUpTo`), that source on the plain argument
and rewriting on the wrapped one `Match`: for every number of calls made before, both
raise or both give the same value up to the wrapper, after as many calls.  One lemma
per operation says that it keeps that.  The long one is `TestsMatch`: a row of
equalities decided by the first that holds (`or`) or fails (`and`) is the membership
test, when the operand stands still or is evaluated once, repeated elements make no
difference (`Distinct` drops an element only for one of the same type and value), and
nothing raises for want of a hash.  `Quiet` operands stand still because the set of
nodes below them holds no call of `pop()`.

`Meaning`, `Visits`, `Distinct` and `Upto` are recursive functions on numbers, so that
they exist and what they return is proved (`RecursionBelow` of `ProofFacts`), not
assumed.

These proofs stand in `ConcolicProofs` beside those of the values the rewritten targets
handle.  The two have no constants in common, so neither rests on the assumptions of the
other.

### Only model-checked

* liveness (`Terminates`, `ComesBack`, `DispatchEnds`): fairness and `ENABLED` are
  out of the proof system's reach;
* the two disagreements of the runs `plugins_malformed` and `rewriting_lines`, which are
  counterexamples and need no proof.

## 7. Smaller divergences

Met on the way; the models behave as described, and no run of their own is kept
for them.

Exploration and the runner:

* the first generated input after the seeds runs beyond `max_iterations`: the head
  of the loop skips the budget for the seed phase, which `_next_input` then ends
  itself (`engine/engine.py:369` against the comment at 362-364);
* `_next_input` records `"timeout"` and its caller overwrites it with
  `"exhausted"` (`engine/engine.py:287` and 377; the test
  `test_constraint_unknown_dispatch.py:293` looks at `_next_input` alone);
* a `TimeoutError` of the target's own ends the exploration as `"timeout"`
  (`engine/engine.py:462`, 629);
* after `optimize` has rewritten a node (`engine/constraint_optimizer.py:73`), or a
  deadline has struck between two `add_child` calls, the next execution through
  that branch ends in "only one branch child exists" (`engine/path.py:86`);
* a child that stops inside a message holds the parent in `recv`, past every
  deadline (`engine/isolated_runner.py:259`; `StallsWriting` with `ComesBack`);
* one record that cannot be pickled silences every later checkpoint and the final
  result; attempts that completed are lost (`engine/isolated_runner.py:268`);
* a child that dies inside a message makes `recv` raise `OSError`, which
  `run_isolated` lets through (action `ReceiveTruncated`);
* at the deadline a final result already in the pipe is dropped (action `Watchdog`);
* a pre-covered line that fires (the `def` line of a one-line function, a line of the
  caller's own `pre_cover_lines`) is in the `new_lines` of its attempt, so their union is
  not `executed_lines - pre_cover_lines`, which `engine/engine.py:202-204`,
  `engine/state.py:72-75` and `engine/coverage_scope.py:69-70` say it is;
  `DeltasPartition` says of which lines it holds;
* a chain whose streak was reset is counted as deprioritized again, against
  "exactly once per chain" (`engine/state.py:176`).

Values, solver and arguments:

* the gaps listed under `ConcolicNumbers` in section 2;
* a tuple with a number in it among the initial arguments makes every attempt fail
  before the target is called (`engine/binding.py:280`);
* containers without a leaf are passed by reference, so later attempts and older
  records show what a target wrote into them (`engine/binding.py:237`);
* a number for a parameter annotated as callable is bound to a variable and then
  dropped (`utils/call_binding.py:64`), so models vary what no target sees;
* of one cell reached by two routes the target is shown the first route's variable with
  the value the model gave the second's (`utils/concolic_converter.py:59` against
  "giving every leaf its own SMT variable", `engine/binding.py:6`), so a model that gives
  the two different values does not flip the branch it was made for;
* a value dropped or left out before a positional-only one lets the next one take its
  place (`utils/call_binding.py:67` against "routed to the right slots", line 30): with
  `k: Callable` and `n` positional-only, a number for `k` and 5 for `n` make `k` 5;
* a list where a leaf was gives all its items one variable
  (`utils/concolic_converter.py:65`);
* `x / 0.0` raises `TypeError`; `s.split()` splits at single spaces;
* the characterwise form of `lower(s) == literal` counts the characters of the
  escaped text, so a literal with a backslash or a newline becomes unsatisfiable,
  and an upper-case literal becomes satisfiable
  (`engine/constraint_optimizer.py:345`);
* `lower` and `upper` of the formula fold ASCII only: a path that excludes `"k"` and
  `"K"` and asks for `s.lower() == "k"` is answered UNSAT although the Kelvin sign takes
  it, against "UNSAT means provably unreachable" (`engine/engine.py:416`);
  `engine/constraint_optimizer.py:271-273` skips literals beyond ASCII for the same
  reason, but not texts;
* a real printed `(/ 1 2)` is parsed as -1.0 and `(- (/ 1 2))` not at all, which
  turns SAT into an answer without a model; cvc5's `\u{..}` is not undone
  (`solver/model_parser.py`);
* a model cut short keeps the initial values of the variables it misses, and every
  model is applied to the initial arguments, not to those of the path's run.

Targets and plugins:

* a rewritten `f() in (1, 2)` calls `f` once per element, and never for an empty
  container; `[] in {1}` gives `False` where Python raises `TypeError`;
  `map(int, ...)` of a set or a generator raises; keywords of `range` are dropped;
* a wrapped string tested for membership among literals of which one is no string raises
  `AttributeError`: `eq` and `ne` pass `NotImplemented` to `_stamp_chain_id`, which sets
  an attribute on it (`core/str/operations.py:51`);
* a class as target advances chain counter and registry although it runs as it is;
* recovery of a broken answer drops entries without counting them, takes inner
  dicts of nested entries for inputs, and a resolver's answer is not sanitized
  (`plugins/llm/parser.py`);
* any `TypeError` or `OSError` during an exploration becomes the result "cannot
  inspect target", without the records made so far (`engine/engine.py:167`);
* `+=` on the token counters is not locked, so beside a thread that was given up a
  response can be lost from them, against "accumulated across all complete() calls"
  (`plugins/llm/client.py:42`, 108); the interpreter lock makes it rare, a free-threaded
  build does not;
* the service's own time-out equals that of `join()`, so a retry after a time-out
  is always too late (`plugins/llm/client.py`).

## 8. Not modelled

* Import and inspection of the target, virtual environments, source files: file
  I/O whose only effect on the rest is success or failure.
* Process-wide patches of `builtins.len` and of the socket module, and the
  registry as a class variable: they matter only when two explorations overlap in
  one process, which the package itself never does.
* The clocks of engine and watchdog on one axis: `IsolatedRunner` lets the deadline
  pass at any moment instead.
* The wording of SMT text, prompts and logs; formatting and encoding methods of
  strings; lists as solver values.
* Results, settings, the command line and the benchmark scripts.

`PROJECT.json` gives the reason for each component.

## 9. What could follow

* Targets of several statements in `TargetRewriting`: assignments, loops and returns
  around the expressions it rewrites.
* A model of two overlapping explorations over the patches and the registry, and one
  clock for the budget of the engine and the buffer of the watchdog.
