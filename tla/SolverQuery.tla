---------------------------- MODULE SolverQuery ----------------------------
(***************************************************************************)
(* One solver call after the other, from a constraint of the pool to the    *)
(* arguments of the next attempt (engine._solve, constraint_optimizer.py,   *)
(* predicate.py, solver/*, utils/smt_converter.py).                         *)
(*                                                                          *)
(* A constraint is the sequence of conditions on its path, the last one     *)
(* being the branch to be flipped.  What a condition means to the target    *)
(* (Tests) and what the solver reads in the text it is sent (Asserts) are   *)
(* kept apart: printing, rewriting and parsing lie between the two.         *)
(*                                                                          *)
(* The inputs of the target are an int x, a float r counted in halves and a *)
(* string s.  The formula folds the letters of ASCII, the target those of     *)
(* every script.                                                             *)
(***************************************************************************)
EXTENDS PythonStrings, FiniteSets

CONSTANTS Paths,     \* constraints of the pool
          Ints, Halves, Texts,   \* values the solver may choose
          StoreId,   \* the single formula kept by store="<id>"
          Configs,   \* SolverConfig: where formulas are kept
          MaxCalls   \* calls of the solver

\* A condition as the target registers it: a comparison with a number or a literal.
Condition ==
    [op : {"int=", "int<", "real<", "len=", "str=", "count", "lower", "upper"},
     k : Int, lit : Seq(Int), symbolic : BOOLEAN, negated : BOOLEAN, wanted : BOOLEAN]

ASSUME QueryAssumption ==
    /\ Paths \subseteq Seq(Condition) \ {<<>>}
    /\ Halves \subseteq Int
    /\ Ints \subseteq Int
    /\ Texts \subseteq Seq(Int)
    /\ StoreId \in Nat \ {0}
    /\ Configs \subseteq [store : {"none", "directory", "id"}, statsdir : BOOLEAN]
    /\ MaxCalls \in Nat

VARIABLES pc,        \* where find_model is
          path,      \* the constraint being solved
          sent,      \* the conditions as the formula asserts them
          output,    \* what the solver process left
          status,    \* SolverStatus
          input,     \* arguments made from the model
          stats,     \* SolverStats
          tally,     \* what the optimizer counted
          config,    \* SolverConfig: store and statsdir
          counter,   \* SolverExecutor.formula_counter
          files,     \* formulas on disk
          verdicts   \* history: the status of every finished call

vars == <<pc, path, sent, output, status, input, stats, tally, config, counter, files, verdicts>>

Assignment == [x : Ints, r : Halves, s : Texts]

\* The arguments exploration started from.
Initial == [x |-> 0, r |-> 0, s |-> <<>>]

NoInput == [none |-> TRUE]
NoOutput == [first |-> "none", lines |-> <<>>]

-----------------------------------------------------------------------------
(* Text of a literal *)

Tab == 9
Return == 13
Quote == 34
Backslash == 92

\* py2smt; c itself stands for its hexadecimal digits in \u{...}.
Escape(c) ==
    CASE c = Backslash -> <<Backslash, Backslash>>
      [] c = Return    -> <<Backslash, 114>>
      [] c = Newline   -> <<Backslash, 110>>
      [] c = Tab       -> <<Backslash, 116>>
      [] c = Quote     -> <<Quote, Quote>>
      [] c > 127       -> <<Backslash, 117, 123, c, 125>>
      [] OTHER         -> <<c>>

Encode(s) == FlattenSeq([i \in 1..Len(s) |-> Escape(s[i])])

\* The string an SMT-LIB literal denotes: a doubled quote and \u{...} are its only
\* escapes, a backslash before anything else is a character.
CodePointAt(t, i) ==
    OccursAt(t, <<Backslash, 117, 123>>, i) /\ i + 5 <= Len(t) /\ t[i + 5] = 125

Denoted(t) ==
    LET from[i \in 0..Len(t)] ==
            IF i = Len(t) THEN <<>>
            ELSE IF OccursAt(t, <<Quote, Quote>>, i) THEN <<Quote>> \o from[i + 2]
            ELSE IF CodePointAt(t, i) THEN <<t[i + 4]>> \o from[i + 5]
            ELSE <<t[i + 1]>> \o from[i + 1]
    IN  from[0]

Read(s) == Denoted(Encode(s))

\* How the solver prints a string: what is not a printable ASCII character, and the
\* backslash, as \u{...}.
PrintedChar(c) ==
    IF c = Quote THEN <<Quote, Quote>>
    ELSE IF c < 32 \/ c > 126 \/ c = Backslash THEN <<Backslash, 117, 123, c, 125>>
    ELSE <<c>>

Printed(s) == FlattenSeq([i \in 1..Len(s) |-> PrintedChar(s[i])])

\* ModelParser._parse_string undoes the escapes of py2smt one after the other.
ParseString(t) ==
    LET quotes   == ReplaceEach(t, <<Quote, Quote>>, <<Quote>>)
        tabs     == ReplaceEach(quotes, <<Backslash, 116>>, <<Tab>>)
        newlines == ReplaceEach(tabs, <<Backslash, 110>>, <<Newline>>)
        returns  == ReplaceEach(newlines, <<Backslash, 114>>, <<Return>>)
    IN  ReplaceEach(returns, <<Backslash, Backslash>>, <<Backslash>>)

\* A real is printed 1.0, (- 1.0), (/ 1 2) or (- (/ 1 2)).  _parse_real takes every
\* parenthesis for a minus sign and the second token for the number.
RealParses(h) == h >= 0 \/ h % 2 = 0
ParseReal(h) == IF h % 2 = 0 THEN h ELSE -(2 * h)

-----------------------------------------------------------------------------
(* Conditions *)

\* Non-overlapping matches; an empty piece matches everywhere (str.count).
CountIn(s, t) ==
    IF t = <<>> THEN 1 + Len(s)
    ELSE (Len(s) - Len(ReplaceEach(s, t, <<>>))) \div Len(t)

\* The chained form: each of k matches is sought after the one before, and none is
\* left.
Chained(s, t, k) ==
    LET found[n \in 1..(k + 1)] == IndexOf(s, t, IF n = 1 THEN 0 ELSE found[n - 1] + Len(t))
    IN  (\A n \in 1..k : found[n] >= 0) /\ found[k + 1] = -1

\* The length, and one clause per character of the literal's text; a letter is
\* matched in both cases.
Charwise(s, text) ==
    /\ Len(s) = Len(text)
    /\ \A i \in 1..Len(text) :
         LET at == <<s[i]>>
         IN  IF text[i] \in Letter
             THEN at \in {Lower(<<text[i]>>), Upper(<<text[i]>>)}
             ELSE at = Read(<<text[i]>>)

\* What the solver reads.  A symbolic piece is s itself.
Meaning(c, a) ==
    CASE c.op = "int="     -> a.x = c.k
      [] c.op = "int<"     -> a.x < c.k
      [] c.op = "real<"    -> a.r < c.k
      [] c.op = "len="     -> Len(a.s) = c.k
      [] c.op = "str="     -> a.s = Read(c.lit)
      [] c.op = "count"    -> CountIn(a.s, IF c.symbolic THEN a.s ELSE Read(c.lit)) = c.k
      [] c.op = "lower"    -> Lower(a.s) = Read(c.lit)
      [] c.op = "upper"    -> Upper(a.s) = Read(c.lit)
      [] c.op = "absent"   -> ~Has(a.s, Read(c.lit))
      [] c.op = "chain"    -> Chained(a.s, Read(c.lit), c.k)
      [] c.op = "charwise" -> Charwise(a.s, Encode(c.lit))

Asserts__LosesNot(c, a) == Meaning(c, a) = c.wanted

\* The expression's own "not", then the one of a predicate that must be false.
Asserts(c, a) == Meaning(c, a) = (c.wanted = ~c.negated)

\* What the target computes and compares with the side that is wanted.
Tests(c, a) ==
    LET truth == CASE c.op = "str="  -> a.s = c.lit
                   [] c.op = "count" -> CountIn(a.s, IF c.symbolic THEN a.s ELSE c.lit) = c.k
                   [] c.op = "lower" -> PyLower(a.s) = c.lit
                   [] c.op = "upper" -> PyUpper(a.s) = c.lit
                   [] OTHER          -> Meaning(c, a)
    IN  truth = (c.wanted = ~c.negated)

-----------------------------------------------------------------------------
(* constraint_optimizer *)

Rewritten(c, op) == [c EXCEPT !.op = op]

RewriteCount(c) ==
    IF c.k < 0 \/ c.symbolic \/ c.lit = <<>> THEN c
    ELSE IF c.k = 0 THEN Rewritten(c, "absent") ELSE Rewritten(c, "chain")

NonAscii(s) == \E i \in 1..Len(s) : s[i] > 127

RewriteCase(c) == IF NonAscii(c.lit) THEN c ELSE Rewritten(c, "charwise")

RewriteNode(c) ==
    CASE c.op = "count"              -> RewriteCount(c)
      [] c.op \in {"lower", "upper"} -> RewriteCase(c)
      [] OTHER                       -> c

Counted(c) ==
    CASE c.op = "count" /\ c.k >= 0 /\ c.symbolic                  -> {"skippedSymbolic"}
      [] c.op = "count" /\ c.k >= 0 /\ c.lit # <<>>                -> {"countRewritten"}
      [] c.op \in {"lower", "upper"} /\ NonAscii(c.lit)            -> {"skippedNonAscii"}
      [] c.op \in {"lower", "upper"}                               -> {"caseRewritten"}
      [] OTHER                                                     -> {}

-----------------------------------------------------------------------------
Init ==
    /\ pc = "idle"
    /\ path = <<>> /\ sent = <<>>
    /\ output = NoOutput
    /\ status = "none"
    /\ input = NoInput
    /\ stats = [sat |-> 0, unsat |-> 0, otherwise |-> 0]
    /\ tally = [t \in {"skippedSymbolic", "countRewritten", "skippedNonAscii", "caseRewritten"} |-> 0]
    /\ config \in Configs
    /\ counter = 1
    /\ files = {}
    /\ verdicts = <<>>

\* The leaf is rewritten in place; a condition above it is as its own solving left
\* it.
Solve(p) ==
    /\ pc = "idle" /\ Len(verdicts) < MaxCalls
    /\ \E above \in [1..(Len(p) - 1) -> BOOLEAN] :
         sent' = [i \in 1..Len(p) |->
                    IF i = Len(p) \/ above[i] THEN RewriteNode(p[i]) ELSE p[i]]
    /\ path' = p
    /\ tally' = [t \in DOMAIN tally |->
                   tally[t] + (IF t \in Counted(p[Len(p)]) THEN 1 ELSE 0)]
    /\ input' = NoInput /\ output' = NoOutput /\ status' = "none"
    /\ pc' = "running"
    /\ UNCHANGED <<stats, config, counter, files, verdicts>>

Satisfies(a, conditions) == \A i \in 1..Len(conditions) : Asserts(conditions[i], a)

Solutions == {a \in Assignment : Satisfies(a, sent)}

Line(v, a) == [var |-> v, value |-> IF v = "s" THEN Printed(a.s) ELSE a[v]]

\* The solver process.  Its own time limit may end it after "sat", between two
\* values.
SolverAnswers ==
    /\ pc = "running"
    /\ \/ \E a \in Solutions, printed \in {1, 3} :
            output' = [first |-> "sat", lines |-> SubSeq(<<Line("x", a), Line("r", a), Line("s", a)>>,
                                                         1, printed)]
       \/ /\ Solutions = {}
          /\ output' = [first |-> "unsat", lines |-> <<>>]
       \/ \E first \in {"unknown", "error", "nothing", "hang"} :
            output' = [first |-> first, lines |-> <<>>]
    /\ pc' = "ended"
    /\ UNCHANGED <<path, sent, status, input, stats, tally, config, counter, files, verdicts>>

\* There is no such executable: the OSError leaves the engine.
SolverMissing ==
    /\ pc = "running"
    /\ pc' = "raised"
    /\ UNCHANGED <<path, sent, output, status, input, stats, tally, config, counter, files, verdicts>>

ParseStatus__ElseUnsat(first) ==
    CASE first = "error" -> "error"
      [] first = "sat"   -> "sat"
      [] OTHER           -> "unsat"

ParseStatus(first) ==
    CASE first = "error"            -> "error"
      [] first \in {"sat", "unsat"} -> first
      [] OTHER                      -> "unknown"

RecordStats(st) ==
    LET kind == IF st \in {"sat", "unsat"} THEN st ELSE "otherwise"
    IN  [stats EXCEPT ![kind] = @ + 1]

\* _store_formula: the number only advances when formulas are kept.
Written(st) ==
    {[at |-> "store", number |-> counter, status |-> st] :
        at \in {a \in {"store"} : \/ config.store = "directory"
                                  \/ config.store = "id" /\ counter = StoreId}}
    \cup {[at |-> "stats", number |-> counter, status |-> st] :
            at \in {a \in {"stats"} : config.statsdir}}

\* SolverExecutor.execute
Execute ==
    /\ pc = "ended"
    /\ LET st == ParseStatus(output.first)
       IN  /\ status' = st
           /\ stats' = RecordStats(st)
           /\ files' = files \cup Written(st)
           /\ counter' = IF config.store = "none" /\ ~config.statsdir
                         THEN counter ELSE counter + 1
           /\ verdicts' = Append(verdicts, st)
    /\ pc' = "executed"
    /\ UNCHANGED <<path, sent, output, input, tally, config>>

ParsedValue(l) ==
    CASE l.var = "s" -> ParseString(l.value)
      [] l.var = "r" -> ParseReal(l.value)
      [] l.var = "x" -> l.value

Mentioned(v) == \E i \in 1..Len(output.lines) : output.lines[i].var = v

ValueOf(v) == ParsedValue(CHOOSE l \in ToSet(output.lines) : l.var = v)

Parses == \A l \in ToSet(output.lines) : l.var = "r" => RealParses(l.value)

\* A model that does not parse is no model; what the model leaves out keeps its
\* initial value.
ReadModel ==
    /\ pc = "executed"
    /\ input' = IF status = "sat" /\ Parses
                THEN [v \in DOMAIN Initial |-> IF Mentioned(v) THEN ValueOf(v) ELSE Initial[v]]
                ELSE NoInput
    /\ pc' = "idle"
    /\ UNCHANGED <<path, sent, output, status, stats, tally, config, counter, files, verdicts>>

Next ==
    \/ \E p \in Paths : Solve(p)
    \/ SolverAnswers
    \/ SolverMissing
    \/ Execute
    \/ ReadModel

Spec == Init /\ [][Next]_vars

-----------------------------------------------------------------------------
(* Properties *)

\* Characters that mean the same in Python's text, SMT-LIB's and the parser's.
Unescaped(s) == \A i \in 1..Len(s) : s[i] \in 32..126 \ {Backslash, Quote}
Transparent(s) == \A i \in 1..Len(s) : s[i] \in 32..126 \ {Backslash}

\* The comparisons of a folded string that the characterwise form keeps.
Folded(c) ==
    /\ c.op = "lower" => Unescaped(c.lit) /\ Lower(c.lit) = c.lit
    /\ c.op = "upper" => Unescaped(c.lit) /\ Upper(c.lit) = c.lit

Faithful(c) == Transparent(c.lit) /\ Folded(c)

\* A text that the condition folds as ASCII does: not the Kelvin sign, whose lower
\* case is k.
FoldsAlike(c, s) ==
    /\ c.op = "lower" => PyLower(s) = Lower(s)
    /\ c.op = "upper" => PyUpper(s) = Upper(s)

Answered == pc = "idle" /\ status # "none"

\* The input made from a model takes the path it was sought for: rewriting,
\* printing, solving, parsing and writing the model back end in arguments that
\* pass every test of the path (engine._solve).  Left out are literals that the
\* text changes, values the parser changes, and an answer cut short.
SolvedInputSatisfies ==
    Answered /\ input # NoInput /\ Len(output.lines) = 3
        /\ (\A i \in 1..Len(path) : Faithful(path[i]))
        /\ (\A l \in ToSet(output.lines) :
              /\ l.var = "s" => Transparent(l.value)
              /\ l.var = "r" => l.value % 2 = 0)
        => \A i \in 1..Len(path) : Tests(path[i], input)

\* UNSAT closes an alternative for good: no input takes the path, provided its
\* literals survive their way into the formula and the input's text is folded as
\* the formula folds it (engine._solve, constraint_optimizer).  Of the Kelvin sign it
\* is not: Python's lower case is k, and the formula excludes it.
FaithfulUnsat ==
    Answered /\ status = "unsat" /\ (\A i \in 1..Len(path) : Faithful(path[i])) =>
        \A a \in Assignment : (\A i \in 1..Len(path) : FoldsAlike(path[i], a.s)) =>
            \E i \in 1..Len(path) : ~Tests(path[i], a)

=============================================================================
