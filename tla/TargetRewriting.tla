-------------------------- MODULE TargetRewriting --------------------------
(***************************************************************************)
(* The rewriting of targets before they are explored (ast_transformer.py,   *)
(* builtin_wrappers.py, engine._try_rewrite): int, str, range and map(int,) *)
(* calls go through helpers that keep the symbol, "is" with a sentinel      *)
(* through one that unwraps, and a membership test in a literal container   *)
(* becomes one equality per element, all under one chain id.                *)
(*                                                                          *)
(* A target is one expression: its syntax tree is a sequence of nodes in    *)
(* the order a transformer leaves them, the root last, and subs holds the   *)
(* numbers of a node's children.  A node is the object it is in the code.   *)
(* The equalities of a rewritten test stand together in a node "tests" that *)
(* holds the left operand, one object in all of them, and the elements.     *)
(***************************************************************************)
EXTENDS Integers, Sequences, FiniteSets, SequencesExt

CONSTANTS Targets,    \* names of the callables of one file
          Source,     \* their source: [kind, start, body], lines counted from start
          Arguments,  \* values a target may be run on
          Supply,     \* what successive calls of pop() return
          MaxRewrites

NoChain == 0

\* A "str" is a numeral, any other string a "text"; a "map" is the iterator map() gives.
ValueTypes == {"int", "bool", "str", "text", "none", "ellipsis", "list", "set", "range", "map"}
Values == [type : ValueTypes, val : Int, wrapped : BOOLEAN]
NoValue == [type |-> "none", val |-> 0, wrapped |-> FALSE]
Bare(v) == [v EXCEPT !.wrapped = FALSE]
Numeric(v) == v.type \in {"int", "bool"}

Node == [line : Nat, col : Nat, op : STRING, arg : STRING, ops : Seq(STRING),
         value : Values, subs : Seq(Nat), chain : Nat]

-----------------------------------------------------------------------------
(* Source trees *)

Containers == {"set", "tuple", "list", "dict"}
EmptyConstructors == {"set", "frozenset", "tuple", "list", "dict"}
LiteralTypes == {"int", "str", "text", "bool", "none", "ellipsis"}

EmptyCall(e) == e.op = "call" /\ e.arg \in EmptyConstructors /\ e.subs = <<>>
IsContainer(e) == e.op \in Containers \/ EmptyCall(e)
IsExpression(e) ==
    /\ e.op \in {"const", "minus", "name", "pop", "or", "and", "compare", "call"}
    /\ ~EmptyCall(e)

ExpressionsAt(b, subs) == \A i \in DOMAIN subs : IsExpression(b[subs[i]])

\* The operators between e.subs[1], e.subs[2] and, in a chain, e.subs[3].
ComparesWell(b, e) ==
    /\ Len(e.subs) = Len(e.ops) + 1
    /\ \/ Len(e.ops) = 1
       \/ Len(e.ops) = 2 /\ e.ops[1] \in {"==", "!=", "is"}
    /\ IsExpression(b[e.subs[1]])
    /\ \A i \in DOMAIN e.ops :
         \/ e.ops[i] \in {"==", "!=", "is"} /\ IsExpression(b[e.subs[i + 1]])
         \/ e.ops[i] \in {"in", "notin"} /\ IsContainer(b[e.subs[i + 1]])

CallsWell(b, e) ==
    \/ e.arg \in {"int", "str", "range"} /\ Len(e.subs) \in 1..2 /\ ExpressionsAt(b, e.subs)
    \/ e.arg = "map" /\ Len(e.subs) = 2 /\ IsExpression(b[e.subs[2]])
    \/ EmptyCall(e)

\* What a node may be; a name is the parameter, or the function given to map.
Shaped(b, n) ==
    LET e == b[n]
    IN  /\ \A i \in DOMAIN e.subs : e.subs[i] \in 1..n - 1
        /\ \/ e.op = "const" /\ e.value.type \in LiteralTypes /\ ~e.value.wrapped
           \/ e.op \in {"name", "pop", "unpack"}
           \/ e.op = "minus" /\ Len(e.subs) = 1 /\ b[e.subs[1]].op = "const" /\ Numeric(b[e.subs[1]].value)
           \/ e.op \in {"or", "and"} /\ e.subs # <<>> /\ ExpressionsAt(b, e.subs)
           \/ e.op \in Containers /\ \A i \in DOMAIN e.subs : b[e.subs[i]].op \in {"const", "minus", "name", "unpack"}
           \/ e.op = "compare" /\ ComparesWell(b, e)
           \/ e.op = "call" /\ CallsWell(b, e)

WellFormed(b) ==
    /\ b \in Seq(Node) /\ b # <<>>
    /\ \A n \in DOMAIN b : b[n].chain = NoChain /\ Shaped(b, n)
    /\ \A m, n \in DOMAIN b : ToSet(b[m].subs) \cap ToSet(b[n].subs) # {} => m = n
    /\ IsExpression(b[Len(b)])

Body(t) == Source[t].body
InFile(t, n) == Body(t)[n].line + Source[t].start - 1

\* A comparison that contains another starts before it: no two start in one place.
ASSUME RewritingAssumption ==
    /\ DOMAIN Source = Targets
    /\ \A t \in Targets :
         /\ Source[t].kind \in {"function", "class", "lambda"}
         /\ Source[t].start \in Nat \ {0}
         /\ WellFormed(Body(t))
    /\ \A t, u \in Targets : \A n \in DOMAIN Body(t), m \in DOMAIN Body(u) :
         /\ Body(t)[n].op = "compare" /\ Body(u)[m].op = "compare"
         /\ InFile(t, n) = InFile(u, m) /\ Body(t)[n].col = Body(u)[m].col
         => t = u /\ n = m
    /\ Supply # <<>> /\ Supply \in Seq(Values)
    /\ \A i \in DOMAIN Supply : ~Supply[i].wrapped
    /\ \A v \in Arguments : v \in Values /\ ~v.wrapped
    /\ MaxRewrites \in Nat

VARIABLES counter,   \* _chain_id_counter
          registry,  \* _CHAIN_POSITION_REGISTRY: position -> chain id
          compiled,  \* target -> what exploration runs for it
          tally,     \* gen_membership_rewritten, gen_membership_skipped_non_literal
          last,      \* the last run, beside the run of the original (history)
          rewrites   \* rewrites so far

rewritingVars == <<counter, registry, compiled, tally, last, rewrites>>

NoTree == <<>>
NoRun == [ran |-> FALSE]

-----------------------------------------------------------------------------
(* ConcolicCallRewriter *)

Helper(name, subs, e) == [e EXCEPT !.op = "helper", !.arg = name, !.subs = subs]

IsMapInt(b, e) ==
    /\ e.op = "call" /\ e.arg = "map" /\ Len(e.subs) = 2
    /\ b[e.subs[1]].op = "name" /\ b[e.subs[1]].arg = "int"
    /\ b[e.subs[2]].op = "name"

RewriteCall(b, e) ==
    CASE e.op = "call" /\ e.arg \in {"int", "str"} /\ Len(e.subs) = 1 -> Helper(e.arg, e.subs, e)
      [] e.op = "call" /\ e.arg = "range" -> Helper(e.arg, e.subs, e)
      [] IsMapInt(b, e)                   -> Helper("map", <<e.subs[2]>>, e)
      [] OTHER                            -> e

CallsRewritten ==
    [t \in Targets |-> [n \in DOMAIN Body(t) |-> RewriteCall(Body(t), Body(t)[n])]]

-----------------------------------------------------------------------------
(* ConcolicCompareRewriter *)

Sentinels == {"none", "bool", "ellipsis"}
IsSentinel(e) == e.op = "const" /\ e.value.type \in Sentinels

IsLiteralElement(e) == e.op \in {"const", "minus"}
LiteralValue(b, e) ==
    IF e.op = "const" THEN e.value
    ELSE [type |-> "int", val |-> -b[e.subs[1]].value.val, wrapped |-> FALSE]

\* _literal_container_elements; a dict counts its keys, "unpack" stands for ** in it.
IsLiteralContainer(b, e) == IsContainer(e) /\ \A i \in DOMAIN e.subs : IsLiteralElement(b[e.subs[i]])

\* The same value of the same type is compared once.
Distinct(b, e) ==
    LET Value(i) == LiteralValue(b, b[e.subs[i]])
        out[i \in 0..Len(e.subs)] ==
            IF i = 0 THEN <<>>
            ELSE IF \E j \in 1..i - 1 : Value(j) = Value(i) THEN out[i - 1]
            ELSE Append(out[i - 1], e.subs[i])
    IN  out[Len(e.subs)]

IsSingle(e) == e.op = "compare" /\ Len(e.ops) = 1
IsMembership(e) == IsSingle(e) /\ e.ops[1] \in {"in", "notin"}
IsRewritten(b, e) == IsMembership(e) /\ IsLiteralContainer(b, b[e.subs[2]])

Boolean(p, wrapped) == [type |-> "bool", val |-> IF p THEN 1 ELSE 0, wrapped |-> wrapped]
Bool(p) == Boolean(p, FALSE)

RewriteMembership__AlwaysOr(b, e) ==
    LET elements == Distinct(b, b[e.subs[2]])
    IN  IF elements = <<>>
        THEN [e EXCEPT !.op = "const", !.value = Bool(e.ops[1] = "notin"), !.subs = <<>>]
        ELSE [e EXCEPT !.op = "tests", !.subs = <<e.subs[1]>> \o elements,
                       !.ops = IF e.ops[1] = "in" THEN <<"or", "tagged==">> ELSE <<"or", "tagged!=">>]

\* _rewrite_membership
RewriteMembership(b, e) ==
    LET elements == Distinct(b, b[e.subs[2]])
    IN  IF elements = <<>>
        THEN [e EXCEPT !.op = "const", !.value = Bool(e.ops[1] = "notin"), !.subs = <<>>]
        ELSE [e EXCEPT !.op = "tests", !.subs = <<e.subs[1]>> \o elements,
                       !.ops = IF e.ops[1] = "in" THEN <<"or", "tagged==">> ELSE <<"and", "tagged!=">>]

\* The comparator of "is" has been visited before: a test that folds away is a sentinel.
FoldsAway(b, e) == IsRewritten(b, e) /\ Distinct(b, b[e.subs[2]]) = <<>>
BecomesSentinel(b, e) == IsSentinel(e) \/ FoldsAway(b, e)

RewriteCompare(b, e) ==
    CASE IsSingle(e) /\ e.ops[1] = "is" /\ BecomesSentinel(b, b[e.subs[2]]) -> Helper("is", e.subs, e)
      [] IsRewritten(b, e) -> RewriteMembership(b, e)
      [] OTHER             -> e

Rewritten ==
    [t \in Targets |-> [n \in DOMAIN Body(t) |-> RewriteCompare(CallsRewritten[t], CallsRewritten[t][n])]]

\* next(_chain_id_counter) for each test that becomes equalities, inner ones first.
Tagged(t) == {n \in DOMAIN Body(t) : Rewritten[t][n].op = "tests"}
ChainFor__PerRewrite(t, drawn, n) == Cardinality(Tagged(t) \cap 1..n)
ChainFor(t, drawn, n) == drawn + Cardinality(Tagged(t) \cap 1..n)

-----------------------------------------------------------------------------
(* Lines *)

\* How often ast.walk comes across a node: each equality holds the left operand, and a
\* node that nothing holds any more, such as a container, holds nothing.
Times(e, m) == IF e.op = "tests" /\ m = e.subs[1] THEN Len(e.subs) - 1 ELSE 1
Visits ==
    [t \in Targets |->
        LET visits[m \in DOMAIN Body(t)] ==
                LET holders == {n \in m + 1..Len(Body(t)) :
                                  m \in ToSet(Rewritten[t][n].subs) /\ visits[n] # 0}
                IN  IF m = Len(Body(t)) THEN 1
                    ELSE IF holders = {} THEN 0
                    ELSE LET n == CHOOSE n \in holders : TRUE
                         IN  visits[n] * Times(Rewritten[t][n], m)
        IN  [m \in DOMAIN Body(t) |-> visits[m]]]

Offset(t) == Source[t].start - 1

\* _shift_line_numbers adds the offset at every visit of the walk.
Shifted(t, n) == Body(t)[n].line + Offset(t) * Visits[t][n]

\* The tree that is compiled when that many chain ids were drawn before.
Compiled(t, drawn) ==
    [n \in DOMAIN Body(t) |->
        [Rewritten[t][n] EXCEPT !.line = Shifted(t, n),
                                !.chain = IF n \in Tagged(t) THEN ChainFor(t, drawn, n) ELSE NoChain]]

Position(e) == <<e.line, e.col>>

\* _register_chain_positions; which of two tests moved to one place it meets last is
\* left open.
Sites(t) == {n \in Tagged(t) : Visits[t][n] # 0}
Places(t, tree) == {Position(tree[n]) : n \in Sites(t)}
Register(t, tree) ==
    \E site \in [Places(t, tree) -> Sites(t)] :
        /\ \A p \in DOMAIN site : Position(tree[site[p]]) = p
        /\ registry' = [p \in DOMAIN registry \cup DOMAIN site |->
                          IF p \in DOMAIN site THEN tree[site[p]].chain ELSE registry[p]]

-----------------------------------------------------------------------------
(* What an expression does, on an argument and a supply of results for pop(): a      *)
(* function from the calls of pop() made before to an outcome.  Results that are    *)
(* sets hold the value of an operation, or nothing when it raises.                  *)

IsText(v) == v.type \in {"str", "text"}
Truthy(v) == IF Numeric(v) THEN v.val # 0 ELSE v.type # "none"
Equal(v, w) == v.val = w.val /\ (v.type = w.type \/ (Numeric(v) /\ Numeric(w)))
Hashable(v) == v.type \notin {"list", "set"}
Iterable(v) == v.type \in {"str", "text", "list", "set"}

\* Numerals without a sign, and lists of integers.
Convertible(v) == v.type \in {"str", "list"} /\ v.val >= 0

\* Identity holds for sentinels, and never for a wrapper.
Identical(v, w) == ~v.wrapped /\ ~w.wrapped /\ v = w /\ v.type \in Sentinels

\* The value of a container holds what a membership test may find.
Collections == [type : EmptyConstructors, val : Int, wrapped : BOOLEAN, items : SUBSET Values]
Hashing == {"set", "frozenset", "dict"}

Outcomes == [raised : BOOLEAN, val : Values \cup Collections, calls : Nat]
Failed(calls) == [raised |-> TRUE, val |-> NoValue, calls |-> calls]
Gives(v, calls) == [raised |-> FALSE, val |-> v, calls |-> calls]
Ends(results, calls) == IF results = {} THEN Failed(calls) ELSE Gives(CHOOSE v \in results : TRUE, calls)

Always(v) == [calls \in Nat |-> Gives(v, calls)]
Popped == [calls \in Nat |-> Gives(Supply[(calls % Len(Supply)) + 1], calls + 1)]

\* int(), str(), range() and map(int,), as builtins or through the helpers: a builtin
\* strips the wrapper; map is lazy, its expansion indexes and converts at once.
Called(name, v, helper) ==
    LET kept == helper /\ v.wrapped
        Made(type, keeps) == {[type |-> type, val |-> v.val, wrapped |-> keeps]}
    IN  CASE name = "int" /\ (Numeric(v) \/ v.type = "str") -> Made("int", kept)
          [] name = "str"                       -> Made(IF v.type \in {"int", "str"} THEN "str" ELSE "text", kept)
          [] name = "range" /\ Numeric(v)       -> Made("range", FALSE)
          [] name = "map" /\ ~helper /\ Iterable(v)   -> Made("map", FALSE)
          [] name = "map" /\ helper /\ Convertible(v) -> Made("list", FALSE)
          [] OTHER                              -> {}

\* An equality keeps the symbol of a string beside a string, and of an integer beside a
\* number; only a bool on the left hides that of an integer.
KeepsSymbol(l, r) ==
    \/ IsText(l) /\ IsText(r) /\ (l.wrapped \/ r.wrapped)
    \/ l.type = "int" /\ Numeric(r) /\ (l.wrapped \/ (r.type = "int" /\ r.wrapped))

\* A wrapped string finds NotImplemented beside what is no string, and cannot mark that
\* with the chain id of the place it is compared at.
Unmarkable(l, r) ==
    \/ IsText(l) /\ l.wrapped /\ ~IsText(r)
    \/ IsText(r) /\ r.wrapped /\ ~IsText(l)

\* Comparisons, those that stand at a registered place, the helper for "is", and calls
\* with a second argument (a base, an end).
Combined(op, l, r) ==
    CASE op \in {"==", "!="}    -> {Boolean(Equal(l, r) = (op = "=="), KeepsSymbol(l, r))}
      [] op \in {"tagged==", "tagged!="} -> IF Unmarkable(l, r) THEN {}
                                   ELSE {Boolean(Equal(l, r) = (op = "tagged=="), KeepsSymbol(l, r))}
      [] op = "is"              -> {Bool(Identical(l, r))}
      [] op = "unwrappedIs"    -> {Bool(Identical(Bare(l), Bare(r)))}
      [] op \in {"in", "notin"} -> IF r.type \in Hashing /\ ~Hashable(l) THEN {}
                                   ELSE {Bool((\E v \in r.items : Equal(l, v)) = (op = "in"))}
      [] op = "int" /\ l.type = "str" /\ Numeric(r)  -> Called("int", l, FALSE)
      [] op = "range" /\ Numeric(l) /\ Numeric(r)    -> Called("range", l, FALSE)
      [] OTHER                                       -> {}

Unary(name, helper, operand) ==
    [calls \in Nat |->
        LET o == operand[calls]
        IN  IF o.raised THEN o ELSE Ends(Called(name, o.val, helper), o.calls)]

\* What an operator makes of a left operand that has come out, and of the right one.
With(op, l, right) ==
    IF l.raised THEN l
    ELSE LET r == right[l.calls]
         IN  IF r.raised THEN r ELSE Ends(Combined(op, l.val, r.val), r.calls)

Binary(op, left, right) == [calls \in Nat |-> With(op, left[calls], right)]

\* A chained comparison evaluates its middle once, and its end only if it holds so far.
Chained(op, further, left, middle, right) ==
    [calls \in Nat |->
        LET test == With(op, left[calls], middle)
        IN  IF test.raised \/ ~Truthy(test.val) THEN test
            ELSE With(further, middle[left[calls].calls], right)]

\* "or" (decided by TRUE) and "and".
Decided(by, o) == o.raised \/ Truthy(o.val) = by
Upto(by, parts, calls) ==
    LET upto[k \in 0..Len(parts)] ==
            IF k = 0 THEN Gives(Bool(~by), calls)
            ELSE IF Decided(by, upto[k - 1]) THEN upto[k - 1]
            ELSE parts[k][upto[k - 1].calls]
    IN  upto
Shortcut(by, parts) == [calls \in Nat |-> Upto(by, parts, calls)[Len(parts)]]

Kind(e) == IF e.op = "call" THEN e.arg ELSE e.op
SetLike(e) == IsContainer(e) /\ Kind(e) \in Hashing

\* A container of literals and of the parameter; nothing an argument is unpacks in a dict.
Collected(b, e, x) ==
    LET Element(i) == b[e.subs[i]]
        Item(i) == IF Element(i).op = "name" THEN x ELSE LiteralValue(b, Element(i))
        breaks == \E i \in DOMAIN e.subs :
                      \/ Element(i).op = "unpack"
                      \/ Element(i).op = "name" /\ SetLike(e) /\ ~Hashable(x)
    IN  IF breaks THEN [calls \in Nat |-> Failed(calls)]
        ELSE Always([type |-> Kind(e), val |-> 0, wrapped |-> FALSE, items |-> {Item(i) : i \in DOMAIN e.subs}])

\* What node n comes to, from what the nodes below it come to.
Comes(b, x, below, n) ==
    LET e == b[n]
        Sub(i) == below[e.subs[i]]
    IN  CASE e.op = "const"          -> Always(e.value)
          [] e.op = "minus"          -> Always(LiteralValue(b, e))
          [] e.op = "name"           -> Always(x)
          [] e.op = "pop"            -> Popped
          [] e.op \in {"or", "and"}  -> Shortcut(e.op = "or", [i \in 1..Len(e.subs) |-> Sub(i)])
          [] e.op = "tests"          -> Shortcut(e.ops[1] = "or",
                                                 [i \in 1..Len(e.subs) - 1 |-> Binary(e.ops[2], Sub(1), Sub(i + 1))])
          [] IsContainer(e)          -> Collected(b, e, x)
          [] IsSingle(e)             -> Binary(e.ops[1], Sub(1), Sub(2))
          [] e.op = "compare" /\ Len(e.ops) = 2 -> Chained(e.ops[1], e.ops[2], Sub(1), Sub(2), Sub(3))
          [] e.op = "helper" /\ e.arg = "is"    -> Binary("unwrappedIs", Sub(1), Sub(2))
          [] e.op = "call" /\ e.arg = "map"     -> Unary("map", FALSE, Sub(2))
          [] e.op \in {"call", "helper"} /\ e.arg \notin {"map", "is"} /\ Len(e.subs) = 2 ->
                                        Binary(e.arg, Sub(1), Sub(2))
          [] e.op \in {"call", "helper"} /\ Len(e.subs) = 1 -> Unary(e.arg, e.op = "helper", Sub(1))
          [] OTHER                   -> [calls \in Nat |-> Failed(calls)]

Meaning(b, x) == LET below[n \in DOMAIN b] == Comes(b, x, below, n) IN below
Eval(b, x) == Meaning(b, x)[Len(b)][0]

-----------------------------------------------------------------------------
RewritingInit ==
    /\ counter = 0
    /\ registry = [p \in {} |-> NoChain]
    /\ compiled = [t \in Targets |-> NoTree]
    /\ tally = [rewritten |-> 0, skipped |-> 0]
    /\ last = NoRun
    /\ rewrites = 0

Fired(t) == {n \in DOMAIN Body(t) : IsRewritten(CallsRewritten[t], CallsRewritten[t][n])}
Skipped(t) == {n \in DOMAIN Body(t) : IsMembership(CallsRewritten[t][n])} \ Fired(t)

\* rewrite_target and _try_rewrite: a lambda is refused; a class is only noticed after
\* its tree was rewritten and registered, and then runs as it is.
Rewrite(t) ==
    /\ rewrites < MaxRewrites
    /\ IF Source[t].kind = "lambda"
       THEN UNCHANGED <<counter, registry, compiled, tally>>
       ELSE \E tree \in {Compiled(t, counter)} :
                /\ counter' = counter + Cardinality(Tagged(t))
                /\ Register(t, tree)
                /\ compiled' = [compiled EXCEPT ![t] = IF Source[t].kind = "class" THEN Body(t) ELSE tree]
                /\ tally' = [rewritten |-> tally.rewritten + Cardinality(Fired(t)),
                             skipped |-> tally.skipped + Cardinality(Skipped(t))]
    /\ last' = NoRun
    /\ rewrites' = rewrites + 1

Wrap(v) == [v EXCEPT !.wrapped = v.type \in {"int", "bool", "str", "text"}]

\* The target on a wrapped argument, and what the original does on the plain one; a class
\* is no target of runs here.  A run leaves nothing but this record behind, so one after
\* each rewriting is enough.
Run(t) ==
    /\ ~last.ran
    /\ compiled[t] # NoTree
    /\ Source[t].kind = "function"
    /\ \E v \in Arguments :
         last' = [ran |-> TRUE, target |-> t, argument |-> v,
                  got |-> Eval(compiled[t], Wrap(v)), expected |-> Eval(Body(t), v)]
    /\ UNCHANGED <<counter, registry, compiled, tally, rewrites>>

RewritingNext == \E t \in Targets : Rewrite(t) \/ Run(t)

RewritingSpec == RewritingInit /\ [][RewritingNext]_rewritingVars

-----------------------------------------------------------------------------
(* Properties *)

\* No call of pop() at a node or below it.
Quiet(b, n) ==
    \E S \in SUBSET DOMAIN b :
        n \in S /\ \A m \in S : b[m].op # "pop" /\ ToSet(b[m].subs) \subseteq S

\* A test whose left operand the rewritten code evaluates as often as the original, or
\* without a difference.
EvaluatedOnce(b, e) ==
    LET elements == Distinct(b, b[e.subs[2]])
    IN  \/ Len(elements) = 1
        \/ Len(elements) > 1 /\ Quiet(b, e.subs[1])
        \/ b[e.subs[1]].op \in {"name", "const", "minus"}

Lists(v, w) == v.type = "list" /\ w = [v EXCEPT !.type = "map"]

\* The same outcome, up to wrappers, and a list for the iterator over its members.
SameOutcome(r, s) ==
    /\ r.raised = s.raised
    /\ r.calls = s.calls
    /\ ~r.raised => Bare(r.val) = s.val \/ Lists(r.val, s.val)

\* Left out are operands with effects in a test of several elements and operands that do
\* anything in one of none; a value without a hash in a set or dict; map(int,) that is
\* not the whole target, or over anything but a numeral or a list of integers; and "is"
\* in a chain or with anything but a sentinel.
Ordinary(t, v) ==
    LET b == CallsRewritten[t]
        ExpandedMap(n) == b[n].op = "helper" /\ b[n].arg = "map"
        Identity(n) == b[n].op = "compare" /\ "is" \in ToSet(b[n].ops)
    IN  /\ \A n \in DOMAIN b : IsRewritten(b, b[n]) => EvaluatedOnce(b, b[n])
        /\ \/ Hashable(v) /\ \A i \in DOMAIN Supply : Hashable(Supply[i])
           \/ \A n \in DOMAIN b : ~SetLike(b[n])
        /\ \A n \in DOMAIN b : ExpandedMap(n) => n = Len(b) /\ Convertible(v)
        /\ \A n \in DOMAIN b : Identity(n) => Len(b[n].ops) = 1 /\ IsSentinel(b[b[n].subs[2]])

\* A test that compares strings only, or nothing that can be a wrapped string.
Kindred(b, e, v) ==
    LET elements == Distinct(b, b[e.subs[2]])
        left == b[e.subs[1]]
    IN  \/ \A i \in DOMAIN elements : IsText(LiteralValue(b, b[elements[i]]))
        \/ left.op = "name" /\ ~IsText(v)
        \/ left.op \in {"const", "minus", "pop", "compare"}
        \/ left.op \in {"call", "helper"} /\ left.arg # "str"

\* Left out as well are tests where a wrapped string may meet a literal that is none:
\* there the rewritten target raises and the original does not.
Comparable(t, v) ==
    LET b == CallsRewritten[t]
    IN  Ordinary(t, v) /\ \A n \in DOMAIN b : IsRewritten(b, b[n]) => Kindred(b, b[n], v)

\* The rewritten target on wrapped arguments does what the original does on plain
\* ones: the same result or failure, and the same calls with effects
\* (rewrite_target).
SameResult ==
    last.ran /\ Comparable(last.target, last.argument) => SameOutcome(last.got, last.expected)

\* The nodes of the tree of a target that the walk comes across.
Reached(t) == {n \in DOMAIN Body(t) : Visits[t][n] # 0}

\* A comparison inside the left operand of a test of several elements.
MovesTests(t) ==
    \E n \in DOMAIN Body(t) : Body(t)[n].op = "compare" /\ Visits[t][n] \notin {0, 1}

Functions == {t \in Targets : compiled[t] # NoTree /\ Source[t].kind = "function"}

\* A chain id belongs to one membership test, of one function, and the site of each
\* of its equalities finds that id when the target runs
\* (_register_chain_positions, _chain_id_for_compare_site), as long as no test has
\* moved to other lines.
ChainsTrue ==
    (\A t \in Targets : compiled[t] # NoTree => ~MovesTests(t)) =>
        \A t \in Functions : \A n \in Reached(t) :
            LET e == compiled[t][n]
            IN  /\ e.op = "tests" => registry[Position(e)] = e.chain
                /\ e.op = "compare" => Position(e) \notin DOMAIN registry
                /\ e.chain # NoChain =>
                     \A u \in Functions : \A m \in Reached(u) :
                         compiled[u][m].chain = e.chain => t = u /\ n = m

\* A node of the rewritten target stands in the line where its source stands.
InPlace(t, n) ==
    LET e == compiled[t][n]
    IN  \E m \in DOMAIN Body(t) : InFile(t, m) = e.line /\ Body(t)[m].col = e.col

\* Lines are those of the file, so a line event is credited to the line that ran
\* ("preserving line numbers for sys.settrace", rewrite_target).
LinesPreserved ==
    \A t \in Functions : \A n \in Reached(t) : InPlace(t, n)

=============================================================================
