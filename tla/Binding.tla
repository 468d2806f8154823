------------------------------ MODULE Binding ------------------------------
(***************************************************************************)
(* Arguments between two attempts: the binding table of leaves, the model   *)
(* written back into nested arguments, the wrapping of leaves, and the call *)
(* (engine/binding.py, utils/concolic_converter.py, utils/call_binding.py,  *)
(* and the lines of engine.py that pass arguments on).                      *)
(*                                                                          *)
(* Arguments are values in a heap, because what matters is who else holds   *)
(* the container a write goes to.  A dict, a list and an object with        *)
(* attributes are sequences of cells; the keys of a dict are positions.     *)
(***************************************************************************)
EXTENDS Integers, Sequences, FiniteSets, FiniteSetsExt, SequencesExt

CONSTANTS Names,        \* of parameters
          Signature,    \* parameters of the target: [name, positional, callable]
          Templates,    \* [heap, args, order, seeds]: what an exploration may start from,
                        \* the names of args in the order of the dict
          Numbers,      \* values a solver may choose
          MaxAttempts,  \* attempts in one exploration
          MaxWrites     \* writes of the target in one attempt

VARIABLES heap,      \* containers, by identity
          initial,   \* initial_args
          binding,   \* the table: a sequence of leaves, a leaf's variable is its number
          queue,     \* seeds not tried yet
          given,     \* arguments of the attempt
          concolic,  \* the same with wrapped leaves
          bound,     \* what the parameters of the target hold
          records,   \* attempts made, with what was given at the time (history)
          model,     \* model the attempt was made from, or NoModel (history)
          origin,    \* heap and arguments exploration started from, with the seeds (history)
          writes,    \* writes of the target in this attempt
          pc

vars == <<heap, initial, binding, queue, given, concolic, bound, records, model, origin, writes, pc>>

Sorts == {"Int", "String"}
NoSymbol == 0
NoModel == <<>>

Value(sort, val) == [sort |-> sort, val |-> val, sym |-> NoSymbol]
Ref(id) == Value("ref", id)
Default == Value("default", 0)
Raised == Value("raised", 0)

IsRef(v) == v.sort = "ref"
Object(h, v) == h[v.val]

Values == [sort : Sorts \cup {"None", "function", "ref", "default", "raised"}, val : Int, sym : Nat]
Containers == [kind : {"dict", "list", "tuple", "opaque"}, cells : Seq(Values)]

\* A value that stands for a container of h, if for any.
In(h, v) == IsRef(v) => v.val \in DOMAIN h

Heaps == {h \in Seq(Containers) : \A id \in DOMAIN h : \A c \in DOMAIN h[id].cells : In(h, h[id].cells[c])}

\* What a call may be given: values for some of the names.
GivenIn(h, args) ==
    /\ DOMAIN args \subseteq Names /\ args \in [DOMAIN args -> Values]
    /\ \A p \in DOMAIN args : In(h, args[p])

ASSUME BindingAssumption ==
    /\ \A i \in DOMAIN Signature : Signature[i].name \in Names
    /\ \A i, j \in DOMAIN Signature : Signature[i].name = Signature[j].name => i = j
    /\ Len(Signature) \in Nat /\ DOMAIN Signature = 1..Len(Signature)
    /\ \A t \in Templates :
         /\ t.heap \in Heaps
         /\ t.seeds \in Seq(ToSet(t.seeds))
         /\ \A args \in {t.args} \cup ToSet(t.seeds) : GivenIn(t.heap, args)
         /\ \A id \in DOMAIN t.heap : \A c \in DOMAIN t.heap[id].cells :
              t.heap[id].cells[c].sym = NoSymbol
         /\ \A args \in {t.args} \cup ToSet(t.seeds) : \A p \in DOMAIN args : args[p].sym = NoSymbol
         /\ Len(t.order) \in Nat /\ DOMAIN t.order = 1..Len(t.order)
         /\ \A i, j \in DOMAIN t.order : t.order[i] = t.order[j] => i = j
         /\ ToSet(t.order) = DOMAIN t.args
         /\ DOMAIN t.args \subseteq {Signature[i].name : i \in DOMAIN Signature}
    /\ Numbers \subseteq Int
    /\ MaxAttempts \in Nat /\ MaxWrites \in Nat

\* What the cells of a container are reached by.
Access(kind) == IF kind = "dict" THEN "key" ELSE "index"

-----------------------------------------------------------------------------
(* The heap *)

\* The containers that those in ids hold.
HeldBy(h, ids) == {v.val : v \in {w \in UNION {ToSet(h[i].cells) : i \in ids} : IsRef(w)}}

ReachFrom(h, ids) ==
    LET within[n \in 0..Len(h)] ==
            IF n = 0 THEN ids
            ELSE LET closer == within[n - 1] IN closer \cup HeldBy(h, closer)
    IN  within[Len(h)]

Reach(h, v) == IF IsRef(v) THEN ReachFrom(h, {v.val}) ELSE {}

\* _is_copyable
IsCopyable(h, v) == \A i \in Reach(h, v) : h[i].kind # "opaque"

\* copy.deepcopy: one new container for each one reached, sharing and cycles kept.
DeepCopy(h, v) ==
    LET old == SetToSeq(Reach(h, v))
        Moved(w) == IF IsRef(w) THEN Ref(Len(h) + CHOOSE k \in DOMAIN old : old[k] = w.val) ELSE w
    IN  [heap  |-> h \o [k \in DOMAIN old |->
                           [h[old[k]] EXCEPT !.cells = [c \in DOMAIN @ |-> Moved(@[c])]]],
         value |-> Moved(v)]

\* A value as == sees it, when what is in containers is told apart as below says.
Within(below, v) == IF IsRef(v) THEN below[v.val] ELSE v
Opened(h, below) ==
    [id \in DOMAIN h |-> [h[id] EXCEPT !.cells = [c \in DOMAIN @ |-> Within(below, @[c])]]]

\* Containers in containers in containers; what is still deeper is told apart by identity.
Tree(h, v) == Within(Opened(h, Opened(h, Opened(h, [id \in DOMAIN h |-> Ref(id)]))), v)
Trees(h, args) == [p \in DOMAIN args |-> Tree(h, args[p])]

-----------------------------------------------------------------------------
(* The table *)

Segments == [by : {"key", "index"}, at : Nat]

\* _children
Children(h, found) ==
    LET o == Object(h, found.value)
    IN  [c \in DOMAIN o.cells |->
           [value |-> o.cells[c],
            route |-> Append(found.route, [by |-> Access(o.kind), at |-> c]),
            seen  |-> found.seen \cup {found.value.val}]]

\* A container already on the way to itself is not entered again.
Entered(h, found) ==
    IF found.value.sort \in Sorts THEN <<found>>
    ELSE IF ~IsRef(found.value) \/ found.value.val \in found.seen THEN <<>>
    ELSE Children(h, found)

\* _walk, a container deeper at each turn, until only primitives are left.
Walk(h, v) ==
    LET walked[n \in 0..Len(h) + 1] ==
            IF n = 0 THEN << [value |-> v, route |-> <<>>, seen |-> {}] >>
            ELSE LET before == walked[n - 1]
                 IN  FlattenSeq([i \in DOMAIN before |-> Entered(h, before[i])])
    IN  walked[Len(h) + 1]

LeavesOf(h, p, v) ==
    LET found == Walk(h, v)
    IN  [i \in DOMAIN found |-> [param |-> p, route |-> found[i].route, sort |-> found[i].value.sort]]

BuildBinding__KeepsUncopyable(h, args, order) ==
    FlattenSeq([i \in 1..Len(order) |-> LeavesOf(h, order[i], args[order[i]])])

\* The parameters in the order they are given in; one that cannot be copied stays concrete.
BuildBinding(h, args, order) ==
    FlattenSeq([i \in 1..Len(order) |->
        LET p == order[i]
        IN  IF IsCopyable(h, args[p]) THEN LeavesOf(h, p, args[p]) ELSE <<>>])

Touched == {binding[i].param : i \in 1..Len(binding)}

-----------------------------------------------------------------------------
(* Reading and writing at a route *)

Step(h, v, segment) ==
    IF ~IsRef(v) THEN Raised
    ELSE LET o == Object(h, v)
         IN  IF o.kind = "opaque" \/ Access(o.kind) # segment.by \/ segment.at \notin DOMAIN o.cells
             THEN Raised ELSE o.cells[segment.at]

Descend(h, v, route) ==
    LET at[n \in 0..Len(route)] == IF n = 0 THEN v ELSE Step(h, at[n - 1], route[n])
    IN  at[Len(route)]

\* _read
Get(h, args, leaf) ==
    IF leaf.param \in DOMAIN args THEN Descend(h, args[leaf.param], leaf.route) ELSE Raised

\* _write: a tuple refuses the assignment.
Put(at, leaf, v) ==
    IF leaf.route = <<>> THEN [at EXCEPT !.args[leaf.param] = v]
    ELSE LET holder == Descend(at.heap, at.args[leaf.param], Front(leaf.route))
             cell == Last(leaf.route).at
         IN  IF ~IsRef(holder) \/ Object(at.heap, holder).kind = "tuple" THEN Raised
             ELSE [at EXCEPT !.heap[holder.val].cells[cell] = v]

CopyParameter(at, p) ==
    IF at = Raised \/ p \notin Touched \cap DOMAIN at.args THEN at
    ELSE IF ~IsCopyable(at.heap, at.args[p]) THEN Raised
    ELSE LET copied == DeepCopy(at.heap, at.args[p])
         IN  [heap |-> copied.heap, args |-> [at.args EXCEPT ![p] = copied.value]]

CopyTouched__InPlace(h, args) == [heap |-> h, args |-> args]

\* _rebuild: parameters with leaves are copied before any leaf is written.
CopyTouched(h, args) ==
    LET copied[i \in 0..Len(Signature)] ==
            IF i = 0 THEN [heap |-> h, args |-> args]
            ELSE CopyParameter(copied[i - 1], Signature[i].name)
    IN  copied[Len(Signature)]

\* A leaf the model does not mention keeps its value.
ApplyTo(at, i, m) ==
    IF at = Raised \/ Get(at.heap, at.args, binding[i]) = Raised THEN Raised
    ELSE Put(at, binding[i], IF i \in DOMAIN m THEN m[i] ELSE Get(at.heap, at.args, binding[i]))

\* apply_model
ApplyModel(h, args, m) ==
    LET written[i \in 0..Len(binding)] ==
            IF i = 0 THEN CopyTouched(h, args) ELSE ApplyTo(written[i - 1], i, m)
    IN  written[Len(binding)]

IsList(h, v) == IsRef(v) /\ Object(h, v).kind = "list"

Named__Again(v, i) == IF v.sort \in Sorts THEN [v EXCEPT !.sym = i] ELSE v

\* Only plain values are named: what is wrapped already is of another type.
Named(v, i) == IF v.sort \in Sorts /\ v.sym = NoSymbol THEN [v EXCEPT !.sym = i] ELSE v

\* The lists directly in a list, each with the way to it.
ListsIn(h, found) ==
    LET cells == h[found.list].cells
    IN  {[way |-> Append(found.way, c), list |-> cells[c].val]
           : c \in {d \in DOMAIN cells : IsList(h, cells[d])}}

\* The lists n deep; with one that holds itself there are some at every depth.
ListsAt(h, v) ==
    LET deep[n \in 0..Len(h)] ==
            IF n = 0 THEN {[way |-> <<>>, list |-> v.val]}
            ELSE UNION {ListsIn(h, found) : found \in deep[n - 1]}
    IN  deep

Endless(h, v) == ListsAt(h, v)[Len(h)] # {}

\* A new list for each way to a list, so sharing is lost; the items that are not lists
\* all get the name of the leaf.
WrappedList(h, v, i) ==
    LET old == SetToSeq(UNION {ListsAt(h, v)[n] : n \in 0..Len(h)})
        To(way) == Ref(Len(h) + CHOOSE k \in DOMAIN old : old[k].way = way)
        Item(k, c) ==
            LET w == h[old[k].list].cells[c]
            IN  IF IsList(h, w) THEN To(Append(old[k].way, c)) ELSE Named(w, i)
    IN  [heap  |-> h \o [k \in DOMAIN old |->
                           [kind  |-> "list",
                            cells |-> [c \in DOMAIN h[old[k].list].cells |-> Item(k, c)]]],
         value |-> To(<<>>)]

\* wrap_concolic; a list that holds itself is a RecursionError.
WrapAt(at, leaf, i, v) ==
    IF ~IsList(at.heap, v) THEN Put(at, leaf, Named(v, i))
    ELSE IF Endless(at.heap, v) THEN Raised
    ELSE LET wrapped == WrappedList(at.heap, v, i)
         IN  Put([at EXCEPT !.heap = wrapped.heap], leaf, wrapped.value)

WrapLeaf(at, i) ==
    IF at = Raised \/ Get(at.heap, at.args, binding[i]) = Raised THEN Raised
    ELSE WrapAt(at, binding[i], i, Get(at.heap, at.args, binding[i]))

\* wrap_leaves
WrapLeaves(h, args) ==
    LET wrapped[i \in 0..Len(binding)] ==
            IF i = 0 THEN CopyTouched(h, args) ELSE WrapLeaf(wrapped[i - 1], i)
    IN  wrapped[Len(binding)]

-----------------------------------------------------------------------------
(* The call *)

Drops(param, v) == param.callable /\ v.sort # "function"

Reaches(args, i) ==
    Signature[i].name \in DOMAIN args /\ ~Drops(Signature[i], args[Signature[i].name])

Rank(places, i) == Cardinality({j \in places : j <= i})

\* _split_args and the call: positional-only values fill the first slots there are.
SplitArgs(args) ==
    LET slots == {i \in 1..Len(Signature) : Signature[i].positional}
        filling == {i \in slots : Reaches(args, i)}
        Sources(i) ==
            IF i \in slots THEN {j \in filling : Rank(filling, j) = Rank(slots, i)}
            ELSE {j \in {i} : Reaches(args, j)}
        ValueAt(i) ==
            IF Sources(i) = {} THEN Default
            ELSE args[Signature[CHOOSE j \in Sources(i) : TRUE].name]
    IN  [i \in 1..Len(Signature) |-> ValueAt(i)]

-----------------------------------------------------------------------------
Init ==
    /\ \E t \in Templates :
         /\ heap = t.heap
         /\ initial = t.args
         /\ queue = << t.args >> \o t.seeds
         /\ binding = BuildBinding(t.heap, t.args, t.order)
         /\ origin = [heap |-> t.heap, args |-> t.args, starts |-> {t.args} \cup ToSet(t.seeds)]
    /\ given = <<>> /\ concolic = <<>> /\ bound = <<>>
    /\ records = <<>>
    /\ model = NoModel
    /\ writes = 0
    /\ pc = "next"

\* has_seen_args compares with the arguments as the records hold them now.
Seen(h, args) == \E i \in 1..Len(records) : Trees(h, records[i].args) = Trees(h, args)

PopQueue ==
    /\ pc = "next" /\ queue # <<>> /\ Len(records) < MaxAttempts
    /\ queue' = Tail(queue)
    /\ model' = NoModel
    /\ IF Seen(heap, Head(queue)) THEN UNCHANGED <<given, pc>>
       ELSE given' = Head(queue) /\ pc' = "given"
    /\ UNCHANGED <<heap, initial, binding, concolic, bound, records, origin, writes>>

\* A condition was recorded, so some attempt got as far as the target.
CanSolve == queue = <<>> /\ \E i \in 1..Len(records) : records[i].outcome = "ran"

\* The solver names every variable, or those printed before its time was up.
Models ==
    LET Choice(i) == {Value(binding[i].sort, n) : n \in Numbers}
    IN  UNION {{m \in [1..k -> UNION {Choice(i) : i \in 1..k}] : \A i \in 1..k : m[i] \in Choice(i)}
                 : k \in 1..Len(binding)}

\* _solve: the model goes onto the initial arguments.
Solve ==
    /\ pc = "next" /\ CanSolve /\ Len(records) < MaxAttempts
    /\ \E m \in Models :
         LET made == ApplyModel(heap, initial, m)
         IN  IF made = Raised
             THEN pc' = "raised" /\ model' = m /\ UNCHANGED <<heap, given>>
             ELSE IF Seen(made.heap, made.args)
             THEN UNCHANGED <<heap, given, model, pc>>
             ELSE heap' = made.heap /\ given' = made.args /\ model' = m /\ pc' = "given"
    /\ UNCHANGED <<initial, binding, queue, concolic, bound, records, origin, writes>>

\* A resolver's answer replaces whole parameters of the initial arguments.
Resolve ==
    /\ pc = "next" /\ CanSolve /\ Len(records) < MaxAttempts
    /\ \E p \in DOMAIN initial, v \in {Value("Int", n) : n \in Numbers} \cup {Value("None", 0)} :
         LET merged == [initial EXCEPT ![p] = v]
         IN  ~Seen(heap, merged) /\ given' = merged
    /\ model' = NoModel
    /\ pc' = "given"
    /\ UNCHANGED <<heap, initial, binding, queue, concolic, bound, records, origin, writes>>

Record(outcome) ==
    records' = Append(records, [args |-> given, was |-> Trees(heap, given),
                                from |-> IF model = NoModel THEN "other" ELSE "solver",
                                outcome |-> outcome])

\* _run_iteration: a failure to wrap ends the attempt and is the engine's, not the
\* target's.
Attempt ==
    /\ pc = "given"
    /\ LET wrapped == WrapLeaves(heap, given)
       IN  IF wrapped = Raised
           THEN /\ Record("harness")
                /\ pc' = "next"
                /\ UNCHANGED <<heap, concolic, bound>>
           ELSE /\ Record("ran")
                /\ heap' = wrapped.heap
                /\ concolic' = wrapped.args
                /\ bound' = SplitArgs(wrapped.args)
                /\ pc' = "running"
    /\ writes' = 0
    /\ UNCHANGED <<initial, binding, queue, given, model, origin>>

\* The target may write any cell it can reach, or drop the last one.
TargetWrites ==
    /\ pc = "running" /\ writes < MaxWrites
    /\ \E i \in 1..Len(bound) : \E id \in Reach(heap, bound[i]) :
         /\ heap[id].kind \in {"list", "dict"}
         /\ \/ \E c \in DOMAIN heap[id].cells :
                 heap' = [heap EXCEPT ![id].cells[c] = Value("String", 7)]
            \/ /\ heap[id].kind = "list"
               /\ heap' = [heap EXCEPT ![id].cells = Append(@, Value("String", 7))]
            \/ /\ heap[id].cells # <<>>
               /\ heap' = [heap EXCEPT ![id].cells = Front(@)]
    /\ writes' = writes + 1
    /\ UNCHANGED <<initial, binding, queue, given, concolic, bound, records, model, origin, pc>>

\* Containers nobody holds any more are gone.
Collected(h) ==
    LET held == {initial} \cup ToSet(queue) \cup {records[i].args : i \in 1..Len(records)}
        live == UNION {UNION {Reach(h, args[p]) : p \in DOMAIN args} : args \in held}
    IN  [id \in 1..Max(live \cup {0}) |->
           IF id \in live THEN h[id] ELSE [kind |-> "opaque", cells |-> <<>>]]

TargetReturns ==
    /\ pc = "running"
    /\ heap' = Collected(heap)
    /\ given' = <<>> /\ concolic' = <<>> /\ bound' = <<>>
    /\ model' = NoModel
    /\ pc' = "next"
    /\ UNCHANGED <<initial, binding, queue, records, origin, writes>>

Next ==
    \/ PopQueue
    \/ Solve
    \/ Resolve
    \/ Attempt
    \/ TargetWrites
    \/ TargetReturns

Spec == Init /\ [][Next]_vars

-----------------------------------------------------------------------------
(* Properties *)

\* The containers that p holds in what exploration started from.
StartReach(p) ==
    UNION {Reach(origin.heap, args[p]) : args \in {a \in origin.starts : p \in DOMAIN a}}

\* No parameter passed by reference holds a container of p.
Private(p) == \A q \in Names \ Touched : StartReach(p) \cap StartReach(q) = {}

\* Two leaves in one cell are one place: the last of them that a model names gives it
\* its value, and the first gives it its variable, being wrapped only once.
Cell(i) ==
    LET leaf == binding[i]
    IN  IF leaf.route = <<>> THEN <<leaf.param>>
        ELSE <<Descend(origin.heap, origin.args[leaf.param], Front(leaf.route)).val, Last(leaf.route).at,
               leaf.param>>
SameCell(i) == {j \in 1..Len(binding) : Cell(j) = Cell(i)}

\* Records go on showing the arguments that were run, whatever targets write into
\* what they were passed (InputRecord.args, _rebuild).  A parameter without a leaf is
\* passed by reference and left out.
RecordsShowInputs ==
    \A k \in 1..Len(records) : \A p \in DOMAIN records[k].args \cap Touched :
        Private(p) => Tree(heap, records[k].args[p]) = records[k].was[p]

\* An input made from a model has the model's values at its leaves, and everywhere
\* else what exploration started from, however many attempts lie between
\* (apply_model, _solve).
ModelLands ==
    pc = "given" /\ model # NoModel =>
        \A i \in 1..Len(binding) : Private(binding[i].param) =>
            LET named == SameCell(i) \cap DOMAIN model
            IN  Get(heap, given, binding[i])
                  = IF named = {} THEN Get(origin.heap, origin.args, binding[i])
                    ELSE model[Max(named)]

\* A positional-only parameter left out before one that is given.
Gap(args) ==
    \E i, j \in 1..Len(Signature) :
        i < j /\ Signature[i].positional /\ Signature[j].positional
              /\ ~Reaches(args, i) /\ Reaches(args, j)

\* The parameter of the target that a leaf is in, and what the target finds there.
Slot(i) == CHOOSE n \in 1..Len(Signature) : Signature[n].name = binding[i].param
Shown(i) == Descend(heap, bound[Slot(i)], binding[i].route)

\* Every place of the table is shown to the target under the first of its variables,
\* with the value that the last of them has in the model, so where a place has one
\* variable the condition that was to be flipped is evaluated on the flipped value
\* (apply_model, wrap_leaves, call_with_args).  Where a positional-only parameter is
\* left out before another, the values behind it shift; what is dropped for its
\* annotation is not shown at all.
SymbolsMatchModel ==
    pc = "running" /\ writes = 0 /\ model # NoModel /\ ~Gap(concolic) =>
        \A i \in 1..Len(binding) : Private(binding[i].param) /\ Reaches(concolic, Slot(i)) =>
            LET named == SameCell(i) \cap DOMAIN model
            IN  /\ Shown(i).sym = Min(SameCell(i))
                /\ Shown(i).sort = binding[i].sort
                /\ named # {} => Shown(i).val = model[Max(named)].val

Conforms(k) == records[k].from = "solver" \/ k = 1

\* The table is only as large as what can be written on every attempt ("rather than
\* raising on every iteration", build_binding): the initial arguments and those made
\* from models reach the target.
TableWritable ==
    /\ pc # "raised"
    /\ \A k \in 1..Len(records) : Conforms(k) => records[k].outcome = "ran"

InTuple(i) ==
    /\ binding[i].route # <<>>
    /\ LET holder == Descend(origin.heap, origin.args[binding[i].param], Front(binding[i].route))
       IN  Object(origin.heap, holder).kind = "tuple"

\* The same without leaves in tuples.
WritableButTuples ==
    /\ \A i \in 1..Len(binding) : ~InTuple(i) /\ Private(binding[i].param)
    => TableWritable

=============================================================================
