------------------------------ MODULE PathTree ------------------------------
(***************************************************************************)
(* The path-constraint tree that one exploration builds while the target   *)
(* runs: PathConstraintTracker.add_branch, Constraint, ConstraintRegistry, *)
(* the pool engine.constraints_to_solve, and the two things that touch the *)
(* tree from outside: the line tracer's TimeoutError, which can unwind     *)
(* add_branch at any of its lines, and the constraint optimizer, which     *)
(* replaces the expression of a node already in the tree.                  *)
(*                                                                         *)
(* add_branch runs inside ConcolicBool.__bool__, in the traced target      *)
(* frame, so each of its effects is a step of its own here.  Constraint    *)
(* ids start at 1 (the root); 0 stands for Python's None.                  *)
(***************************************************************************)
EXTENDS Integers, Sequences, FiniteSets

CONSTANTS
    Exprs,          \* symbolic expressions a condition can carry
    Chains,         \* or-chain ids the membership rewrite hands out
    NoChain,        \* chain_id = None
    NoExpr,         \* the root's predicate = None
    Conditions,     \* the target's ConcolicBool conditions
    Rewritable,     \* expressions for which an optimizer rule fires
    Interrupts,     \* TRUE: a deadline can pass while the target runs
    MaxConstraints, \* bound: nodes in the registry
    MaxDepth        \* bound: decisions in one execution

ASSUME ConditionsAssumption ==
    /\ Conditions \subseteq [expr : Exprs, chain : Chains \cup {NoChain}]
    /\ NoExpr \notin Exprs
    /\ NoChain \notin Chains
    /\ Rewritable \subseteq Exprs
    /\ Interrupts \in BOOLEAN

ASSUME BoundsAssumption == MaxConstraints \in Nat /\ MaxDepth \in Nat

VARIABLES
    registry,   \* ConstraintRegistry._constraints: parent_id, predicate, depth
    children,   \* Constraint.children_ids of each registered node
    chain,      \* Constraint.chain_id of each registered node
    processed,  \* ids whose Constraint.processed flag is set
    rewritten,  \* ids whose predicate.expr the optimizer has replaced
    pool,       \* engine.constraints_to_solve
    current,    \* PathConstraintTracker.current_constraint
    pc,         \* the line add_branch is about to run, or where the run is
    branch,     \* add_branch's locals
    traced,     \* the line tracer is still installed for this execution
    decisions,  \* history: the condition values the target was given
    dropped     \* history: ids discarded by a plateau's pool clear

vars == <<registry, children, chain, processed, rewritten, pool, current,
          pc, branch, traced, decisions, dropped>>

tree == <<registry, children, chain, processed, rewritten>>

Root == 1
Ids  == 1 .. Len(registry)

Decision == [expr : Exprs, value : BOOLEAN]
NoBranch == [expr |-> NoExpr, value |-> FALSE, chain |-> NoChain,
             taken |-> 0, alternative |-> 0]

(***************************************************************************)
(* Where the single thread is.  The pcs of Creating are the lines of       *)
(* _create_new_branch and add_child between two effects.                   *)
(***************************************************************************)
Creating == {"register_taken", "link_taken", "mark_taken",
             "register_alternative", "link_alternative", "enqueue"}
Branching == Creating \cup {"tag_alternative", "tag_taken", "advance", "deliver"}
PCs == Branching \cup {"idle", "run", "inconsistent", "unwinding"}

-----------------------------------------------------------------------------
(* Constraint.find_child: the first child whose predicate is equal, 0 for  *)
(* None.  A replaced expression is no longer equal to the one the target   *)
(* computes.                                                               *)
Matches(id, expr, value) ==
    /\ registry[id].expr = expr
    /\ registry[id].value = value
    /\ id \notin rewritten

FindChild(node, expr, value) ==
    LET hits == {i \in DOMAIN children[node] : Matches(children[node][i], expr, value)}
    IN  IF hits = {} THEN 0
        ELSE children[node][CHOOSE i \in hits : \A j \in hits : i <= j]

(* Constraint.__init__: a fresh entry at the end of the registry.          *)
Register(expr, value) ==
    /\ registry' = Append(registry, [parent |-> current, expr |-> expr,
                                     value |-> value,
                                     depth |-> registry[current].depth + 1])
    /\ children' = Append(children, <<>>)
    /\ chain' = Append(chain, NoChain)

(* The tail of Constraint.add_child. *)
Link(id) == children' = [children EXCEPT ![current] = Append(@, id)]

Init ==
    /\ registry = <<[parent |-> 0, expr |-> NoExpr, value |-> FALSE, depth |-> 0]>>
    /\ children = << <<>> >>
    /\ chain = <<NoChain>>
    /\ processed = {}
    /\ rewritten = {}
    /\ pool = <<>>
    /\ current = Root
    /\ pc = "idle"
    /\ branch = NoBranch
    /\ traced = FALSE
    /\ decisions = <<>>
    /\ dropped = {}

-----------------------------------------------------------------------------
(* Definitions whose name contains a double underscore are faulty variants *)
(* of the definition they are named after: no behaviour of the             *)
(* specification uses them; they show that a property can fail.            *)
Reset__KeepsCurrent ==
    /\ pc = "idle"
    /\ pc' = "run"
    /\ traced' = TRUE
    /\ decisions' = <<>>
    /\ UNCHANGED <<tree, pool, current, branch, dropped>>

(* An execution starts: path.reset and the tracer being installed.         *)
Reset ==
    /\ pc = "idle"
    /\ pc' = "run"
    /\ current' = Root
    /\ traced' = TRUE
    /\ decisions' = <<>>
    /\ UNCHANGED <<tree, pool, branch, dropped>>

(* The target evaluates condition c, whose concrete value is v.            *)
(* _get_or_create_branch looks both predicates up at the current node.     *)
Evaluates(c, v) ==
    /\ pc = "run"
    /\ Len(decisions) < MaxDepth
    /\ branch' = [expr |-> c.expr, value |-> v, chain |-> c.chain,
                  taken |-> FindChild(current, c.expr, v),
                  alternative |-> FindChild(current, c.expr, ~v)]
    /\ UNCHANGED <<registry, children, chain, rewritten, pool, current,
                   traced, decisions, dropped>>

BranchNew__OneSideIsEnough(c, v) ==
    /\ Evaluates(c, v)
    /\ branch'.taken = 0 \/ branch'.alternative = 0
    /\ Len(registry) + 2 <= MaxConstraints
    /\ pc' = "register_taken"
    /\ UNCHANGED processed

BranchNew(c, v) ==
    /\ Evaluates(c, v)
    /\ branch'.taken = 0 /\ branch'.alternative = 0
    /\ Len(registry) + 2 <= MaxConstraints
    /\ pc' = "register_taken"
    /\ UNCHANGED processed

AfterLookup(ch) == IF ch = NoChain THEN "advance" ELSE "tag_alternative"

BranchKnown(c, v) ==
    /\ Evaluates(c, v)
    /\ branch'.taken # 0 /\ branch'.alternative # 0
    /\ pc' = AfterLookup(c.chain)
    /\ UNCHANGED processed

(* raise PathConstraintError("... only one branch child exists"): its      *)
(* message formats the child found, and Constraint.__str__ asks for the    *)
(* child's path predicates, which marks it processed.                      *)
BranchInconsistent(c, v) ==
    /\ Evaluates(c, v)
    /\ (branch'.taken = 0) # (branch'.alternative = 0)
    /\ processed' = processed \cup ({branch'.taken, branch'.alternative} \ {0})
    /\ pc' = "inconsistent"

RegisterTaken__IdAfterAppend ==
    /\ pc = "register_taken"
    /\ Register(branch.expr, branch.value)
    /\ branch' = [branch EXCEPT !.taken = Len(registry')  + 1]
    /\ pc' = "link_taken"
    /\ UNCHANGED <<processed, rewritten, pool, current, traced, decisions, dropped>>

RegisterTaken ==
    /\ pc = "register_taken"
    /\ Register(branch.expr, branch.value)
    /\ branch' = [branch EXCEPT !.taken = Len(registry) + 1]
    /\ pc' = "link_taken"
    /\ UNCHANGED <<processed, rewritten, pool, current, traced, decisions, dropped>>

LinkTaken ==
    /\ pc = "link_taken"
    /\ Link(branch.taken)
    /\ pc' = "mark_taken"
    /\ UNCHANGED <<registry, chain, processed, rewritten, pool, current,
                   branch, traced, decisions, dropped>>

MarkTaken ==
    /\ pc = "mark_taken"
    /\ processed' = processed \cup {branch.taken}
    /\ pc' = "register_alternative"
    /\ UNCHANGED <<registry, children, chain, rewritten, pool, current,
                   branch, traced, decisions, dropped>>

RegisterAlternative__NotNegated ==
    /\ pc = "register_alternative"
    /\ Register(branch.expr, branch.value)
    /\ branch' = [branch EXCEPT !.alternative = Len(registry) + 1]
    /\ pc' = "link_alternative"
    /\ UNCHANGED <<processed, rewritten, pool, current, traced, decisions, dropped>>

RegisterAlternative ==
    /\ pc = "register_alternative"
    /\ Register(branch.expr, ~branch.value)
    /\ branch' = [branch EXCEPT !.alternative = Len(registry) + 1]
    /\ pc' = "link_alternative"
    /\ UNCHANGED <<processed, rewritten, pool, current, traced, decisions, dropped>>

LinkAlternative__UnderTaken ==
    /\ pc = "link_alternative"
    /\ children' = [children EXCEPT ![branch.taken] = Append(@, branch.alternative)]
    /\ pc' = "enqueue"
    /\ UNCHANGED <<registry, chain, processed, rewritten, pool, current,
                   branch, traced, decisions, dropped>>

LinkAlternative ==
    /\ pc = "link_alternative"
    /\ Link(branch.alternative)
    /\ pc' = "enqueue"
    /\ UNCHANGED <<registry, chain, processed, rewritten, pool, current,
                   branch, traced, decisions, dropped>>

Enqueue__Skipped ==
    /\ pc = "enqueue"
    /\ pc' = AfterLookup(branch.chain)
    /\ UNCHANGED <<tree, pool, current, branch, traced, decisions, dropped>>

Enqueue__Taken ==
    /\ pc = "enqueue"
    /\ pool' = Append(pool, branch.taken)
    /\ pc' = AfterLookup(branch.chain)
    /\ UNCHANGED <<tree, current, branch, traced, decisions, dropped>>

(* constraint_queue.append(negated_child) *)
Enqueue ==
    /\ pc = "enqueue"
    /\ pool' = Append(pool, branch.alternative)
    /\ pc' = AfterLookup(branch.chain)
    /\ UNCHANGED <<tree, current, branch, traced, decisions, dropped>>

Tag(id) == chain' = [chain EXCEPT ![id] = branch.chain]

TagAlternative ==
    /\ pc = "tag_alternative"
    /\ Tag(branch.alternative)
    /\ pc' = "tag_taken"
    /\ UNCHANGED <<registry, children, processed, rewritten, pool, current,
                   branch, traced, decisions, dropped>>

TagTaken__Skipped ==
    /\ pc = "tag_taken"
    /\ pc' = "advance"
    /\ UNCHANGED <<tree, pool, current, branch, traced, decisions, dropped>>

TagTaken ==
    /\ pc = "tag_taken"
    /\ Tag(branch.taken)
    /\ pc' = "advance"
    /\ UNCHANGED <<registry, children, processed, rewritten, pool, current,
                   branch, traced, decisions, dropped>>

Advance ==
    /\ pc = "advance"
    /\ current' = branch.taken
    /\ pc' = "deliver"
    /\ UNCHANGED <<tree, pool, branch, traced, decisions, dropped>>

(* __bool__ returns: only now does the target act on the value. *)
Deliver ==
    /\ pc = "deliver"
    /\ decisions' = Append(decisions, [expr |-> branch.expr, value |-> branch.value])
    /\ branch' = NoBranch
    /\ pc' = "run"
    /\ UNCHANGED <<tree, pool, current, traced, dropped>>

-----------------------------------------------------------------------------
(* The tracer raises TimeoutError before the next line of whatever frame   *)
(* is running.  CPython removes a trace function that raised, so this      *)
(* happens at most once per execution.                                     *)
Interrupt ==
    /\ Interrupts
    /\ traced
    /\ pc \in Branching \cup {"run"}
    /\ traced' = FALSE
    /\ branch' = NoBranch
    /\ pc' = "unwinding"
    /\ UNCHANGED <<tree, pool, current, decisions, dropped>>

(* An except clause of the target catches the exception and runs on. *)
Swallow ==
    /\ pc \in {"unwinding", "inconsistent"}
    /\ pc' = "run"
    /\ branch' = NoBranch
    /\ UNCHANGED <<tree, pool, current, traced, decisions, dropped>>

(* The target returned, or the exception reached _run_iteration. *)
Finish ==
    /\ pc \in {"run", "unwinding", "inconsistent"}
    /\ pc' = "idle"
    /\ branch' = NoBranch
    /\ traced' = FALSE
    /\ decisions' = <<>>
    /\ UNCHANGED <<tree, pool, current, dropped>>

Solve__Peeks(i) ==
    /\ pc = "idle"
    /\ processed' = processed \cup {pool[i]}
    /\ UNCHANGED <<registry, children, chain, rewritten, pool, current, pc,
                   branch, traced, decisions, dropped>>

(* Between executions the engine takes a constraint (the scheduler chooses *)
(* which), optimize() may replace its leaf expression, and building the    *)
(* formula marks it processed.                                             *)
Solve(i) ==
    /\ pc = "idle"
    /\ pool' = SubSeq(pool, 1, i - 1) \o SubSeq(pool, i + 1, Len(pool))
    /\ processed' = processed \cup {pool[i]}
    /\ rewritten' = IF registry[pool[i]].expr \in Rewritable
                    THEN rewritten \cup {pool[i]} ELSE rewritten
    /\ UNCHANGED <<registry, children, chain, current, pc, branch, traced,
                   decisions, dropped>>

(* handle_plateau: constraints_to_solve.clear() *)
ClearPool ==
    /\ pc = "idle"
    /\ pool # <<>>
    /\ dropped' = dropped \cup {pool[i] : i \in DOMAIN pool}
    /\ pool' = <<>>
    /\ UNCHANGED <<tree, current, pc, branch, traced, decisions>>

Next ==
    \/ Reset
    \/ \E c \in Conditions, v \in BOOLEAN :
          BranchNew(c, v) \/ BranchKnown(c, v) \/ BranchInconsistent(c, v)
    \/ RegisterTaken \/ LinkTaken \/ MarkTaken
    \/ RegisterAlternative \/ LinkAlternative \/ Enqueue
    \/ TagAlternative \/ TagTaken \/ Advance \/ Deliver
    \/ Interrupt \/ Swallow \/ Finish
    \/ \E i \in DOMAIN pool : Solve(i)
    \/ ClearPool

Spec == Init /\ [][Next]_vars

-----------------------------------------------------------------------------
(* TypeOK: every variable keeps its shape; in particular an id that any    *)
(* part of the engine holds is an entry of the registry, so that           *)
(* ConstraintRegistry.get never raises IndexError.                         *)
TypeOK ==
    /\ registry \in Seq([parent : Nat, expr : Exprs \cup {NoExpr},
                         value : BOOLEAN, depth : Nat])
    /\ Len(registry) >= 1
    /\ children \in Seq(Seq(Ids)) /\ Len(children) = Len(registry)
    /\ chain \in Seq(Chains \cup {NoChain}) /\ Len(chain) = Len(registry)
    /\ processed \subseteq Ids
    /\ rewritten \subseteq Ids
    /\ pool \in Seq(Ids)
    /\ current \in Ids
    /\ pc \in PCs
    /\ branch \in [expr : Exprs \cup {NoExpr}, value : BOOLEAN,
                   chain : Chains \cup {NoChain},
                   taken : Ids \cup {0}, alternative : Ids \cup {0}]
    /\ traced \in BOOLEAN
    /\ decisions \in Seq(Decision)
    /\ dropped \subseteq Ids

ChildrenOf(n) == {children[n][i] : i \in DOMAIN children[n]}
Pending       == {pool[i] : i \in DOMAIN pool}

(* Between branches the tree is at rest. *)
AtRest == pc \in {"idle", "run"}

(* The predicates from the root to each node: get_path_predicates, with    *)
(* the expressions the target computed (a replacement is equivalent).      *)
PathOf ==
    LET path[n \in Ids] ==
            IF registry[n].parent = 0 THEN <<>>
            ELSE Append(path[registry[n].parent],
                        [expr |-> registry[n].expr, value |-> registry[n].value])
    IN  path

(* TreeShape: whatever interrupts add_branch, a child's parent_id, depth   *)
(* and the parent's children_ids agree, and parents are older than their   *)
(* children, so the parent walks of get_path_predicates and                *)
(* get_path_constraints end at the root.                                   *)
TreeShape ==
    /\ registry[Root].parent = 0
    /\ \A n \in Ids \ {Root} : registry[n].parent \in 1 .. n - 1
    /\ \A n \in Ids : \A c \in ChildrenOf(n) :
          registry[c].parent = n /\ registry[c].depth = registry[n].depth + 1

(* SiblingsDistinct: a path is represented by one linked node: no node     *)
(* links two children for the same predicate, even when optimize() or an   *)
(* interrupt hid one of them from find_child.                              *)
SiblingsDistinct ==
    \A n \in Ids : \A i, j \in DOMAIN children[n] :
        i # j => \/ registry[children[n][i]].expr # registry[children[n][j]].expr
                 \/ registry[children[n][i]].value # registry[children[n][j]].value

(* PoolSound: every constraint waiting for the solver is waiting once, was *)
(* never solved, hangs in the tree, and is the flip of a branch that some  *)
(* execution took: this is what makes solving it a search for a new path.  *)
PoolSound ==
    /\ \A i, j \in DOMAIN pool : i # j => pool[i] # pool[j]
    /\ \A a \in Pending :
          /\ a \notin processed
          /\ registry[a].parent # 0
          /\ a \in ChildrenOf(registry[a].parent)
          /\ \E t \in ChildrenOf(registry[a].parent) \cap processed :
                /\ registry[t].expr = registry[a].expr
                /\ registry[t].value = ~registry[a].value

(* BranchesPaired: "Each branch point creates two children: one for the    *)
(* condition being true, one for false" (path.py:44): at rest, and as long *)
(* as optimize() has replaced no expression, find_child finds both or      *)
(* neither.                                                                *)
BranchesPaired ==
    AtRest /\ rewritten = {} => \A n \in Ids, e \in Exprs :
        (FindChild(n, e, TRUE) = 0) = (FindChild(n, e, FALSE) = 0)

(* NothingLost: at rest, each side of every branch was taken or solved, is *)
(* waiting in the pool, or was given up by a plateau.                      *)
NothingLost ==
    AtRest => \A n \in Ids \ {Root} : n \in processed \cup Pending \cup dropped

(* TagsAgree: at rest both sides of a branch carry the same or-chain tag,  *)
(* so flipping one is credited to the chain the other was taken under.     *)
TagsAgree ==
    AtRest => \A n \in Ids : \A a, b \in ChildrenOf(n) :
        registry[a].expr = registry[b].expr => chain[a] = chain[b]

(* What an interrupted add_branch can leave behind: nodes nobody will      *)
(* solve, nodes that are not linked or whose other side is not, and linked *)
(* pairs with two tags.  The branch in hand is not counted while           *)
(* add_branch is between the effects that settle it.                       *)
SameBranch(a, b) == registry[a].expr = registry[b].expr
Siblings(n) == ChildrenOf(registry[n].parent)

Lost == {n \in Ids \ {Root} : n \notin processed \cup Pending \cup dropped}
OneSided ==
    {n \in Ids \ {Root} :
        \/ n \notin Siblings(n)
        \/ \A m \in Siblings(n) : SameBranch(m, n) => registry[m].value = registry[n].value}
Mistagged ==
    {n \in Ids \ {Root} :
        /\ n \in Siblings(n)
        /\ \E m \in Siblings(n) : SameBranch(m, n) /\ chain[m] # chain[n]}

InHand(steps) == IF pc \in steps THEN {branch.taken, branch.alternative} ELSE {}
Damaged == ((Lost \cup OneSided) \ InHand(Creating)) \cup (Mistagged \ InHand({"tag_taken"}))

NewDamage == Damaged' \ Damaged

(* DamageConfined: a deadline inside add_branch damages the branch it      *)
(* strikes and no other, and nothing else ever does: no later branch,      *)
(* swallowed error, rewrite or plateau loses a node, a side or a tag, also *)
(* when it meets the remains of an interrupted branch.                     *)
DamageConfined ==
    [][NewDamage # {} => /\ pc' = "unwinding"
                         /\ NewDamage \subseteq {branch.taken, branch.alternative}]_vars

(* PathMatchesDecisions: while the target runs, the current node stands    *)
(* for exactly the condition values the target was given: swallowing a     *)
(* PathConstraintError leaves no phantom or missing decision on the path.  *)
PathMatchesDecisions == pc = "run" => PathOf[current] = decisions

(* The nodes an observer of the frontier sees: not those of a branch that  *)
(* is being created, which appear together when it is enqueued.            *)
Settled ==
    IF pc \in Creating
    THEN {n \in Ids : n # branch.taken /\ n # branch.alternative}
    ELSE Ids

(* The side of its branch that was created second: the one not taken.      *)
IsAlternative(n) ==
    /\ n # Root
    /\ \E t \in ChildrenOf(registry[n].parent) :
          t < n /\ registry[t].expr = registry[n].expr

(* ImplementsFrontier: without interrupts the tree implements Frontier:    *)
(* both sides of a branch appear in one step, one is pending, and every    *)
(* path is attempted at most once, also when optimize() rewrites nodes.    *)
F == INSTANCE Frontier WITH
        known <- {PathOf[n] : n \in Settled},
        pending <- {PathOf[n] : n \in Pending},
        attempted <- {PathOf[n] : n \in {m \in processed : IsAlternative(m)}}
ImplementsFrontier == F!Spec
=============================================================================
