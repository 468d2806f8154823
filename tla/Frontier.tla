------------------------------ MODULE Frontier ------------------------------
(***************************************************************************)
(* What the path-constraint tree promises the engine, without registry,    *)
(* ids or steps: a growing set of known paths, closed under "the other     *)
(* side of every branch", and the frontier of paths still worth solving.   *)
(* A path is the sequence of decisions that leads to it.                   *)
(***************************************************************************)
EXTENDS Sequences

CONSTANTS Exprs

VARIABLES known, pending, attempted

Flip(d) == [d EXCEPT !.value = ~d.value]

Init ==
    /\ known = {<<>>}
    /\ pending = {}
    /\ attempted = {}

(* An execution standing at path p decides d for the first time: both      *)
(* sides become known at once, and the side not taken becomes pending.     *)
Discover(p, d) ==
    /\ Append(p, d) \notin known
    /\ Append(p, Flip(d)) \notin known
    /\ known' = known \cup {Append(p, d), Append(p, Flip(d))}
    /\ pending' = pending \cup {Append(p, Flip(d))}
    /\ UNCHANGED attempted

(* A pending path is handed to the solver, once and for all. *)
Attempt(p) ==
    /\ p \notin attempted
    /\ pending' = pending \ {p}
    /\ attempted' = attempted \cup {p}
    /\ UNCHANGED known

(* A plateau gives up everything that is pending. *)
GiveUp ==
    /\ pending # {}
    /\ pending' = {}
    /\ UNCHANGED <<known, attempted>>

Next ==
    \/ \E p \in known, e \in Exprs, v \in BOOLEAN :
          Discover(p, [expr |-> e, value |-> v])
    \/ \E p \in pending : Attempt(p)
    \/ GiveUp

Spec == Init /\ [][Next]_<<known, pending, attempted>>
=============================================================================
