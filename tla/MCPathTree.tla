----------------------------- MODULE MCPathTree -----------------------------
(* Instances of PathTree for TLC: two expressions; the second one occurs   *)
(* at a membership disjunct (tagged) and at a plain if (untagged).         *)
EXTENDS PathTree

CONSTANTS a, b, ch

MCConditions == {[expr |-> a, chain |-> NoChain],
                 [expr |-> b, chain |-> NoChain],
                 [expr |-> b, chain |-> ch]}

(* Smaller targets for the runs whose state spaces are larger. *)
MCUntagged == {[expr |-> a, chain |-> NoChain], [expr |-> b, chain |-> NoChain]}
MCOneTagged == {[expr |-> a, chain |-> NoChain], [expr |-> b, chain |-> ch]}
=============================================================================
