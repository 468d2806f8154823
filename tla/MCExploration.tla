--------------------------- MODULE MCExploration ----------------------------
(* Instances of Exploration for TLC: line 1 is the def header (pre-covered) *)
(* and line 9 belongs to another file of the scope.                         *)
EXTENDS Exploration, TLC

CONSTANTS i0, i1, i2, i3, i4, ch

MCLines       == {1, 2, 9}
MCTargetLines == {1, 2}
MCPreCovered  == {1}
MCMixedChains == [n \in 1 .. MaxConstraints |-> IF n % 2 = 1 THEN NoChain ELSE ch]

(* A scope with one target line to find and one in another file. *)
MCFewLines == {2, 9}
MCFewTargetLines == {2}

(* Inputs other than the initial one are interchangeable. *)
MCSymmetry == Permutations(Inputs \ {InitialArgs})
=============================================================================
