------------------------ MODULE MCControlledActions ------------------------
(* Symmetry for the runs of ControlledActions. *)
EXTENDS ControlledActions, TLC

\* Operators are interchangeable.
Symmetry == Permutations(Operators)
=============================================================================
