--------------------------- MODULE MCCaseReviews ---------------------------
(* The instances of CaseReviews that TLC checks. *)
EXTENDS CaseReviews, TLC

\* No action and no property names a particular member.
Symmetry == Permutations(Members)

=============================================================================
