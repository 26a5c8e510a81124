-------------------------- MODULE MCDraftDelivery --------------------------
(* Symmetry for the runs of DraftDelivery. *)
EXTENDS DraftDelivery, TLC

\* Commands are interchangeable, and so are the texts.
Symmetry == Permutations(Deliverers) \union Permutations(Texts)
=============================================================================
