----------------------------- MODULE MCPolicies -----------------------------
EXTENDS PolicyGovernance, TLC
CONSTANTS p1, p2
Limits == p1 :> 3 @@ p2 :> 1
Windows == {<<Always, Forever>>, <<Always, 2>>}
Symmetry == Permutations(Editors)
=============================================================================
