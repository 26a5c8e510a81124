-------------------------- MODULE MCPolicyIndexing --------------------------
EXTENDS PolicyIndexing, TLC
CONSTANTS v1, v2
Counts == v1 :> 2 @@ v2 :> 1
=============================================================================
