--------------------------- MODULE MCAgentAccess ---------------------------
EXTENDS AgentAccess, TLC

CONSTANTS s1, s2, k2, k3

MCOffers == {[l \in KeyLibraries |-> IF l = "own" THEN "writer" ELSE "none"],
             [l \in KeyLibraries |-> IF l = "own" THEN "none" ELSE "reader"]}

\* The first key and the old code are marked; the servers and the new keys are alike.
Symmetry == Permutations({s1, s2}) \cup Permutations({k2, k3})

=============================================================================
