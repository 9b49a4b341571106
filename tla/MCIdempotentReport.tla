------------------------- MODULE MCIdempotentReport -------------------------
(***************************************************************************)
(* An instance of IdempotentReport for TLC: a small and a large payload    *)
(* for one library, and one for another.                                   *)
(***************************************************************************)
EXTENDS IdempotentReport, TLC

MCLibraryOf == [b \in Bodies |-> IF b = "other" THEN "second" ELSE "first"]
MCSize      == [b \in Bodies |-> IF b = "large" THEN 2 ELSE 1]
MCQuota     == [l \in Libraries |-> 2]

Symmetry == Permutations(Ids) \cup Permutations(Servers)
=============================================================================
