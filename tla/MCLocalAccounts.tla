-------------------------- MODULE MCLocalAccounts --------------------------
(***************************************************************************)
(* An instance of LocalAccounts for TLC.                                   *)
(***************************************************************************)
EXTENDS LocalAccounts, TLC

Symmetry == Permutations(Workers) \cup Permutations(Names)
=============================================================================
