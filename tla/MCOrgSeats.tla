----------------------------- MODULE MCOrgSeats -----------------------------
(***************************************************************************)
(* An instance of OrgSeats for TLC: a team on the stub plan with its three *)
(* seats, which may lapse to a plan of two and be past due, and recover.   *)
(***************************************************************************)
EXTENDS OrgSeats, TLC

MCSeats    == [p \in Plans |-> IF p = FirstPlan THEN 3 ELSE 2]
MCAccounts == {[plan |-> p, pastDue |-> p # FirstPlan] : p \in Plans}

Symmetry == Permutations(People \ {Founder}) \cup Permutations(Workers)
=============================================================================
