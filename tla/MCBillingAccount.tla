-------------------------- MODULE MCBillingAccount --------------------------
(***************************************************************************)
(* An instance of BillingAccount for TLC: a grace period of two days with  *)
(* a notice on each.                                                       *)
(***************************************************************************)
EXTENDS BillingAccount, TLC

MCNotices == 1..Grace

\* Three events of two subscriptions; and two of one, with the job.
MCScenes ==
    {[events |-> 3, subs |-> Subs, runs |-> 0, troubles |-> 1, calendar |-> FALSE],
     [events |-> 2, subs |-> {"s1"}, runs |-> 2, troubles |-> 1, calendar |-> TRUE]}
=============================================================================
