-------------------------- MODULE MCRecordLifecycle --------------------------
(***************************************************************************)
(* Instances of RecordLifecycle for TLC: which process the threads belong  *)
(* to, and the requests and faults each run offers.                        *)
(***************************************************************************)
EXTENDS RecordLifecycle, TLC

MCHost == [t \in Threads |-> CHOOSE s \in Servers : TRUE]

AuthorRequests == {"report", "publish_mcp", "publish_portal", "batch_publish",
                   "patch_mcp", "patch_portal", "delete", "batch_delete", "restore"}
AllRequests == AuthorRequests \cup {"approve", "reject", "job", "settings"}

AllAndFailures == AllRequests \cup {"failure"}

\* The portal's edit form takes the same steps as ma3_patch_record once its
\* form has arrived; the runs with crashes leave it out.
AllAndCrashes == (AllRequests \ {"patch_portal"}) \cup {"crash"}

\* Everything that publishes, but for the two requests that write no relations:
\* ma3_patch_record with the buffer off, and a restore.
LinkingRequests == AllRequests \ {"patch_mcp", "restore", "reject", "batch_delete"}

DraftThroughTrash == {"report", "delete", "restore"}
JobAndFailure     == {"report", "job", "failure"}

Symmetry == Permutations(Ids)
=============================================================================
