---------------------------- MODULE RecordPromise ----------------------------
(***************************************************************************)
(* What the library promises about a record, without saying how: no        *)
(* requests, no processes, no search tables, no clock.  A record is        *)
(* private to its author until it is published; its text can change while  *)
(* it is private and never again; what has left the buffer does not come   *)
(* back into it, and what is gone stays gone, but that a repetition of its *)
(* report, on the way in another process, may store it anew.               *)
(*                                                                         *)
(* RecordLifecycle implements this specification.                          *)
(***************************************************************************)
EXTENDS Naturals

CONSTANTS
    Ids,
    Overlap     \* whether two processes serve the library

VARIABLE life   \* of each record: its phase, and the version of its text

Phases == {"unborn", "private", "review", "public", "withdrawn", "trash", "gone"}

Unborn == [phase |-> "unborn", text |-> 0]

TypeOK == life \in [Ids -> [phase : Phases, text : Nat]]

Init == life = [r \in Ids |-> Unborn]

-----------------------------------------------------------------------------

\* A report is stored: private, for review, or public at once.
Born(old, new) ==
    /\ old = Unborn
    /\ new.phase \in {"private", "review", "public"}
    /\ new.text = 0

\* Its author rewrites it.
Rewritten(old, new) ==
    /\ old.phase = "private"
    /\ new = [phase |-> "private", text |-> old.text + 1]

\* It is published, approved, restored, withdrawn or put into the trash.
Moved(old, new) ==
    /\ old.phase \notin {"unborn", "gone"}
    /\ new.phase \in {"public", "withdrawn", "trash"}
    /\ new.text = old.text

\* It is deleted.
Ended(old, new) ==
    /\ old.phase # "unborn"
    /\ new = [phase |-> "gone", text |-> 0]

\* It is stored again under its id, from the report that first brought it.
Returned(old, new) ==
    /\ Overlap
    /\ old.phase = "gone"
    /\ new.phase \in {"private", "review", "public"}
    /\ new.text = 0

\* One transaction may change several records.
Change ==
    /\ life' \in [Ids -> [phase : Phases, text : Nat]]
    /\ \A r \in Ids : \/ life'[r] = life[r]
                      \/ Born(life[r], life'[r])
                      \/ Rewritten(life[r], life'[r])
                      \/ Moved(life[r], life'[r])
                      \/ Ended(life[r], life'[r])
                      \/ Returned(life[r], life'[r])

Spec == Init /\ [][Change]_life
=============================================================================
