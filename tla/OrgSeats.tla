------------------------------ MODULE OrgSeats ------------------------------
(***************************************************************************)
(* The seats of one team organization: who is a member and in which role,  *)
(* the invite links that reserve seats, and the requests that change them: *)
(* add, change or remove a member, create, revoke or redeem an invite.     *)
(*                                                                         *)
(* The handlers are plain functions run by thread-pool threads, each       *)
(* statement or small transaction of a request is one step, and only       *)
(* admit_org_member holds the organization's advisory lock, from its first *)
(* read to the end of its transaction.  Everything else it reads can       *)
(* change under it: removals, revocations, the plan, the clock, and the    *)
(* uses of an invite that somebody who is a member already redeems.        *)
(*                                                                         *)
(* A member marked 'removed' is a person without a role here: no handler   *)
(* of this module tells a removed row from an absent one.  Aliases are     *)
(* left out.  The counts of one seat_usage call are one step.              *)
(***************************************************************************)
EXTENDS Integers, FiniteSets

CONSTANTS
    People,     \* principals
    Founder,    \* the one who created the organization
    Invites,    \* ids of invites
    Workers,    \* threads of the server processes
    Plans,      \* plan codes
    FirstPlan,  \* the plan a new team organization is on
    Seats,      \* plans.included_seats
    Accounts,   \* what the billing account may be set to: plan, past due or not
    Lifetimes,  \* the lifetimes an invite may be given
    MaxUses,    \* the most uses an invite may be asked for
    MaxTime,    \* bound on the clock
    Never,      \* expires_at of an invite that does not expire
    NoInvite,   \* invite_id of an admission without one
    Nobody      \* holder of a free lock

ASSUME SeatsAssumption ==
    /\ IsFiniteSet(People) /\ IsFiniteSet(Invites)
    /\ Founder \in People
    /\ FirstPlan \in Plans
    /\ Seats \in [Plans -> Nat]
    /\ Accounts \subseteq [plan : Plans, pastDue : BOOLEAN]
    /\ Lifetimes \subseteq Nat \cup {Never}
    /\ MaxUses \in Nat
    /\ MaxTime \in Nat
    /\ Never \notin Nat
    /\ NoInvite \notin Invites
    /\ Nobody \notin Workers

VARIABLES
    role,        \* the role of each active member, "none" for everyone else
    invites,     \* table org_invites; max = 0 before the row is inserted
    redemptions, \* table org_invite_redemptions
    account,     \* the organization's billing account
    lock,        \* the worker whose transaction holds the advisory lock
    task,        \* what each worker is doing
    now          \* the clock of the server processes

vars == <<role, invites, redemptions, account, lock, task, now>>

-----------------------------------------------------------------------------

Roles == {"admin", "member"}

Labels == {"idle", "lock", "invite", "usage", "commit", "consume",
           "count", "set", "mark", "insert", "revoke"}

\* A worker's request: the next step, the person and the invite it is about,
\* the role to give, the seats an admission may fill up to (0 until it knows)
\* or the uses of an invite to insert, and the time it took at its beginning
\* or the time the invite to insert expires.
Tasks == [pc : Labels, who : People, invite : Invites \cup {NoInvite},
          role : Roles \cup {"none"}, bound : Nat, time : Nat \cup {Never}]

Rows == [role : Roles, max : 0..MaxUses, uses : Nat, expires : Nat \cup {Never},
         revoked : BOOLEAN]

Idle  == [pc |-> "idle", who |-> Founder, invite |-> NoInvite, role |-> "none",
          bound |-> 0, time |-> 0]

NoRow == [role |-> "member", max |-> 0, uses |-> 0, expires |-> Never, revoked |-> FALSE]

Active == {p \in People : role[p] # "none"}
Admins == {p \in People : role[p] = "admin"}

Created(i) == invites[i].max > 0

\* The conditions on an invite in admit_org_member, try_consume_org_invite and
\* the sum of reservations, for a caller whose clock says t.  The code compares
\* the two as text, which may decide the second of expiry itself the other way.
Valid(i, t) ==
    /\ Created(i)
    /\ ~invites[i].revoked
    /\ invites[i].uses < invites[i].max
    /\ invites[i].expires # Never => invites[i].expires > t

\* The seats reserved by invites: one for each use a valid invite has left.
Places == {place \in Invites \X (1..MaxUses) :
              /\ Valid(place[1], now)
              /\ invites[place[1]].uses < place[2]
              /\ place[2] <= invites[place[1]].max}

\* seat_usage: used and included_seats.
Used     == Cardinality(Active) + Cardinality(Places)
Included == Seats[account.plan]

-----------------------------------------------------------------------------

Init ==
    /\ role = [p \in People |-> IF p = Founder THEN "admin" ELSE "none"]
    /\ invites = [i \in Invites |-> NoRow]
    /\ redemptions = {}
    /\ account = [plan |-> FirstPlan, pastDue |-> FALSE]
    /\ lock = Nobody
    /\ task = [w \in Workers |-> Idle]
    /\ now = 0

tables == <<role, invites, redemptions, account>>

Begin(w, t) ==
    /\ task[w].pc = "idle"
    /\ task' = [task EXCEPT ![w] = t]
    /\ UNCHANGED <<tables, lock, now>>

\* The transaction of an admission ends, and with it the lock.
Leave(w) ==
    /\ task' = [task EXCEPT ![w] = Idle]
    /\ lock' = Nobody

-----------------------------------------------------------------------------
(* Admissions.                                                             *)

\* add_org_member, up to the call of admit_org_member: assert_org_admin.
AddMember(w, actor, p, r) ==
    /\ role[actor] = "admin"
    /\ Begin(w, [Idle EXCEPT !.pc = "lock", !.who = p, !.role = r])

\* redeem_invite and register_local_user, which calls it for the account it
\* has just created: someone who is a member only records the use.
RedeemInvite(w, p, i) ==
    /\ Created(i)
    /\ Begin(w, [Idle EXCEPT !.pc = IF role[p] = "none" THEN "lock" ELSE "consume",
                             !.who = p, !.invite = i, !.role = invites[i].role,
                             !.time = now])

\* Mistake: the lock is asked for and not waited for.
TakeLockAtOnce(w) ==
    /\ task[w].pc = "lock"
    /\ lock' = w
    /\ LET held == role[task[w].who] # "none"
           next == IF task[w].invite # NoInvite THEN "invite"
                   ELSE IF held THEN "commit" ELSE "usage"
       IN  task' = [task EXCEPT ![w].pc = next,
                                ![w].bound = IF held THEN Cardinality(Active) ELSE 0]
    /\ UNCHANGED <<tables, now>>

\* The advisory lock, and the first read of admit_org_member under it: whoever
\* holds a seat keeps it, and no seats are counted.
TakeLock(w) ==
    /\ task[w].pc = "lock"
    /\ lock = Nobody
    /\ lock' = w
    /\ LET held == role[task[w].who] # "none"
           next == IF task[w].invite # NoInvite THEN "invite"
                   ELSE IF held THEN "commit" ELSE "usage"
       IN  task' = [task EXCEPT ![w].pc = next,
                                ![w].bound = IF held THEN Cardinality(Active) ELSE 0]
    /\ UNCHANGED <<tables, now>>

\* The invite is read, and its expiry compared with the time at which the
\* request began, before it waited for the lock.
ReadInvite(w) ==
    /\ task[w].pc = "invite"
    /\ \/ /\ Valid(task[w].invite, task[w].time)
          /\ task' = [task EXCEPT ![w].pc = IF task[w].bound > 0 THEN "commit"
                                            ELSE "usage"]
          /\ UNCHANGED lock
       \/ /\ ~Valid(task[w].invite, task[w].time)
          /\ Leave(w)
    /\ UNCHANGED <<tables, now>>

\* The seat check.  A redemption's own reservation is among the seats in use.
ReadUsage(w) ==
    /\ task[w].pc = "usage"
    /\ LET fits == IF task[w].invite = NoInvite THEN Used < Included ELSE Used <= Included
       IN  \/ /\ fits
              /\ task' = [task EXCEPT ![w].pc = "commit", ![w].bound = Included]
              /\ UNCHANGED lock
           \/ /\ ~fits
              /\ Leave(w)
    /\ UNCHANGED <<tables, now>>

\* The writes of admit_org_member and its commit.  The UPDATE of the invite has
\* no condition but the id; the upsert overwrites the role of a member.
CommitAdmission(w) ==
    /\ task[w].pc = "commit"
    /\ role' = [role EXCEPT ![task[w].who] = task[w].role]
    /\ IF task[w].invite = NoInvite
       THEN UNCHANGED <<invites, redemptions>>
       ELSE /\ invites' = [invites EXCEPT ![task[w].invite].uses = @ + 1]
            /\ redemptions' = redemptions \cup {<<task[w].invite, task[w].who>>}
    /\ Leave(w)
    /\ UNCHANGED <<account, now>>

\* Mistake: the UPDATE does not repeat that uses are left.
ConsumeUnguarded(w) ==
    /\ task[w].pc = "consume"
    /\ LET i    == task[w].invite
           paid == <<i, task[w].who>>
       IN  IF paid \notin redemptions
           THEN /\ invites' = [invites EXCEPT ![i].uses = @ + 1]
                /\ redemptions' = redemptions \cup {paid}
           ELSE UNCHANGED <<invites, redemptions>>
    /\ task' = [task EXCEPT ![w] = Idle]
    /\ UNCHANGED <<role, account, lock, now>>

\* Mistake: the redemption is recorded without a look at the UPDATE's row count.
ConsumeUncounted(w) ==
    /\ task[w].pc = "consume"
    /\ LET i == task[w].invite
       IN  /\ invites' = IF Valid(i, task[w].time)
                         THEN [invites EXCEPT ![i].uses = @ + 1] ELSE invites
           /\ redemptions' = redemptions \cup {<<i, task[w].who>>}
    /\ task' = [task EXCEPT ![w] = Idle]
    /\ UNCHANGED <<role, account, lock, now>>

\* try_consume_org_invite, which takes no lock: its UPDATE repeats the conditions,
\* and a second redemption by the same person breaks the table's primary key and
\* undoes it.
Consume(w) ==
    /\ task[w].pc = "consume"
    /\ LET i    == task[w].invite
           paid == <<i, task[w].who>>
       IN  IF Valid(i, task[w].time) /\ paid \notin redemptions
           THEN /\ invites' = [invites EXCEPT ![i].uses = @ + 1]
                /\ redemptions' = redemptions \cup {paid}
           ELSE UNCHANGED <<invites, redemptions>>
    /\ task' = [task EXCEPT ![w] = Idle]
    /\ UNCHANGED <<role, account, lock, now>>

-----------------------------------------------------------------------------
(* Roles and removals.                                                     *)

\* update_org_member with a role: only a demotion counts the administrators.
UpdateMember(w, actor, p, r) ==
    /\ role[actor] = "admin"
    /\ role[p] # "none"
    /\ Begin(w, [Idle EXCEPT !.pc = IF r = "admin" THEN "set" ELSE "count",
                             !.who = p, !.role = r])

RemoveMember(w, actor, p) ==
    /\ role[actor] = "admin"
    /\ role[p] # "none"
    /\ Begin(w, [Idle EXCEPT !.pc = "count", !.who = p])

\* _assert_not_last_admin.
CountAdmins(w) ==
    /\ task[w].pc = "count"
    /\ LET last == role[task[w].who] = "admin" /\ Cardinality(Admins) <= 1
           next == IF task[w].role = "none" THEN "mark" ELSE "set"
       IN  task' = [task EXCEPT ![w] = IF last THEN Idle ELSE [@ EXCEPT !.pc = next]]
    /\ UNCHANGED <<tables, lock, now>>

\* set_org_member_role: an UPDATE of an active member.
SetRole(w) ==
    /\ task[w].pc = "set"
    /\ role' = [role EXCEPT ![task[w].who] = IF @ = "none" THEN "none" ELSE task[w].role]
    /\ task' = [task EXCEPT ![w] = Idle]
    /\ UNCHANGED <<invites, redemptions, account, lock, now>>

\* mark_org_member_removed.
MarkRemoved(w) ==
    /\ task[w].pc = "mark"
    /\ role' = [role EXCEPT ![task[w].who] = "none"]
    /\ task' = [task EXCEPT ![w] = Idle]
    /\ UNCHANGED <<invites, redemptions, account, lock, now>>

-----------------------------------------------------------------------------
(* Invites.                                                                *)

\* create_org_invite up to the INSERT: without the lock, it asks for n uses and
\* gets what the seats leave.
CreateInvite(w, actor, i, r, n, lifetime) ==
    /\ role[actor] = "admin"
    /\ ~account.pastDue
    /\ Used < Included
    /\ ~Created(i) /\ \A v \in Workers : task[v].invite # i
    /\ LET left == Included - Used
       IN  Begin(w, [Idle EXCEPT !.pc = "insert", !.invite = i, !.role = r,
                                 !.bound = IF n < left THEN n ELSE left,
                                 !.time = IF lifetime = Never THEN Never
                                          ELSE now + lifetime])

InsertInvite(w) ==
    /\ task[w].pc = "insert"
    /\ invites' = [invites EXCEPT ![task[w].invite] =
                      [role |-> task[w].role, max |-> task[w].bound, uses |-> 0,
                       expires |-> task[w].time, revoked |-> FALSE]]
    /\ task' = [task EXCEPT ![w] = Idle]
    /\ UNCHANGED <<role, redemptions, account, lock, now>>

RevokeInvite(w, actor, i) ==
    /\ role[actor] = "admin"
    /\ Created(i)
    /\ Begin(w, [Idle EXCEPT !.pc = "revoke", !.invite = i])

WriteRevocation(w) ==
    /\ task[w].pc = "revoke"
    /\ invites' = [invites EXCEPT ![task[w].invite].revoked = TRUE]
    /\ task' = [task EXCEPT ![w] = Idle]
    /\ UNCHANGED <<role, redemptions, account, lock, now>>

-----------------------------------------------------------------------------
(* What happens beside the requests.                                       *)

\* set_billing_account_plan, and the billing events that write the account.
ChangePlan(a) ==
    /\ account' = a
    /\ UNCHANGED <<role, invites, redemptions, lock, task, now>>

\* A request fails, or its process dies, between two steps: the connection is
\* closed, so that an open transaction rolls back and gives up the lock.
Fail(w) ==
    /\ task[w].pc # "idle"
    /\ task' = [task EXCEPT ![w] = Idle]
    /\ lock' = IF lock = w THEN Nobody ELSE lock
    /\ UNCHANGED <<tables, now>>

Tick ==
    /\ now < MaxTime
    /\ now' = now + 1
    /\ UNCHANGED <<tables, lock, task>>

-----------------------------------------------------------------------------

Request(w) ==
    \/ \E actor, p \in People : RemoveMember(w, actor, p)
    \/ \E actor, p \in People, r \in Roles :
          AddMember(w, actor, p, r) \/ UpdateMember(w, actor, p, r)
    \/ \E p \in People, i \in Invites : RedeemInvite(w, p, i) \/ RevokeInvite(w, p, i)
    \/ \E actor \in People, i \in Invites, r \in Roles, n \in 1..MaxUses :
          \E lifetime \in Lifetimes : CreateInvite(w, actor, i, r, n, lifetime)

Step(w) ==
    \/ ReadInvite(w) \/ ReadUsage(w) \/ CommitAdmission(w) \/ Consume(w)
    \/ CountAdmins(w) \/ SetRole(w) \/ MarkRemoved(w)
    \/ InsertInvite(w) \/ WriteRevocation(w)

Next ==
    \/ \E w \in Workers : Request(w) \/ TakeLock(w) \/ Step(w) \/ Fail(w)
    \/ \E a \in Accounts : ChangePlan(a)
    \/ Tick

Spec == Init /\ [][Next]_vars

-----------------------------------------------------------------------------
(* Properties.                                                             *)

TypeOK ==
    /\ role \in [People -> Roles \cup {"none"}]
    /\ invites \in [Invites -> Rows]
    /\ redemptions \subseteq Invites \X People
    /\ account \in [plan : Plans, pastDue : BOOLEAN]
    /\ lock \in Workers \cup {Nobody}
    /\ task \in [Workers -> Tasks]
    /\ now \in Nat
    /\ \A w \in Workers : task[w].pc = "insert" => task[w].bound \in 1..MaxUses

\* An admission leaves no more members than the seats the plan included when it
\* counted them, whatever runs beside it: other admissions, removals, and
\* changes of the plan (docs/09-engineering/design-archive/
\* 27-org-billing-implementation-fable.md:53).  The one exception is a redemption
\* whose invite was revoked, expired or used up after it was read: its own
\* reservation no longer counts, and it may go one seat beyond.
Admitted(w) ==
    /\ task[w].pc = "commit"
    /\ task'[w].pc = "idle"
    /\ role'[task[w].who] # "none"

InviteLapsed(w) ==
    /\ task[w].invite # NoInvite
    /\ ~Valid(task[w].invite, now)

AdmissionFitsPlan ==
    [][\A w \in Workers : Admitted(w) =>
          \/ Cardinality(Active') <= task[w].bound
          \/ InviteLapsed(w) /\ Cardinality(Active') = task[w].bound + 1]_vars

\* An invite is used once more than it allows at most.  The admission that
\* holds the lock may add the one: its UPDATE of uses_count has no condition,
\* and the redemptions of members, which take no lock, can use up the invite
\* after it was read (billing_service.py:228).
OverusedOnceAtMost == \A i \in Invites : invites[i].uses <= invites[i].max + 1

\* Whoever is recorded as having redeemed an invite has paid with a use of it:
\* the two tables agree although two different transactions write them.
RedemptionsPaid ==
    \A i \in Invites :
        Cardinality({p \in People : <<i, p>> \in redemptions}) <= invites[i].uses

\* The organization has an administrator: "Last-admin protection - server
\* rejects remove/demote of the last active admin (403 last_org_admin)"
\* (docs/09-engineering/design-archive/24-org-library-management-decisions.md:21).
\* Adding the last administrator once more, as a member, is not rejected.
AdminRemains == Admins # {}

\* A redemption never takes the organization beyond the seats that it checked:
\* "Atomically check capacity, consume an optional invite, and activate
\* membership" (billing_service.py:204).  The check counts its own reservation
\* in a statement after the one that found the invite valid.
AdmissionIsAtomic ==
    [][\A w \in Workers : Admitted(w) => Cardinality(Active') <= task[w].bound]_vars

=============================================================================
