--------------------------- MODULE BillingAccount ---------------------------
(***************************************************************************)
(* The billing account of one personal organisation: Stripe's events, the  *)
(* administrator's changes, the label that set_user_paid leaves in the     *)
(* organisation, the backfill at startup, and the daily job that ends the  *)
(* grace period of an account that does not pay.                           *)
(*                                                                         *)
(* A worker is an event loop of a server process (webhooks, the job) or a  *)
(* thread of its pool (the administrator's API); it carries out one        *)
(* request at a time, and each step of todo is a transaction, or for the   *)
(* job a statement of its one transaction.  Stripe makes events in an      *)
(* order, delivers them in any, and again and again.  Days are counted     *)
(* from the last change of the account, up to the day after the last one   *)
(* that differs from its successor; the job does not run over midnight.    *)
(* principals.plan_code is the account's plan: one transaction writes both.*)
(***************************************************************************)
EXTENDS Integers, Sequences, FiniteSets

CONSTANTS
    Workers,
    Subs,       \* Stripe's subscriptions
    NoSub,
    Grace,      \* GRACE_DAYS
    Notices,    \* the days of the grace period on which a notice is written
    MaxEvents,  \* the most events a scene has
    Scenes      \* the bounds of a behaviour, one of:
                \*   events    events Stripe makes
                \*   subs      subscriptions there are
                \*   runs      runs of the job on one day
                \*   troubles  changes of the administrator and failing requests
                \*   calendar  do days go by (they do for the job only)

ASSUME BillingAssumption ==
    /\ NoSub \notin Subs
    /\ Grace \in Nat \ {0} /\ Notices \subseteq 1..Grace
    /\ MaxEvents \in Nat
    /\ \A s \in Scenes : /\ s.events \in 0..MaxEvents
                         /\ s.subs \subseteq Subs
                         /\ s.runs \in Nat /\ s.troubles \in Nat
                         /\ s.calendar \in BOOLEAN

VARIABLES
    scene,      \* of Scenes
    stripe,     \* the state of each subscription at Stripe
    made,       \* the events Stripe has made, in order
    recorded,   \* table billing_events: the Stripe events inserted
    account,    \* the row of billing_accounts
    age,        \* days since the last row 'admin_plan_change' of billing_events
    label,      \* organizations.billing_account_id: the account, or "plan:..."
    readers,    \* readers have grants on the libraries of the account
    noticed,    \* table billing_grace_notifications: the notices of today
    runs,       \* runs of the job today
    others,     \* does another unpaid account get a notice today, or has it got it
    task,
    troubles,   \* administrator's changes and faults so far
    unpaid,     \* history: days the account has been past due at a stretch
    applied,    \* history: how often each event has changed the account
    orderly     \* history: events came one by one in Stripe's order, no fault,
                \* no administrator, one subscription at a time

outside == <<scene, stripe, made, others, runs>>
history == <<unpaid, applied, orderly>>
vars    == <<outside, recorded, account, age, label, readers, noticed, task, troubles,
             history>>

-----------------------------------------------------------------------------

Plans    == {"free", "pro"}
Statuses == {"active", "past_due"}
Keep     == "keep"          \* COALESCE(NULL, ...)
Events   == 1..MaxEvents
Days     == 0..(Grace + 1)

Kinds == {"checkout", "failed", "paid", "deleted"}
Event == [kind : Kinds, sub : Subs]

Account == [plan : Plans, status : Statuses, sub : Subs \cup {NoSub}]

Labels == {"account", "plan:free", "plan:pro"}
LabelOf(plan) == IF plan = "pro" THEN "plan:pro" ELSE "plan:free"

\* The transactions of the requests, and the statements of the job's.
Steps == {"record", "find", "plan", "link", "choose", "ensure", "label",
          "select", "started", "notice", "revoke"}

\* event: the webhook's.  plan, status: what the next change sets.  label: the
\* organisation as the backfill read it.  days, notice: the job's.  streak: how
\* long the account was unpaid when the job looked (history).
Task == [todo : Seq(Steps), event : 0..MaxEvents, plan : Plans \cup {Keep},
         status : Statuses \cup {Keep}, label : Labels, days : Days,
         notice : BOOLEAN, streak : Days]

Idle == [todo |-> <<>>, event |-> 0, plan |-> Keep, status |-> Keep,
         label |-> "account", days |-> 0, notice |-> FALSE, streak |-> 0]

Init ==
    /\ scene \in Scenes
    /\ stripe = [s \in Subs |-> "none"]
    /\ made = <<>>
    /\ recorded = {}
    /\ account = [plan |-> "free", status |-> "active", sub |-> NoSub]
    /\ age = 0
    /\ label = "account"
    /\ readers = FALSE
    /\ noticed = {}
    /\ others \in IF scene.calendar THEN {"none", "due"} ELSE {"none"}
    /\ runs = 0
    /\ task = [w \in Workers |-> Idle]
    /\ troubles = 0
    /\ unpaid = 0
    /\ applied = [e \in Events |-> 0]
    /\ orderly = TRUE

\* The step worker w is to take, and the rest of its request.
At(w, step) == task[w].todo # <<>> /\ Head(task[w].todo) = step
IsIdle(w)   == task[w].todo = <<>>

Starts(w, todo) == [Idle EXCEPT !.todo = todo]
Advance(w, t)   == task' = [task EXCEPT ![w] = IF Len(t.todo) = 1 THEN Idle
                                               ELSE [t EXCEPT !.todo = Tail(@)]]
Leave(w)        == task' = [task EXCEPT ![w] = Idle]

-----------------------------------------------------------------------------
(* Stripe.                                                                 *)

Make(kind, s, state) ==
    /\ Len(made) < scene.events
    /\ s \in scene.subs
    /\ made' = Append(made, [kind |-> kind, sub |-> s])
    /\ stripe' = [stripe EXCEPT ![s] = state]
    /\ UNCHANGED <<scene, recorded, account, age, label, readers, noticed, others, runs, task,
                   troubles, unpaid, applied>>

Live(s) == stripe[s] \in {"paid", "unpaid"}

\* A session of create_checkout_session is paid: the subscription begins.
\* Nothing stops a second checkout while a subscription runs.
Checkout(s) ==
    /\ stripe[s] = "none"
    /\ Make("checkout", s, "paid")
    /\ orderly' = (orderly /\ ~\E x \in Subs : Live(x))

PaymentFails(s) == Live(s) /\ Make("failed", s, "unpaid") /\ UNCHANGED orderly
PaymentMade(s)  == Live(s) /\ Make("paid", s, "paid") /\ UNCHANGED orderly
Cancel(s)       == Live(s) /\ Make("deleted", s, "cancelled") /\ UNCHANGED orderly

-----------------------------------------------------------------------------
(* The webhook.                                                            *)

\* The INSERT of an event, and what follows it.
Handler(kind) ==
    CASE kind = "checkout" -> <<"record", "plan", "link">>
      [] kind = "deleted"  -> <<"record", "find", "plan", "link">>
      [] OTHER             -> <<"record", "find", "plan">>

\* What the event makes of plan and status.
PlanOf(kind)   == CASE kind = "checkout" -> "pro" [] kind = "deleted" -> "free" [] OTHER -> Keep
StatusOf(kind) == IF kind = "failed" THEN "past_due" ELSE "active"

\* Stripe delivers an event, for the first time or again.
Deliver(w, e) ==
    /\ IsIdle(w)
    /\ e <= Len(made)
    /\ LET kind == made[e].kind IN
       task' = [task EXCEPT ![w] = [Idle EXCEPT !.todo = Handler(kind), !.event = e,
                                                !.plan = PlanOf(kind),
                                                !.status = StatusOf(kind)]]
    /\ UNCHANGED <<outside, recorded, account, age, label, readers, noticed, troubles, history>>

\* Mistake: the row is inserted whether the event is known or not.
RecordTwice(w) ==
    /\ At(w, "record")
    /\ Advance(w, task[w])
    /\ recorded' = recorded \cup {task[w].event}
    /\ UNCHANGED <<outside, account, age, label, readers, noticed, troubles, history>>

\* _insert_event_row: it commits before the handler runs, and is all a second
\* delivery gets to.
Record(w) ==
    /\ At(w, "record")
    /\ LET e == task[w].event IN
       IF e \in recorded
       THEN Leave(w) /\ UNCHANGED <<recorded, orderly>>
       ELSE /\ Advance(w, task[w])
            /\ recorded' = recorded \cup {e}
            /\ orderly' = (/\ orderly
                           /\ recorded = 1..(e - 1)
                           /\ \A x \in Workers \ {w} : IsIdle(x) \/ At(x, "record"))
    /\ UNCHANGED <<outside, account, age, label, readers, noticed, troubles,
                   unpaid, applied>>

\* _ba_by_subscription: an event of a subscription no account is linked to is
\* ignored.
Find(w) ==
    /\ At(w, "find")
    /\ IF account.sub = made[task[w].event].sub THEN Advance(w, task[w]) ELSE Leave(w)
    /\ UNCHANGED <<outside, recorded, account, age, label, readers, noticed, troubles, history>>

Coalesce(value, old) == IF value = Keep THEN old ELSE value

\* Mistake: only a change of the plan is noted in billing_events.
SetPlanQuietly(w) ==
    /\ At(w, "plan")
    /\ account' = [account EXCEPT !.plan = Coalesce(task[w].plan, @),
                                  !.status = Coalesce(task[w].status, @)]
    /\ age' = IF task[w].plan = Keep THEN age ELSE 0
    /\ unpaid' = IF account'.status = "active" THEN 0 ELSE unpaid
    /\ applied' = IF task[w].event = 0 THEN applied
                  ELSE [applied EXCEPT ![task[w].event] = @ + 1]
    /\ Advance(w, task[w])
    /\ UNCHANGED <<outside, recorded, label, readers, noticed, troubles, orderly>>

\* set_billing_account_plan: the account, the plan of its owner, and a row
\* 'admin_plan_change', whoever asked for it.
SetPlan(w) ==
    /\ At(w, "plan")
    /\ account' = [account EXCEPT !.plan = Coalesce(task[w].plan, @),
                                  !.status = Coalesce(task[w].status, @)]
    /\ age' = 0
    /\ unpaid' = IF account'.status = "active" THEN 0 ELSE unpaid
    /\ applied' = IF task[w].event = 0 THEN applied
                  ELSE [applied EXCEPT ![task[w].event] = @ + 1]
    /\ Advance(w, task[w])
    /\ UNCHANGED <<outside, recorded, label, readers, noticed, troubles, orderly>>

\* Mistake: the link of a deleted subscription stays.
SetLinkOnly(w) ==
    /\ At(w, "link")
    /\ account' = [account EXCEPT !.sub = made[task[w].event].sub]
    /\ Advance(w, task[w])
    /\ UNCHANGED <<outside, recorded, age, label, readers, noticed, troubles, history>>

\* _set_provider_link, in a transaction of its own.
SetLink(w) ==
    /\ At(w, "link")
    /\ LET event == made[task[w].event] IN
       account' = [account EXCEPT !.sub = IF event.kind = "checkout" THEN event.sub ELSE NoSub]
    /\ Advance(w, task[w])
    /\ UNCHANGED <<outside, recorded, age, label, readers, noticed, troubles, history>>

-----------------------------------------------------------------------------
(* The administrator, the pages, a starting process.                       *)

Administer(w, t) ==
    /\ IsIdle(w)
    /\ troubles < scene.troubles
    /\ troubles' = troubles + 1
    /\ task' = [task EXCEPT ![w] = t]
    /\ orderly' = FALSE
    /\ UNCHANGED <<outside, recorded, account, age, label, readers, noticed, unpaid, applied>>

\* PATCH /billing-accounts/{ba_id}
PatchAccount(w, plan, status) ==
    /\ plan # Keep \/ status # Keep
    /\ Administer(w, [Idle EXCEPT !.todo = <<"plan">>, !.plan = plan, !.status = status])

\* set_user_paid
SetUserPaid(w, plan) ==
    Administer(w, [Idle EXCEPT !.todo = <<"ensure", "plan", "label">>, !.plan = plan])

\* ensure_personal_org, before most pages of the owner.
OpenPage(w) ==
    /\ IsIdle(w)
    /\ label # "account"
    /\ task' = [task EXCEPT ![w] = Starts(w, <<"ensure">>)]
    /\ UNCHANGED <<outside, recorded, account, age, label, readers, noticed, troubles, history>>

\* run_billing_backfill: the SELECT of the organisations.
Boot(w) ==
    /\ IsIdle(w)
    /\ label # "account"
    /\ task' = [task EXCEPT ![w] = [Idle EXCEPT !.todo = <<"choose", "ensure", "plan">>,
                                                !.label = label]]
    /\ UNCHANGED <<outside, recorded, account, age, label, readers, noticed, troubles, history>>

\* The plan of an organisation with a label: what the label says, or pro when
\* its owner has pro.  Linked meanwhile, it needs no backfill.
Choose(w) ==
    /\ At(w, "choose")
    /\ IF label = "account"
       THEN Leave(w)
       ELSE Advance(w, [task[w] EXCEPT !.plan =
                IF task[w].label = "plan:pro" \/ account.plan = "pro" THEN "pro" ELSE "free"])
    /\ UNCHANGED <<outside, recorded, account, age, label, readers, noticed, troubles, history>>

\* ensure_org_billing_account: the account is there, and the organisation is
\* linked to it again.  The backfill goes on when the plan is another.
Ensure(w) ==
    /\ At(w, "ensure")
    /\ label' = "account"
    /\ IF Len(task[w].todo) = 2 /\ account.plan = task[w].plan
       THEN Leave(w)
       ELSE Advance(w, task[w])
    /\ UNCHANGED <<outside, recorded, account, age, readers, noticed, troubles, history>>

\* set_organization_billing_account_id
SetLabel(w) ==
    /\ At(w, "label")
    /\ label' = LabelOf(task[w].plan)
    /\ Advance(w, task[w])
    /\ UNCHANGED <<outside, recorded, account, age, readers, noticed, troubles, history>>

\* The owner shares a library.
Share ==
    /\ ~readers
    /\ scene.calendar
    /\ readers' = TRUE
    /\ UNCHANGED <<outside, recorded, account, age, label, noticed, task, troubles, history>>

-----------------------------------------------------------------------------
(* run_past_due_grace_job: one transaction.                                *)

StartJob(w) ==
    /\ IsIdle(w)
    /\ runs < scene.runs
    /\ runs' = runs + 1
    /\ task' = [task EXCEPT ![w] = Starts(w, <<"select", "started", "notice", "revoke">>)]
    /\ UNCHANGED <<scene, stripe, made, others, recorded, account, age, label, readers, noticed, troubles, history>>

\* The accounts past due.  When this one is not among them the others' notices
\* are still written.
SelectUnpaid(w) ==
    /\ At(w, "select")
    /\ Advance(w, IF account.status = "past_due"
                  THEN [task[w] EXCEPT !.streak = unpaid]
                  ELSE [task[w] EXCEPT !.todo = <<"select", "notice", "revoke">>])
    /\ UNCHANGED <<outside, recorded, account, age, label, readers, noticed, troubles, history>>

ReadStart(w) ==
    /\ At(w, "started")
    /\ Advance(w, [task[w] EXCEPT !.days = age])
    /\ UNCHANGED <<outside, recorded, account, age, label, readers, noticed, troubles, history>>

\* The INSERT of the notices due today: it waits for a job that has inserted
\* the same and not committed.  A notice that is there aborts the transaction:
\* the exception is caught, but PostgreSQL runs nothing more of it.
InsertNotices(w) ==
    /\ At(w, "notice")
    /\ ~\E x \in Workers : At(x, "revoke") /\ task[x].notice
    /\ IF others = "done" \/ task[w].days \in noticed
       THEN Leave(w)
       ELSE Advance(w, [task[w] EXCEPT !.notice = others = "due" \/ task[w].days \in Notices])
    /\ UNCHANGED <<outside, recorded, account, age, label, readers, noticed, troubles, history>>

Commit(w) ==
    /\ noticed' = noticed \cup ({task[w].days} \cap Notices)
    /\ others' = IF others = "due" /\ task[w].notice THEN "done" ELSE others
    /\ Leave(w)
    /\ UNCHANGED <<scene, stripe, made, runs, recorded, account, age, label, troubles, history>>

\* Mistake: readers lose their grants on the last day only.
RevokeOnTheDay(w) ==
    /\ At(w, "revoke")
    /\ readers' = (readers /\ ~(task[w].days = Grace /\ label = "account"))
    /\ Commit(w)

\* The DELETE of the readers' grants: the libraries are found through the
\* organisation's link.
Revoke(w) ==
    /\ At(w, "revoke")
    /\ readers' = (readers /\ ~(task[w].days >= Grace /\ label = "account"))
    /\ Commit(w)

-----------------------------------------------------------------------------

\* An exception, or the death of the process: what is committed stays.
Fail(w) ==
    /\ ~IsIdle(w)
    /\ troubles < scene.troubles
    /\ troubles' = troubles + 1
    /\ Leave(w)
    /\ orderly' = FALSE
    /\ UNCHANGED <<outside, recorded, account, age, label, readers, noticed, unpaid, applied>>

NextDay(n) == IF n > Grace THEN n ELSE n + 1

\* A day goes by.
Tick ==
    /\ scene.calendar
    /\ ~\E w \in Workers : At(w, "started") \/ At(w, "notice") \/ At(w, "revoke")
    /\ age' = NextDay(age)
    /\ unpaid' = IF account.status = "past_due" THEN NextDay(unpaid) ELSE 0
    /\ noticed' = {}
    /\ others' \in {"none", "due"}
    /\ runs' = 0
    /\ UNCHANGED <<scene, stripe, made, recorded, account, label, readers, task, troubles,
                   applied, orderly>>

Step(w) ==
    \/ Record(w) \/ Find(w) \/ SetPlan(w) \/ SetLink(w)
    \/ Choose(w) \/ Ensure(w) \/ SetLabel(w)
    \/ SelectUnpaid(w) \/ ReadStart(w) \/ InsertNotices(w) \/ Revoke(w)

StripeActs(s) == Checkout(s) \/ PaymentFails(s) \/ PaymentMade(s) \/ Cancel(s)

Request(w) ==
    \/ \E e \in Events : Deliver(w, e)
    \/ \E p \in Plans \cup {Keep}, s \in Statuses \cup {Keep} : PatchAccount(w, p, s)
    \/ \E p \in Plans : SetUserPaid(w, p)
    \/ OpenPage(w) \/ Boot(w) \/ StartJob(w)

Next ==
    \/ \E s \in Subs : StripeActs(s)
    \/ \E w \in Workers : Request(w) \/ Step(w) \/ Fail(w)
    \/ Share \/ Tick

Spec == Init /\ [][Next]_vars

\* A request goes on; the job is run again and again though webhooks keep the
\* loop busy, by one worker at least; days go by.
Fairness ==
    /\ \A w \in Workers : WF_vars(Step(w))
    /\ \A w \in Workers : SF_vars(StartJob(w))
    /\ WF_vars(Tick)

FairSpec == Spec /\ Fairness

-----------------------------------------------------------------------------
(* Properties.                                                             *)

TypeOK ==
    /\ scene \in Scenes
    /\ stripe \in [Subs -> {"none", "paid", "unpaid", "cancelled"}]
    /\ made \in Seq(Event) /\ Len(made) <= MaxEvents
    /\ recorded \subseteq Events
    /\ account \in Account
    /\ age \in Days
    /\ label \in Labels
    /\ readers \in BOOLEAN
    /\ noticed \subseteq Notices
    /\ others \in {"none", "due", "done"}
    /\ runs \in 0..scene.runs
    /\ task \in [Workers -> Task]
    /\ troubles \in 0..scene.troubles
    /\ unpaid \in Days
    /\ applied \in [Events -> Nat]
    /\ orderly \in BOOLEAN

\* However often Stripe delivers an event, to whichever process, it changes the
\* account once at most (stripe_billing_service.py:260).
AppliedOnce == \A e \in Events : applied[e] <= 1

\* When Stripe's events have come in order, one after another, and no request
\* failed, the account is what Stripe has sold: through a failed payment, a
\* cancellation and a second subscription.
Settled == recorded = 1..Len(made) /\ \A w \in Workers : IsIdle(w)

IsWhatStripeSold ==
    LET live == {s \in Subs : Live(s)} IN
    /\ account.plan = IF live = {} THEN "free" ELSE "pro"
    /\ account.status = IF \E s \in live : stripe[s] = "unpaid" THEN "past_due" ELSE "active"
    /\ IF live = {} THEN account.sub = NoSub ELSE account.sub \in live

FollowsStripe == Settled /\ orderly => IsWhatStripeSold

\* The same in whatever order the events come, as the design has it
\* (27-org-billing-implementation-fable.md:508).
FollowsStripeInAnyOrder ==
    /\ Settled
    /\ troubles = 0
    /\ Cardinality({s \in Subs : stripe[s] # "none"}) <= 1
    => IsWhatStripeSold

\* Readers lose their grants only when the account had been past due for the
\* whole period, at a stretch, when the job looked: a payment in between starts
\* the period again (billing_grace_service.py:25).
RevokedAfterGrace ==
    [][readers /\ ~readers' => \E w \in Workers : At(w, "revoke") /\ task[w].streak >= Grace]_vars

\* A reader of an account that stays past due loses the grant in the end, though
\* another account's notice aborts a job now and then: unless the organisation
\* has lost its link to the account.
UnpaidLosesReaders ==
    account.status = "past_due" /\ readers
        ~> ~readers \/ account.status = "active" \/ label # "account"
=============================================================================
