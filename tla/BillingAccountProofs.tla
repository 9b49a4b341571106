------------------------ MODULE BillingAccountProofs ------------------------
(***************************************************************************)
(* For any workers, subscriptions, events and grace period: an event of    *)
(* Stripe's changes the account once at most, however often it is          *)
(* delivered, readers lose their grants only after a whole period, and the *)
(* account follows Stripe's events as long as they come in order.          *)
(*                                                                         *)
(* The first rests on the unique index of billing_events: of the requests  *)
(* that carry one event, one gets past the INSERT.  The second rests on    *)
(* two clocks, the one the job reads (age, which every change starts       *)
(* again) and the one it stands for (unpaid, which a payment starts        *)
(* again): the first is never ahead of the second.                         *)
(*                                                                         *)
(* The third, that the account follows Stripe, holds while the events come *)
(* in order: the last event Stripe made tells what is sold (Sold, AsSold), *)
(* because its events are of one subscription after another (Chained), and *)
(* the account is what the recorded events sold, but for what the request  *)
(* of the last of them, the only one at work, still has to change          *)
(* (AccountFits).                                                          *)
(***************************************************************************)
EXTENDS BillingAccount, TLAPS

\* The row of the event is still to be inserted.
Recording == {<<"record", "plan", "link">>, <<"record", "find", "plan", "link">>,
              <<"record", "find", "plan">>}

\* The change of the account is still to be made.
Changing == {<<"plan", "link">>, <<"find", "plan", "link">>, <<"find", "plan">>, <<"plan">>}

\* What administrators, pages and a start still have to do.
Administering == {<<"ensure", "plan", "label">>, <<"plan", "label">>, <<"label">>,
                  <<"ensure">>, <<"choose", "ensure", "plan">>, <<"ensure", "plan">>}

\* What the job still has to do.
Ready   == <<"select", "started", "notice", "revoke">>
Started == <<"started", "notice", "revoke">>
Counted == {<<"notice", "revoke">>, <<"revoke">>}
Jobs    == {Ready, Started} \cup Counted

Todos == {<<>>, <<"link">>} \cup Recording \cup Changing \cup Administering \cup Jobs

\* A task is one of these requests, and a webhook's has an event Stripe made.
Known(t) ==
    /\ t.todo \in Todos
    /\ t.event # 0 => t.event \in 1..Len(made)
    /\ t.todo \in Recording \cup {<<"link">>, <<"plan", "link">>, <<"find", "plan", "link">>,
                                  <<"find", "plan">>} => t.event # 0
    /\ t.todo \in Administering \cup Jobs => t.event = 0

\* Worker w is going to apply event e.
Applies(w, e) == task[w].todo \in Changing /\ task[w].event = e

TasksKnown == \A w \in Workers : Known(task[w])

AppliedInv ==
    \A e \in Events :
        /\ applied[e] \in {0, 1}
        /\ applied[e] = 1 => e \in recorded
        /\ \A w \in Workers : Applies(w, e) => applied[e] = 0 /\ e \in recorded
        /\ \A w, x \in Workers : Applies(w, e) /\ Applies(x, e) => w = x

\* The job's days are no more than the days without payment.
NotAhead(t) == /\ t.todo = Started => age <= t.streak
               /\ t.todo \in {Ready} \cup Counted => t.days <= t.streak

GraceInv == /\ account.status = "past_due" => age <= unpaid
            /\ \A w \in Workers : NotAhead(task[w])

BillingInv == TypeOK /\ TasksKnown /\ AppliedInv /\ GraceInv

-----------------------------------------------------------------------------
(* What a request still has to do, step by step.                           *)

LEMMA Heads ==
    ASSUME NEW todo \in Todos, todo # <<>>
    PROVE  /\ Head(todo) = "record" <=> todo \in Recording
           /\ Head(todo) = "find" <=> todo \in {<<"find", "plan", "link">>, <<"find", "plan">>}
           /\ Head(todo) = "plan" <=> todo \in {<<"plan", "link">>, <<"plan">>, <<"plan", "label">>}
           /\ Head(todo) = "link" <=> todo = <<"link">>
           /\ Head(todo) = "choose" <=> todo = <<"choose", "ensure", "plan">>
           /\ Head(todo) = "ensure" <=> todo \in {<<"ensure", "plan", "label">>, <<"ensure">>,
                                                  <<"ensure", "plan">>}
           /\ Head(todo) = "label" <=> todo = <<"label">>
           /\ Head(todo) = "select" <=> todo = Ready
           /\ Head(todo) = "started" <=> todo = Started
           /\ Head(todo) = "notice" <=> todo = <<"notice", "revoke">>
           /\ Head(todo) = "revoke" <=> todo = <<"revoke">>
BY DEF Todos, Recording, Changing, Administering, Ready, Started, Counted, Jobs

LEMMA Tails ==
    /\ Tail(<<"record", "plan", "link">>) = <<"plan", "link">>
    /\ Tail(<<"record", "find", "plan", "link">>) = <<"find", "plan", "link">>
    /\ Tail(<<"record", "find", "plan">>) = <<"find", "plan">>
    /\ Tail(<<"plan", "link">>) = <<"link">>
    /\ Tail(<<"find", "plan", "link">>) = <<"plan", "link">>
    /\ Tail(<<"find", "plan">>) = <<"plan">>
    /\ Tail(<<"ensure", "plan", "label">>) = <<"plan", "label">>
    /\ Tail(<<"plan", "label">>) = <<"label">>
    /\ Tail(<<"choose", "ensure", "plan">>) = <<"ensure", "plan">>
    /\ Tail(<<"ensure", "plan">>) = <<"plan">>
    /\ Tail(Ready) = Started
    /\ Tail(Started) = <<"notice", "revoke">>
    /\ Tail(<<"notice", "revoke">>) = <<"revoke">>
    /\ Tail(<<"select", "notice", "revoke">>) = <<"notice", "revoke">>
BY DEF Ready, Started

LEMMA Lengths ==
    /\ Len(<<"link">>) = 1 /\ Len(<<"plan">>) = 1 /\ Len(<<"label">>) = 1
    /\ Len(<<"ensure">>) = 1 /\ Len(<<"revoke">>) = 1
    /\ \A todo \in Todos \ {<<>>, <<"link">>, <<"plan">>, <<"label">>, <<"ensure">>, <<"revoke">>} :
           Len(todo) # 1
    /\ Len(<<"select", "notice", "revoke">>) # 1
BY SMTT(30) DEF Todos, Recording, Changing, Administering, Ready, Started, Counted, Jobs

LEMMA ShortSequences ==
    ASSUME NEW S, NEW a \in S, NEW b \in S, NEW c \in S, NEW x \in S
    PROVE  {<<>>, <<a>>, <<a, b>>, <<a, b, c>>, <<a, b, c, x>>} \subseteq Seq(S)
OBVIOUS

LEMMA TodosAreSequences == Todos \subseteq Seq(Steps)
<1>1. \A a, b, c, x \in Steps :
          {<<>>, <<a>>, <<a, b>>, <<a, b, c>>, <<a, b, c, x>>} \subseteq Seq(Steps)
    BY ShortSequences
<1> DEFINE S == Steps
<1>2. {"record", "find", "plan", "link", "choose", "ensure", "label",
       "select", "started", "notice", "revoke"} \subseteq S
    BY DEF Steps
<1>3. \A a, b, c, x \in S :
          {<<>>, <<a>>, <<a, b>>, <<a, b, c>>, <<a, b, c, x>>} \subseteq Seq(S)
    BY <1>1
<1> HIDE DEF S
<1>4. Recording \cup Changing \subseteq Seq(S)
    BY <1>2, <1>3 DEF Recording, Changing
<1>5. Administering \subseteq Seq(S)
    BY <1>2, <1>3 DEF Administering
<1>6. Jobs \subseteq Seq(S)
    BY <1>2, <1>3 DEF Jobs, Ready, Started, Counted
<1>7. {<<>>, <<"link">>} \subseteq Seq(S)
    BY <1>2, <1>3
<1>8. QED
    BY <1>4, <1>5, <1>6, <1>7 DEF Todos, S

\* What Advance leaves of a request.
After(t) == IF Len(t.todo) = 1 THEN Idle ELSE [t EXCEPT !.todo = Tail(@)]

LEMMA AdvanceIsAfter ==
    ASSUME NEW w, NEW t, Advance(w, t)
    PROVE  task' = [task EXCEPT ![w] = After(t)]
BY DEF Advance, After

LEMMA AfterIsTask ==
    ASSUME NEW t \in Task, NEW todo \in Todos, Len(t.todo) # 1 => Tail(t.todo) = todo
    PROVE  /\ After(t) \in Task
           /\ Len(t.todo) = 1 => After(t) = Idle
           /\ Len(t.todo) # 1 => /\ After(t).todo = todo
                                 /\ After(t) = [t EXCEPT !.todo = todo]
<1>1. Idle \in Task
    BY BillingAssumption DEF Idle, Task, Keep, Labels, Days
<1>2. todo \in Seq(Steps)
    BY TodosAreSequences
<1>3. [t EXCEPT !.todo = todo] \in Task /\ [t EXCEPT !.todo = todo].todo = todo
    BY <1>2 DEF Task
<1>4. QED
    BY <1>1, <1>3 DEF After

LEMMA IdleKnown ==
    /\ Idle \in Task /\ Known(Idle) /\ NotAhead(Idle)
    /\ Idle.todo = <<>> /\ Idle.event = 0 /\ Idle.days = 0 /\ Idle.streak = 0
<1>1. Idle \in Task
    BY BillingAssumption DEF Idle, Task, Keep, Labels, Days
<1>2. Idle.todo = <<>> /\ Idle.event = 0 /\ Idle.days = 0 /\ Idle.streak = 0
    BY DEF Idle
<1>3. <<>> \notin Recording \cup Changing \cup Administering \cup Jobs
    BY DEF Recording, Changing, Administering, Ready, Started, Counted, Jobs
<1>4. <<>> \notin {<<"link">>, <<"plan", "link">>, <<"find", "plan", "link">>, <<"find", "plan">>}
    OBVIOUS
<1>5. Ready \in Jobs /\ Started \in Jobs /\ Counted \subseteq Jobs /\ <<>> \in Todos
    BY DEF Jobs, Todos
<1>6. Known(Idle)
    BY <1>2, <1>3, <1>4, <1>5 DEF Known
<1>7. NotAhead(Idle)
    BY <1>2, <1>3, <1>5 DEF NotAhead
<1>8. QED
    BY <1>1, <1>2, <1>6, <1>7

-----------------------------------------------------------------------------
(* Steps that leave the events and both clocks alone.                      *)

LEMMA MoveKeeps ==
    ASSUME BillingInv, NEW w \in Workers, NEW t \in Task, task' = [task EXCEPT ![w] = t],
           UNCHANGED <<made, recorded, applied, age, unpaid>>,
           account'.status = account.status,
           Known(t), NotAhead(t),
           t.todo \in Changing /\ t.event # 0
               => task[w].todo \in Changing /\ task[w].event = t.event
    PROVE  TasksKnown' /\ AppliedInv' /\ GraceInv'
<1>1. /\ task'[w] = t
      /\ \A x \in Workers : x # w => task'[x] = task[x]
    BY DEF BillingInv, TypeOK
<1>2. \A x \in Workers : Known(task[x])' 
    <2>1. \A x \in Workers : Known(task[x])
        BY DEF BillingInv, TasksKnown
    <2>2. QED
        BY <1>1, <2>1 DEF Known
<1>3. \A x \in Workers, e \in Events : Applies(x, e)' => Applies(x, e)
    BY <1>1 DEF Applies, Events
<1>4. AppliedInv'
    BY <1>3 DEF AppliedInv, BillingInv
<1>5. \A x \in Workers : NotAhead(task[x])'
    <2>1. \A x \in Workers : NotAhead(task[x])
        BY DEF BillingInv, GraceInv
    <2>2. QED
        BY <1>1, <2>1 DEF NotAhead
<1>6. QED
    BY <1>2, <1>4, <1>5 DEF BillingInv, GraceInv, TasksKnown

\* The type invariant but for the tasks.
RestTyped ==
    /\ scene \in Scenes
    /\ stripe \in [Subs -> {"none", "paid", "unpaid", "cancelled"}]
    /\ made \in Seq(Event) /\ Len(made) <= MaxEvents
    /\ recorded \subseteq Events
    /\ account \in Account
    /\ age \in Days
    /\ label \in Labels
    /\ readers \in BOOLEAN
    /\ noticed \subseteq Notices
    /\ others \in {"none", "due", "done"}
    /\ runs \in 0..scene.runs
    /\ troubles \in 0..scene.troubles
    /\ unpaid \in Days
    /\ applied \in [Events -> Nat]
    /\ orderly \in BOOLEAN

LEMMA MoveKeepsAll ==
    ASSUME BillingInv, NEW w \in Workers, NEW t \in Task, task' = [task EXCEPT ![w] = t],
           UNCHANGED <<made, recorded, applied, age, unpaid>>,
           account'.status = account.status,
           Known(t), NotAhead(t), RestTyped',
           t.todo \in Changing /\ t.event # 0
               => task[w].todo \in Changing /\ task[w].event = t.event
    PROVE  BillingInv'
<1>1. TypeOK'
    BY DEF BillingInv, TypeOK, RestTyped
<1>2. QED
    BY <1>1, MoveKeeps DEF BillingInv

LEMMA Typed ==
    ASSUME BillingInv, NEW w \in Workers
    PROVE  task[w] \in Task /\ task[w].todo \in Todos /\ Known(task[w]) /\ NotAhead(task[w])
           /\ RestTyped
BY DEF BillingInv, TypeOK, RestTyped, TasksKnown, GraceInv, Known

LEMMA SubTodos ==
    /\ Recording \cup Changing \cup Administering \cup Jobs \cup {<<>>, <<"link">>} \subseteq Todos
    /\ Recording \cap (Changing \cup Administering \cup Jobs \cup {<<"link">>}) = {}
    /\ Changing \cap (Administering \cup Jobs \cup {<<"link">>}) = {}
    /\ Administering \cap (Jobs \cup {<<"link">>}) = {}
    /\ <<"link">> \notin Jobs
    /\ Started \in Jobs /\ Ready \in Jobs /\ Counted \subseteq Jobs
    /\ Started \notin Counted /\ Ready \notin Counted /\ Ready # Started
BY DEF Todos, Recording, Changing, Administering, Ready, Started, Counted, Jobs

-----------------------------------------------------------------------------
(* The webhook.                                                            *)

LEMMA DeliverKeeps ==
    ASSUME BillingInv, NEW w \in Workers, NEW e \in Events, Deliver(w, e)
    PROVE  BillingInv'
<1> DEFINE kind == made[e].kind
           t == [Idle EXCEPT !.todo = Handler(kind), !.event = e, !.plan = PlanOf(kind),
                             !.status = StatusOf(kind)]
<1>1. e \in 1..Len(made) /\ made[e] \in Event
    BY DEF Deliver, BillingInv, TypeOK, Events
<1>2. Handler(kind) \in Recording
    BY DEF Handler, Recording
<1>3. Handler(kind) \in Seq(Steps)
    BY <1>2, SubTodos, TodosAreSequences
<1>4. /\ PlanOf(kind) \in Plans \cup {Keep}
      /\ StatusOf(kind) \in Statuses \cup {Keep}
    BY DEF PlanOf, StatusOf, Plans, Statuses
<1>5. Idle \in Task /\ e \in 0..MaxEvents /\ e # 0
    BY IdleKnown, BillingAssumption DEF Events
<1>6. t \in Task /\ t.todo \in Recording /\ t.event = e
    BY <1>2, <1>3, <1>4, <1>5 DEF Task
<1>7. Known(t) /\ NotAhead(t) /\ t.todo \notin Changing
    BY <1>1, <1>5, <1>6, SubTodos DEF Known, NotAhead
<1>8. task' = [task EXCEPT ![w] = t] /\ UNCHANGED <<outside, recorded, account, age, label,
                                                  readers, noticed, troubles, history>>
    BY DEF Deliver
<1>9. RestTyped'
    BY <1>8, Typed DEF RestTyped, outside, history
<1> HIDE DEF t
<1>10. QED
    BY <1>6, <1>7, <1>8, <1>9, MoveKeepsAll DEF outside, history

LEMMA FindKeeps ==
    ASSUME BillingInv, NEW w \in Workers, Find(w)
    PROVE  BillingInv'
<1>1. /\ task[w].todo \in {<<"find", "plan", "link">>, <<"find", "plan">>}
      /\ task[w].event # 0
    BY Typed, Heads DEF Find, At, Known
<1>2. PICK todo \in {<<"plan", "link">>, <<"plan">>} : Tail(task[w].todo) = todo
    BY <1>1, Tails
<1>3. Len(task[w].todo) # 1 /\ task[w].todo \in Changing /\ todo \in Changing
    BY <1>1, Lengths, SubTodos DEF Changing
<1> DEFINE t == After(task[w])
<1>4. t \in Task /\ t.todo = todo /\ t.event = task[w].event
    BY <1>2, <1>3, Typed, AfterIsTask, SubTodos, SMTT(30) DEF Task
<1>5. Known(t) /\ NotAhead(t)
    BY <1>1, <1>3, <1>4, Typed, SubTodos DEF Known, NotAhead
<1>6. /\ UNCHANGED <<outside, recorded, account, age, label, readers, noticed, troubles, history>>
      /\ task' = [task EXCEPT ![w] = t] \/ task' = [task EXCEPT ![w] = Idle]
    BY AdvanceIsAfter DEF Find, Leave
<1>7. RestTyped'
    BY <1>6, Typed DEF RestTyped, outside, history
<1> HIDE DEF t
<1>8. <<>> \notin Changing
    BY DEF Changing
<1>9. QED
    BY <1>3, <1>4, <1>5, <1>6, <1>7, <1>8, IdleKnown, MoveKeepsAll DEF outside, history

\* A worker gives its request up, or its request is over.
LEMMA LeaveKeeps ==
    ASSUME BillingInv, NEW w \in Workers, Leave(w), RestTyped',
           UNCHANGED <<made, recorded, applied, age, unpaid>>,
           account'.status = account.status
    PROVE  BillingInv'
<1>1. <<>> \notin Changing
    BY DEF Changing
<1>2. QED
    BY <1>1, IdleKnown, MoveKeepsAll DEF Leave

\* A worker goes on with its request, which changes nothing for an event.
LEMMA AdvanceKeeps ==
    ASSUME BillingInv, NEW w \in Workers, NEW t \in Task, NEW todo \in Todos,
           Advance(w, t), RestTyped',
           UNCHANGED <<made, recorded, applied, age, unpaid>>,
           account'.status = account.status,
           Len(t.todo) # 1 => /\ Tail(t.todo) = todo
                              /\ Known([t EXCEPT !.todo = todo])
                              /\ NotAhead([t EXCEPT !.todo = todo])
                              /\ todo \in Changing => t.event = 0
    PROVE  BillingInv'
<1>1. task' = [task EXCEPT ![w] = After(t)]
    BY AdvanceIsAfter
<1>2. CASE Len(t.todo) = 1
    BY <1>1, <1>2, LeaveKeeps DEF After, Leave
<1>3. CASE Len(t.todo) # 1
    <2>1. /\ After(t) = [t EXCEPT !.todo = todo]
          /\ After(t) \in Task
        BY <1>3, AfterIsTask
    <2>2. After(t).todo = todo /\ After(t).event = t.event
        BY <2>1 DEF Task
    <2>3. Known(After(t)) /\ NotAhead(After(t))
        BY <1>3, <2>1
    <2> DEFINE u == After(t)
    <2> HIDE DEF u
    <2>4. u \in Task /\ u.todo = todo /\ u.event = t.event /\ Known(u) /\ NotAhead(u)
          /\ task' = [task EXCEPT ![w] = u]
        BY <1>1, <2>1, <2>2, <2>3 DEF u
    <2>5. QED
        BY <1>3, <2>4, MoveKeepsAll
<1>4. QED
    BY <1>2, <1>3

\* The row of the event is inserted: no worker had got past it before.
LEMMA RecordKeeps ==
    ASSUME BillingInv, NEW w \in Workers, Record(w)
    PROVE  BillingInv'
<1> DEFINE e == task[w].event
<1>1. task[w].todo \in Recording /\ e \in Events
    <2>1. task[w].todo \in Recording
        BY Typed, Heads DEF Record, At
    <2>2. QED
        BY <2>1, Typed DEF Known, Task, Events
<1>2. UNCHANGED <<outside, account, age, label, readers, noticed, troubles, unpaid, applied>>
    BY DEF Record
<1>3. CASE e \in recorded
    <2>1. Leave(w) /\ UNCHANGED <<recorded, orderly>>
        BY <1>3 DEF Record
    <2>2. RestTyped'
        BY <1>2, <2>1, Typed DEF RestTyped, outside
    <2>3. QED
        BY <1>2, <2>1, <2>2, LeaveKeeps DEF outside
<1>4. CASE e \notin recorded
    <2>1. Advance(w, task[w]) /\ recorded' = recorded \cup {e} /\ orderly' \in BOOLEAN
        BY <1>4 DEF Record
    <2>2. PICK todo \in {<<"plan", "link">>, <<"find", "plan", "link">>, <<"find", "plan">>} :
              Tail(task[w].todo) = todo
        BY <1>1, Tails DEF Recording
    <2>3. Len(task[w].todo) # 1 /\ todo \in Changing /\ todo \in Todos
        BY <1>1, Lengths, SubTodos DEF Recording, Changing
    <2> DEFINE t == After(task[w])
    <2>4. t \in Task /\ t.todo = todo /\ t.event = e
        BY <2>2, <2>3, Typed, AfterIsTask DEF Task
    <2>5. task' = [task EXCEPT ![w] = t]
        BY <2>1, AdvanceIsAfter
    <2>6. Known(t) /\ NotAhead(t)
        BY <1>1, <2>3, <2>4, Typed, SubTodos DEF Known, NotAhead, Events
    <2> HIDE DEF t
    <2>7. /\ task' \in [Workers -> Task]
          /\ task'[w] = t
          /\ \A x \in Workers : x # w => task'[x] = task[x]
        BY <2>4, <2>5 DEF BillingInv, TypeOK
    <2>8. TypeOK'
        BY <1>1, <1>2, <2>1, <2>7 DEF BillingInv, TypeOK, outside
    <2>9. TasksKnown'
        BY <1>2, <2>6, <2>7 DEF BillingInv, TasksKnown, Known, outside
    <2>10. GraceInv'
        BY <1>2, <2>6, <2>7 DEF BillingInv, GraceInv, NotAhead, outside
    <2>11. AppliedInv'
        <3> SUFFICES ASSUME NEW g \in Events
                     PROVE  /\ applied'[g] \in {0, 1}
                            /\ applied'[g] = 1 => g \in recorded'
                            /\ \A x \in Workers : Applies(x, g)' => /\ applied'[g] = 0
                                                                  /\ g \in recorded'
                            /\ \A x, y \in Workers : Applies(x, g)' /\ Applies(y, g)' => x = y
            BY DEF AppliedInv
        <3>1. /\ applied[g] \in {0, 1}
              /\ applied[g] = 1 => g \in recorded
              /\ \A x \in Workers : Applies(x, g) => applied[g] = 0 /\ g \in recorded
              /\ \A x, y \in Workers : Applies(x, g) /\ Applies(y, g) => x = y
            BY DEF BillingInv, AppliedInv
        <3>2. \A x \in Workers : x # w => (Applies(x, g)' <=> Applies(x, g))
            BY <2>7 DEF Applies
        <3>3. Applies(w, g)' => g = e
            BY <2>4, <2>7 DEF Applies
        <3>4. CASE g = e
            <4>1. applied[g] = 0 /\ \A x \in Workers : ~Applies(x, g)
                BY <1>4, <3>1, <3>4
            <4>2. QED
                BY <1>2, <2>1, <3>2, <3>4, <4>1
        <3>5. CASE g # e
            <4>1. ~Applies(w, g)'
                BY <3>3, <3>5
            <4>2. QED
                BY <1>2, <2>1, <3>1, <3>2, <4>1
        <3>6. QED
            BY <3>4, <3>5
    <2>12. QED
        BY <2>8, <2>9, <2>10, <2>11 DEF BillingInv
<1>5. QED
    BY <1>3, <1>4

LEMMA SetLinkKeeps ==
    ASSUME BillingInv, NEW w \in Workers, SetLink(w)
    PROVE  BillingInv'
<1>1. task[w].todo = <<"link">>
    BY Typed, Heads DEF SetLink, At
<1>2. task[w].event \in 1..Len(made)
    BY <1>1, Typed DEF Known
<1>3. made[task[w].event] \in Event
    BY <1>2, Typed DEF RestTyped
<1>4. account' \in Account /\ account'.status = account.status
    BY <1>3, Typed DEF SetLink, RestTyped, Account, Event
<1>5. UNCHANGED <<outside, recorded, age, label, readers, noticed, troubles, history>>
    BY DEF SetLink
<1>6. RestTyped'
    BY <1>4, <1>5, Typed DEF RestTyped, outside, history
<1>7. Leave(w)
    BY <1>1, Lengths DEF SetLink, Advance, Leave
<1>8. QED
    BY <1>4, <1>5, <1>6, <1>7, LeaveKeeps DEF outside, history

\* The account changes: the clock of the job starts again, and the event of
\* the request, if it is a webhook's, is applied.
LEMMA SetPlanKeeps ==
    ASSUME BillingInv, NEW w \in Workers, SetPlan(w)
    PROVE  BillingInv'
<1> DEFINE e == task[w].event
<1>1. task[w].todo \in {<<"plan", "link">>, <<"plan">>, <<"plan", "label">>}
    BY Typed, Heads DEF SetPlan, At
<1>2. /\ UNCHANGED <<outside, recorded, label, readers, noticed, troubles, orderly>>
      /\ age' = 0
      /\ Advance(w, task[w])
      /\ unpaid' \in {0, unpaid} /\ unpaid' \in Days
      /\ unpaid' = IF account'.status = "active" THEN 0 ELSE unpaid
    BY Typed, BillingAssumption DEF SetPlan, RestTyped, Days
<1>3. account' \in Account
    <2>1. /\ task[w].plan \in Plans \cup {Keep} /\ task[w].status \in Statuses \cup {Keep}
          /\ account \in Account
        BY Typed DEF Task, RestTyped
    <2>2. /\ Coalesce(task[w].plan, account.plan) \in Plans
          /\ Coalesce(task[w].status, account.status) \in Statuses
        BY <2>1 DEF Coalesce, Account
    <2>3. account' = [account EXCEPT !.plan = Coalesce(task[w].plan, account.plan),
                                     !.status = Coalesce(task[w].status, account.status)]
        BY DEF SetPlan
    <2>4. QED
        BY <2>1, <2>2, <2>3 DEF Account
<1>4. PICK todo \in {<<"link">>, <<"label">>} :
          Len(task[w].todo) # 1 => \/ todo = <<"link">> /\ task[w].todo = <<"plan", "link">>
                                   \/ todo = <<"label">> /\ task[w].todo = <<"plan", "label">>
    BY <1>1, Lengths
<1>5. todo \in Todos /\ todo \notin Changing
    BY SubTodos DEF Changing, Todos, Administering
<1> DEFINE t == After(task[w])
<1>6. /\ t \in Task
      /\ t = Idle \/ (t.todo = todo /\ t.event = e)
    <2> Len(task[w].todo) # 1 => Tail(task[w].todo) = todo
        BY <1>4, Tails
    <2>1. /\ t \in Task
          /\ Len(task[w].todo) = 1 => t = Idle
          /\ Len(task[w].todo) # 1 => t = [task[w] EXCEPT !.todo = todo]
        BY <1>4, <1>5, Typed, AfterIsTask
    <2>2. [task[w] EXCEPT !.todo = todo].todo = todo /\ [task[w] EXCEPT !.todo = todo].event = e
        BY Typed DEF Task
    <2>3. QED
        BY <2>1, <2>2
<1>7. t.todo \notin Changing
    BY <1>5, <1>6, IdleKnown DEF Changing
<1>8. Known(t) /\ NotAhead(t)
    <2>1. CASE t = Idle
        BY <2>1, IdleKnown
    <2>2. CASE t # Idle
        <3>1. Len(task[w].todo) # 1 /\ t.todo = todo /\ t.event = e
            BY <1>6, <2>2 DEF After
        <3>2. CASE todo = <<"link">>
            <4>1. task[w].todo = <<"plan", "link">>
                BY <1>4, <3>1, <3>2
            <4>2. e # 0 /\ e \in 1..Len(made)
                BY <4>1, Typed DEF Known
            <4>3. QED
                BY <1>5, <3>1, <3>2, <4>2, SubTodos DEF Known, NotAhead
        <3>3. CASE todo = <<"label">>
            <4>1. task[w].todo = <<"plan", "label">>
                BY <1>4, <3>1, <3>3
            <4>2. task[w].todo \in Administering /\ todo \in Administering
                BY <3>3, <4>1 DEF Administering
            <4>3. e = 0
                BY <4>2, Typed DEF Known
            <4>4. /\ todo \notin Recording \cup Jobs
                  /\ todo \notin {<<"link">>, <<"plan", "link">>, <<"find", "plan", "link">>,
                                  <<"find", "plan">>}
                BY <1>5, <4>2, <3>3, SubTodos
            <4>5. QED
                BY <1>5, <3>1, <4>2, <4>3, <4>4, SubTodos DEF Known, NotAhead
        <3>4. QED
            BY <3>2, <3>3
    <2>3. QED
        BY <2>1, <2>2
<1>9. task' = [task EXCEPT ![w] = t]
    BY <1>2, AdvanceIsAfter
<1> HIDE DEF t
<1>10. /\ task' \in [Workers -> Task]
       /\ task'[w] = t
       /\ \A x \in Workers : x # w => task'[x] = task[x]
    BY <1>6, <1>9 DEF BillingInv, TypeOK
<1>11. /\ e = 0 => applied' = applied
       /\ e # 0 => /\ e \in Events
                   /\ applied' = [applied EXCEPT ![e] = applied[e] + 1]
                   /\ Applies(w, e)
    <2>1. applied' = IF e = 0 THEN applied ELSE [applied EXCEPT ![e] = applied[e] + 1]
        BY DEF SetPlan
    <2>2. e \in 0..MaxEvents
        BY Typed DEF Task
    <2>3. e # 0 => task[w].todo \in Changing
        BY <1>1, Typed DEF Known, Administering, Changing
    <2>4. QED
        BY <2>1, <2>2, <2>3, BillingAssumption DEF Events, Applies
<1>12. TypeOK'
    <2>1. applied' \in [Events -> Nat]
        BY <1>11 DEF BillingInv, TypeOK
    <2>2. age' \in Days
        BY <1>2, BillingAssumption DEF Days
    <2>3. QED
        BY <1>2, <1>3, <1>10, <2>1, <2>2 DEF BillingInv, TypeOK, outside
<1>13. TasksKnown'
    BY <1>2, <1>8, <1>10 DEF BillingInv, TasksKnown, Known, outside
<1>14. GraceInv'
    <2>1. account'.status = "past_due" => age' <= unpaid'
        BY <1>2 DEF Days
    <2>2. \A x \in Workers : task'[x] \in Task
        BY <1>10
    <2>3. \A x \in Workers : task'[x].todo = Started => age' <= task'[x].streak
        BY <1>2, <2>2 DEF Task, Days
    <2>4. \A x \in Workers : task'[x].todo \in {Ready} \cup Counted
              => task'[x].days <= task'[x].streak
        <3>1. t.todo \in {Ready} \cup Counted => t.days <= t.streak
            BY <1>8 DEF NotAhead
        <3>2. QED
            BY <1>10, <3>1 DEF BillingInv, GraceInv, NotAhead
    <2>5. QED
        BY <2>1, <2>3, <2>4 DEF GraceInv, NotAhead
<1>15. AppliedInv'
    <2> SUFFICES ASSUME NEW g \in Events
                 PROVE  /\ applied'[g] \in {0, 1}
                        /\ applied'[g] = 1 => g \in recorded'
                        /\ \A x \in Workers : Applies(x, g)' => /\ applied'[g] = 0
                                                              /\ g \in recorded'
                        /\ \A x, y \in Workers : Applies(x, g)' /\ Applies(y, g)' => x = y
        BY DEF AppliedInv
    <2>1. /\ applied[g] \in {0, 1}
          /\ applied[g] = 1 => g \in recorded
          /\ \A x \in Workers : Applies(x, g) => applied[g] = 0 /\ g \in recorded
          /\ \A x, y \in Workers : Applies(x, g) /\ Applies(y, g) => x = y
        BY DEF BillingInv, AppliedInv
    <2>2. \A x \in Workers : Applies(x, g)' => x # w /\ Applies(x, g)
        BY <1>7, <1>10 DEF Applies
    <2>3. CASE e = g
        <3>1. e # 0 /\ Applies(w, g) /\ applied' = [applied EXCEPT ![g] = applied[g] + 1]
            BY <1>11, <2>3 DEF Events
        <3>2. applied[g] = 0 /\ g \in recorded /\ applied'[g] = 1
            BY <2>1, <3>1 DEF BillingInv, TypeOK
        <3>3. \A x \in Workers : ~Applies(x, g)'
            BY <2>1, <2>2, <3>1
        <3>4. QED
            BY <1>2, <3>2, <3>3
    <2>4. CASE e # g
        <3>1. applied'[g] = applied[g]
            BY <1>11, <2>4 DEF BillingInv, TypeOK
        <3>2. QED
            BY <1>2, <2>1, <2>2, <3>1
    <2>5. QED
        BY <2>3, <2>4
<1>16. QED
    BY <1>12, <1>13, <1>14, <1>15 DEF BillingInv

-----------------------------------------------------------------------------
(* The administrator, the pages, a starting process.                       *)

LEMMA BeginKeeps ==
    ASSUME BillingInv, NEW w \in Workers, NEW t \in Task,
           task' = [task EXCEPT ![w] = t],
           t.todo \in Administering \cup {Ready, <<"plan">>}, t.event = 0, t.days = 0, t.streak = 0,
           UNCHANGED <<made, recorded, applied, age, unpaid, account>>,
           RestTyped'
    PROVE  BillingInv'
<1>1. t.todo \notin Recording \cup {<<"link">>, Started} \cup Counted /\ t.todo \in Todos
    BY SubTodos DEF Changing
<1>2. t.todo \notin {<<"plan", "link">>, <<"find", "plan", "link">>, <<"find", "plan">>}
    BY SubTodos DEF Changing
<1>3. Known(t) /\ NotAhead(t)
    BY <1>1, <1>2 DEF Known, NotAhead
<1>4. QED
    BY <1>3, MoveKeepsAll

LEMMA AdministerKeeps ==
    ASSUME BillingInv, NEW w \in Workers, NEW t \in Task, Administer(w, t),
           t.todo \in {<<"ensure", "plan", "label">>, <<"plan">>}, t.event = 0, t.days = 0, t.streak = 0
    PROVE  BillingInv'
<1>1. /\ UNCHANGED <<outside, recorded, account, age, label, readers, noticed, unpaid, applied>>
      /\ troubles' \in 0..scene.troubles /\ orderly' \in BOOLEAN
      /\ task' = [task EXCEPT ![w] = t]
    <2>1. scene.troubles \in Nat /\ troubles \in 0..scene.troubles
        BY Typed, BillingAssumption DEF RestTyped
    <2>2. troubles < scene.troubles /\ troubles' = troubles + 1
        BY DEF Administer
    <2>3. troubles' \in 0..scene.troubles
        BY <2>1, <2>2
    <2>4. QED
        BY <2>3 DEF Administer
<1>2. RestTyped'
    BY <1>1, Typed DEF RestTyped, outside
<1>3. t.todo \in Administering \cup {Ready, <<"plan">>}
    BY DEF Administering
<1>4. QED
    BY <1>1, <1>2, <1>3, BeginKeeps DEF outside

LEMMA PatchAccountKeeps ==
    ASSUME BillingInv, NEW w \in Workers, NEW p \in Plans \cup {Keep},
           NEW s \in Statuses \cup {Keep}, PatchAccount(w, p, s)
    PROVE  BillingInv'
<1> DEFINE t == [Idle EXCEPT !.todo = <<"plan">>, !.plan = p, !.status = s]
<1>1. <<"plan">> \in Seq(Steps)
    BY SubTodos, TodosAreSequences DEF Changing
<1>2. t \in Task /\ t.todo = <<"plan">> /\ t.event = 0 /\ t.days = 0 /\ t.streak = 0
    BY <1>1, IdleKnown DEF Task
<1>3. Administer(w, t)
    BY DEF PatchAccount
<1> HIDE DEF t
<1>4. QED
    BY <1>2, <1>3, AdministerKeeps

LEMMA SetUserPaidKeeps ==
    ASSUME BillingInv, NEW w \in Workers, NEW p \in Plans, SetUserPaid(w, p)
    PROVE  BillingInv'
<1> DEFINE t == [Idle EXCEPT !.todo = <<"ensure", "plan", "label">>, !.plan = p]
<1>1. <<"ensure", "plan", "label">> \in Seq(Steps)
    BY SubTodos, TodosAreSequences DEF Administering
<1>2. t \in Task /\ t.todo = <<"ensure", "plan", "label">> /\ t.event = 0 /\ t.days = 0 /\ t.streak = 0
    BY <1>1, IdleKnown DEF Task
<1>3. Administer(w, t)
    BY DEF SetUserPaid
<1> HIDE DEF t
<1>4. QED
    BY <1>2, <1>3, AdministerKeeps

LEMMA OpenPageKeeps ==
    ASSUME BillingInv, NEW w \in Workers, OpenPage(w)
    PROVE  BillingInv'
<1> DEFINE t == Starts(w, <<"ensure">>)
<1>1. <<"ensure">> \in Administering /\ <<"ensure">> \in Seq(Steps)
    BY SubTodos, TodosAreSequences DEF Administering
<1>2. t \in Task /\ t.todo = <<"ensure">> /\ t.event = 0 /\ t.days = 0 /\ t.streak = 0
    BY <1>1, IdleKnown DEF Starts, Task
<1>3. /\ UNCHANGED <<outside, recorded, account, age, label, readers, noticed, troubles, history>>
      /\ task' = [task EXCEPT ![w] = t]
    BY DEF OpenPage
<1>4. RestTyped'
    BY <1>3, Typed DEF RestTyped, outside, history
<1> HIDE DEF t
<1>5. QED
    BY <1>1, <1>2, <1>3, <1>4, BeginKeeps DEF outside, history

LEMMA BootKeeps ==
    ASSUME BillingInv, NEW w \in Workers, Boot(w)
    PROVE  BillingInv'
<1> DEFINE t == [Idle EXCEPT !.todo = <<"choose", "ensure", "plan">>, !.label = label]
<1>1. /\ <<"choose", "ensure", "plan">> \in Administering
      /\ <<"choose", "ensure", "plan">> \in Seq(Steps)
    BY SubTodos, TodosAreSequences DEF Administering
<1>2. label \in Labels
    BY Typed DEF RestTyped
<1>3. t \in Task /\ t.todo = <<"choose", "ensure", "plan">> /\ t.event = 0 /\ t.days = 0 /\ t.streak = 0
    BY <1>1, <1>2, IdleKnown DEF Task
<1>4. /\ UNCHANGED <<outside, recorded, account, age, label, readers, noticed, troubles, history>>
      /\ task' = [task EXCEPT ![w] = t]
    BY DEF Boot
<1>5. RestTyped'
    BY <1>4, Typed DEF RestTyped, outside, history
<1> HIDE DEF t
<1>6. QED
    BY <1>1, <1>3, <1>4, <1>5, BeginKeeps DEF outside, history

LEMMA ChooseKeeps ==
    ASSUME BillingInv, NEW w \in Workers, Choose(w)
    PROVE  BillingInv'
<1>1. task[w].todo = <<"choose", "ensure", "plan">> /\ task[w].event = 0
    BY Typed, Heads DEF Choose, At, Known, Administering
<1>2. UNCHANGED <<outside, recorded, account, age, label, readers, noticed, troubles, history>>
    BY DEF Choose
<1>3. RestTyped'
    BY <1>2, Typed DEF RestTyped, outside, history
<1>4. CASE label = "account"
    BY <1>2, <1>3, <1>4, LeaveKeeps DEF Choose, outside, history
<1>5. CASE label # "account"
    <2> DEFINE plan == IF task[w].label = "plan:pro" \/ account.plan = "pro" THEN "pro" ELSE "free"
               t == [task[w] EXCEPT !.plan = plan]
               todo == <<"ensure", "plan">>
    <2>1. t \in Task /\ t.todo = task[w].todo /\ t.event = 0
        BY <1>1, Typed DEF Task, Plans
    <2>2. Tail(t.todo) = todo /\ todo \in Administering /\ todo \in Todos
        BY <1>1, <2>1, Tails, SubTodos DEF Administering
    <2>3. [t EXCEPT !.todo = todo].todo = todo /\ [t EXCEPT !.todo = todo].event = 0
        BY <2>1 DEF Task
    <2>4. /\ todo \notin Recording \cup Changing \cup Jobs \cup {<<"link">>}
          /\ todo \notin {<<"plan", "link">>, <<"find", "plan", "link">>, <<"find", "plan">>}
        BY <2>2, SubTodos DEF Changing
    <2>5. Known([t EXCEPT !.todo = todo]) /\ NotAhead([t EXCEPT !.todo = todo])
        BY <2>2, <2>3, <2>4, SubTodos DEF Known, NotAhead
    <2>6. Advance(w, t)
        BY <1>5 DEF Choose
    <2> HIDE DEF t, todo
    <2>7. QED
        BY <1>2, <1>3, <2>1, <2>2, <2>4, <2>5, <2>6, AdvanceKeeps DEF outside, history
<1>6. QED
    BY <1>4, <1>5

LEMMA EnsureKeeps ==
    ASSUME BillingInv, NEW w \in Workers, Ensure(w)
    PROVE  BillingInv'
<1>1. task[w].todo \in Administering /\ task[w].event = 0
    BY Typed, Heads DEF Ensure, At, Known, Administering
<1>2. /\ UNCHANGED <<outside, recorded, account, age, readers, noticed, troubles, history>>
      /\ label' \in Labels
      /\ Leave(w) \/ Advance(w, task[w])
    BY DEF Ensure, Labels
<1>3. RestTyped'
    BY <1>2, Typed DEF RestTyped, outside, history
<1>4. CASE Leave(w)
    BY <1>2, <1>3, <1>4, LeaveKeeps DEF outside, history
<1>5. CASE Advance(w, task[w])
    <2>1. task[w].todo \in {<<"ensure", "plan", "label">>, <<"ensure">>, <<"ensure", "plan">>}
        BY Typed, Heads DEF Ensure, At
    <2>2. PICK todo \in {<<"plan", "label">>, <<"plan">>} :
              Len(task[w].todo) # 1 => Tail(task[w].todo) = todo
        BY <2>1, Lengths, Tails
    <2>3. todo \in Todos /\ todo \notin Recording \cup Jobs \cup {<<"link">>}
        BY SubTodos DEF Changing, Administering
    <2>4. todo \notin {<<"plan", "link">>, <<"find", "plan", "link">>, <<"find", "plan">>}
        OBVIOUS
    <2>5. [task[w] EXCEPT !.todo = todo].todo = todo /\ [task[w] EXCEPT !.todo = todo].event = 0
        BY <1>1, Typed DEF Task
    <2>6. Known([task[w] EXCEPT !.todo = todo]) /\ NotAhead([task[w] EXCEPT !.todo = todo])
        BY <2>3, <2>4, <2>5, SubTodos DEF Known, NotAhead
    <2>7. QED
        BY <1>1, <1>2, <1>3, <1>5, <2>2, <2>3, <2>6, Typed, AdvanceKeeps DEF outside, history
<1>6. QED
    BY <1>2, <1>4, <1>5

LEMMA SetLabelKeeps ==
    ASSUME BillingInv, NEW w \in Workers, SetLabel(w)
    PROVE  BillingInv'
<1>1. task[w].todo = <<"label">>
    BY Typed, Heads DEF SetLabel, At
<1>2. UNCHANGED <<outside, recorded, account, age, readers, noticed, troubles, history>>
    BY DEF SetLabel
<1>3. RestTyped'
    BY <1>2, Typed DEF SetLabel, LabelOf, Labels, RestTyped, outside, history
<1>4. Leave(w)
    BY <1>1, Lengths DEF SetLabel, Advance, Leave
<1>5. QED
    BY <1>2, <1>3, <1>4, LeaveKeeps DEF outside, history

-----------------------------------------------------------------------------
(* The job.                                                                *)

LEMMA StartJobKeeps ==
    ASSUME BillingInv, NEW w \in Workers, StartJob(w)
    PROVE  BillingInv'
<1> DEFINE t == Starts(w, Ready)
<1>1. Ready \in Seq(Steps)
    BY SubTodos, TodosAreSequences
<1>2. t \in Task /\ t.todo = Ready /\ t.event = 0 /\ t.days = 0 /\ t.streak = 0
    BY <1>1, IdleKnown DEF Starts, Task
<1>3. /\ UNCHANGED <<scene, stripe, made, others, recorded, account, age, label, readers,
                    noticed, troubles, history>>
      /\ task' = [task EXCEPT ![w] = t]
      /\ runs < scene.runs /\ runs' = runs + 1
    BY DEF StartJob, Ready
<1>4. runs' \in 0..scene'.runs
    <2>1. scene.runs \in Nat /\ runs \in 0..scene.runs
        BY Typed, BillingAssumption DEF RestTyped
    <2>2. QED
        BY <1>3, <2>1
<1>5. RestTyped'
    BY <1>3, <1>4, Typed DEF RestTyped, history
<1> HIDE DEF t
<1>6. QED
    BY <1>2, <1>3, <1>5, BeginKeeps DEF history

\* The account is past due: what the job will read as its start is no more than
\* the days it has been so.
LEMMA SelectUnpaidKeeps ==
    ASSUME BillingInv, NEW w \in Workers, SelectUnpaid(w)
    PROVE  BillingInv'
<1>1. task[w].todo = Ready /\ task[w].event = 0
    BY Typed, Heads, SubTodos DEF SelectUnpaid, At, Known
<1>2. UNCHANGED <<outside, recorded, account, age, label, readers, noticed, troubles, history>>
    BY DEF SelectUnpaid
<1>3. RestTyped'
    BY <1>2, Typed DEF RestTyped, outside, history
<1>4. CASE account.status = "past_due"
    <2> DEFINE t == [task[w] EXCEPT !.streak = unpaid]
               u == [t EXCEPT !.todo = Started]
    <2>1. t \in Task /\ t.todo = Ready /\ t.event = 0 /\ t.streak = unpaid
        BY <1>1, Typed DEF Task, RestTyped
    <2>2. u.todo = Started /\ u.event = 0 /\ u.streak = unpaid
        BY <2>1 DEF Task
    <2>3. age <= unpaid
        BY <1>4 DEF BillingInv, GraceInv
    <2>4. /\ Started \notin Recording \cup Changing \cup Administering \cup {<<"link">>}
          /\ Started \in Todos
        BY SubTodos
    <2>5. Started \notin {<<"plan", "link">>, <<"find", "plan", "link">>, <<"find", "plan">>}
        BY <2>4 DEF Changing
    <2>6. Known(u) /\ NotAhead(u)
        BY <2>2, <2>3, <2>4, <2>5, SubTodos DEF Known, NotAhead
    <2>7. Tail(t.todo) = Started
        BY <2>1, Tails
    <2>8. Advance(w, t)
        BY <1>4 DEF SelectUnpaid
    <2> HIDE DEF t
    <2>9. QED
        BY <1>2, <1>3, <2>1, <2>4, <2>6, <2>7, <2>8, AdvanceKeeps DEF outside, history
<1>5. CASE account.status # "past_due"
    <2> DEFINE t == [task[w] EXCEPT !.todo = <<"select", "notice", "revoke">>]
               todo == <<"notice", "revoke">>
               u == [t EXCEPT !.todo = todo]
    <2>1. <<"select", "notice", "revoke">> \in Seq(Steps)
        <3>1. "select" \in Steps /\ "notice" \in Steps /\ "revoke" \in Steps
            BY DEF Steps
        <3>2. QED
            BY <3>1, ShortSequences
    <2>2. /\ t \in Task /\ t.todo = <<"select", "notice", "revoke">> /\ t.event = 0
          /\ t.days = task[w].days /\ t.streak = task[w].streak
        BY <1>1, <2>1, Typed DEF Task
    <2>3. task[w].days <= task[w].streak
        BY <1>1, Typed DEF NotAhead
    <2>4. u.todo = todo /\ u.event = 0 /\ u.days <= u.streak
        BY <2>2, <2>3 DEF Task
    <2>5. todo \in Counted /\ todo \in Jobs
        BY SubTodos DEF Counted
    <2>6. /\ todo \notin Recording \cup Changing \cup Administering \cup {<<"link">>, Started}
          /\ todo \in Todos
        BY <2>5, SubTodos
    <2>7. todo \notin {<<"plan", "link">>, <<"find", "plan", "link">>, <<"find", "plan">>}
        BY <2>6 DEF Changing
    <2>8. Known(u) /\ NotAhead(u)
        BY <2>4, <2>6, <2>7 DEF Known, NotAhead
    <2>9. Tail(t.todo) = todo
        BY <2>2, Tails
    <2>10. Advance(w, t)
        BY <1>5 DEF SelectUnpaid
    <2> HIDE DEF t, todo
    <2>11. QED
        BY <1>2, <1>3, <2>2, <2>6, <2>8, <2>9, <2>10, AdvanceKeeps DEF outside, history
<1>6. QED
    BY <1>4, <1>5

LEMMA ReadStartKeeps ==
    ASSUME BillingInv, NEW w \in Workers, ReadStart(w)
    PROVE  BillingInv'
<1> DEFINE t == [task[w] EXCEPT !.days = age]
           todo == <<"notice", "revoke">>
           u == [t EXCEPT !.todo = todo]
<1>1. task[w].todo = Started /\ task[w].event = 0
    BY Typed, Heads, SubTodos DEF ReadStart, At, Known
<1>2. UNCHANGED <<outside, recorded, account, age, label, readers, noticed, troubles, history>>
    BY DEF ReadStart
<1>3. RestTyped'
    BY <1>2, Typed DEF RestTyped, outside, history
<1>4. /\ t \in Task /\ t.todo = Started /\ t.event = 0
      /\ t.days = age /\ t.streak = task[w].streak
    BY <1>1, Typed DEF Task, RestTyped
<1>5. age <= task[w].streak
    BY <1>1, Typed DEF NotAhead
<1>6. u.todo = todo /\ u.event = 0 /\ u.days <= u.streak
    BY <1>4, <1>5 DEF Task
<1>7. todo \in Counted /\ todo \in Jobs
    BY SubTodos DEF Counted
<1>8. /\ todo \notin Recording \cup Changing \cup Administering \cup {<<"link">>, Started}
      /\ todo \in Todos
    BY <1>7, SubTodos
<1>9. todo \notin {<<"plan", "link">>, <<"find", "plan", "link">>, <<"find", "plan">>}
    BY <1>8 DEF Changing
<1>10. Known(u) /\ NotAhead(u)
    BY <1>6, <1>8, <1>9 DEF Known, NotAhead
<1>11. Tail(t.todo) = todo
    BY <1>4, Tails
<1>12. Advance(w, t)
    BY DEF ReadStart
<1> HIDE DEF t, todo
<1>13. QED
    BY <1>2, <1>3, <1>4, <1>8, <1>10, <1>11, <1>12, AdvanceKeeps DEF outside, history

LEMMA InsertNoticesKeeps ==
    ASSUME BillingInv, NEW w \in Workers, InsertNotices(w)
    PROVE  BillingInv'
<1>1. task[w].todo = <<"notice", "revoke">> /\ task[w].todo \in Counted
    BY Typed, Heads DEF InsertNotices, At, Counted
<1>2. task[w].event = 0 /\ task[w].days <= task[w].streak
    BY <1>1, Typed, SubTodos DEF Known, NotAhead
<1>3. UNCHANGED <<outside, recorded, account, age, label, readers, noticed, troubles, history>>
    BY DEF InsertNotices
<1>4. RestTyped'
    BY <1>3, Typed DEF RestTyped, outside, history
<1>5. CASE Leave(w)
    BY <1>3, <1>4, <1>5, LeaveKeeps DEF outside, history
<1>6. CASE ~Leave(w)
    <2> DEFINE due == others = "due" \/ task[w].days \in Notices
               t == [task[w] EXCEPT !.notice = due]
               todo == <<"revoke">>
               u == [t EXCEPT !.todo = todo]
    <2>1. /\ t \in Task /\ t.todo = <<"notice", "revoke">> /\ t.event = 0
          /\ t.days = task[w].days /\ t.streak = task[w].streak
        <3>1. task[w] \in Task /\ due \in BOOLEAN
            BY Typed
        <3> HIDE DEF due
        <3>2. QED
            BY <1>1, <1>2, <3>1 DEF Task
    <2>2. u.todo = todo /\ u.event = 0 /\ u.days <= u.streak
        BY <1>2, <2>1 DEF Task
    <2>3. todo \in Counted /\ todo \in Jobs
        BY SubTodos DEF Counted
    <2>4. /\ todo \notin Recording \cup Changing \cup Administering \cup {<<"link">>, Started}
          /\ todo \in Todos
        BY <2>3, SubTodos
    <2>5. todo \notin {<<"plan", "link">>, <<"find", "plan", "link">>, <<"find", "plan">>}
        BY <2>4 DEF Changing
    <2>6. Known(u) /\ NotAhead(u)
        BY <2>2, <2>4, <2>5 DEF Known, NotAhead
    <2>7. Tail(t.todo) = todo
        BY <2>1, Tails
    <2>8. Advance(w, t)
        BY <1>6 DEF InsertNotices
    <2> HIDE DEF t, todo
    <2>9. QED
        BY <1>3, <1>4, <2>1, <2>4, <2>6, <2>7, <2>8, AdvanceKeeps DEF outside, history
<1>7. QED
    BY <1>5, <1>6

LEMMA RevokeKeeps ==
    ASSUME BillingInv, NEW w \in Workers, Revoke(w)
    PROVE  BillingInv'
<1>1. /\ UNCHANGED <<scene, stripe, made, runs, recorded, account, age, label, troubles, history>>
      /\ Leave(w)
      /\ readers' \in BOOLEAN
      /\ noticed' \subseteq noticed \cup Notices
      /\ others' \in {others, "done"}
    BY Typed DEF Revoke, Commit, RestTyped
<1>2. RestTyped'
    BY <1>1, Typed DEF RestTyped, history
<1>3. QED
    BY <1>1, <1>2, LeaveKeeps DEF history

-----------------------------------------------------------------------------
(* What happens around the requests.                                       *)

LEMMA FailKeeps ==
    ASSUME BillingInv, NEW w \in Workers, Fail(w)
    PROVE  BillingInv'
<1>1. /\ UNCHANGED <<outside, recorded, account, age, label, readers, noticed, unpaid, applied>>
      /\ Leave(w)
      /\ troubles < scene.troubles /\ troubles' = troubles + 1
      /\ orderly' = FALSE
    BY DEF Fail
<1>2. troubles' \in 0..scene.troubles
    BY <1>1, Typed, BillingAssumption DEF RestTyped
<1>3. RestTyped'
    BY <1>1, <1>2, Typed DEF RestTyped, outside
<1>4. QED
    BY <1>1, <1>3, LeaveKeeps DEF outside

LEMMA ShareKeeps ==
    ASSUME BillingInv, Share
    PROVE  BillingInv'
<1>1. /\ UNCHANGED <<outside, recorded, account, age, label, noticed, task, troubles, history>>
      /\ readers' = TRUE
    BY DEF Share
<1>2. TypeOK'
    BY <1>1 DEF BillingInv, TypeOK, outside, history
<1>3. TasksKnown'
    BY <1>1 DEF BillingInv, TasksKnown, Known, outside
<1>4. AppliedInv'
    BY <1>1 DEF BillingInv, AppliedInv, Applies, history
<1>5. GraceInv'
    BY <1>1 DEF BillingInv, GraceInv, NotAhead, history
<1>6. QED
    BY <1>2, <1>3, <1>4, <1>5 DEF BillingInv

\* Both clocks go on, and the job's only between two runs.
LEMMA TickKeeps ==
    ASSUME BillingInv, Tick
    PROVE  BillingInv'
<1>1. /\ UNCHANGED <<scene, stripe, made, recorded, account, label, readers, task, troubles,
                    applied, orderly>>
      /\ age' = NextDay(age)
      /\ unpaid' = IF account.status = "past_due" THEN NextDay(unpaid) ELSE 0
      /\ noticed' = {} /\ others' \in {"none", "due"} /\ runs' = 0
      /\ \A w \in Workers : ~At(w, "started") /\ ~At(w, "notice") /\ ~At(w, "revoke")
    BY DEF Tick
<1>2. age \in Days /\ unpaid \in Days /\ scene \in Scenes
    BY DEF BillingInv, TypeOK
<1>3. age' \in Days /\ unpaid' \in Days /\ runs' \in 0..scene.runs
    BY <1>1, <1>2, BillingAssumption DEF NextDay, Days
<1>4. TypeOK'
    BY <1>1, <1>3 DEF BillingInv, TypeOK
<1>5. TasksKnown'
    BY <1>1 DEF BillingInv, TasksKnown, Known
<1>6. AppliedInv'
    BY <1>1 DEF BillingInv, AppliedInv, Applies
<1>7. account'.status = "past_due" => age' <= unpaid'
    <2>1. account.status = "past_due" => age <= unpaid
        BY DEF BillingInv, GraceInv
    <2>2. QED
        BY <1>1, <1>2, <2>1, BillingAssumption DEF NextDay, Days
<1>8. \A w \in Workers : NotAhead(task[w])'
    <2> SUFFICES ASSUME NEW w \in Workers
                 PROVE  NotAhead(task[w])'
        OBVIOUS
    <2>1. task[w].todo # Started
        <3>1. Started # <<>> /\ Head(Started) = "started"
            BY DEF Started
        <3>2. QED
            BY <1>1, <3>1 DEF At
    <2>2. NotAhead(task[w])
        BY Typed
    <2>3. QED
        BY <1>1, <2>1, <2>2 DEF NotAhead
<1>9. QED
    BY <1>4, <1>5, <1>6, <1>7, <1>8 DEF BillingInv, GraceInv

LEMMA StripeActsKeeps ==
    ASSUME BillingInv, NEW s \in Subs, StripeActs(s)
    PROVE  BillingInv'
<1>1. PICK kind \in Kinds, state \in {"paid", "unpaid", "cancelled"} : Make(kind, s, state)
    BY DEF StripeActs, Checkout, PaymentFails, PaymentMade, Cancel, Kinds
<1>2. orderly' \in BOOLEAN
    BY DEF StripeActs, Checkout, PaymentFails, PaymentMade, Cancel, BillingInv, TypeOK
<1>3. /\ UNCHANGED <<scene, recorded, account, age, label, readers, noticed, others, runs, task,
                    troubles, unpaid, applied>>
      /\ Len(made) < scene.events
      /\ made' = Append(made, [kind |-> kind, sub |-> s])
      /\ stripe' = [stripe EXCEPT ![s] = state]
    BY <1>1 DEF Make
<1>4. /\ made \in Seq(Event) /\ scene.events \in 0..MaxEvents
      /\ [kind |-> kind, sub |-> s] \in Event
    BY BillingAssumption DEF BillingInv, TypeOK, Event
<1>5. made' \in Seq(Event) /\ Len(made') = Len(made) + 1 /\ Len(made) \in Nat
    BY <1>3, <1>4
<1>6. Len(made') <= MaxEvents
    BY <1>3, <1>4, <1>5, BillingAssumption
<1>7. TypeOK'
    BY <1>2, <1>3, <1>5, <1>6 DEF BillingInv, TypeOK
<1>8. TasksKnown'
    <2>1. 1..Len(made) \subseteq 1..Len(made')
        BY <1>5
    <2>2. QED
        BY <1>3, <2>1 DEF BillingInv, TasksKnown, Known
<1>9. AppliedInv'
    BY <1>3 DEF BillingInv, AppliedInv, Applies
<1>10. GraceInv'
    BY <1>3 DEF BillingInv, GraceInv, NotAhead
<1>11. QED
    BY <1>7, <1>8, <1>9, <1>10 DEF BillingInv

LEMMA StutterKeeps ==
    ASSUME BillingInv, UNCHANGED vars
    PROVE  BillingInv'
<1>1. TypeOK'
    BY DEF BillingInv, TypeOK, vars, outside, history
<1>2. TasksKnown'
    BY DEF BillingInv, TasksKnown, Known, vars, outside
<1>3. AppliedInv'
    BY DEF BillingInv, AppliedInv, Applies, vars, history
<1>4. GraceInv'
    BY DEF BillingInv, GraceInv, NotAhead, vars, history
<1>5. QED
    BY <1>1, <1>2, <1>3, <1>4 DEF BillingInv

-----------------------------------------------------------------------------

LEMMA InitBilling == Init => BillingInv
<1> SUFFICES ASSUME Init PROVE BillingInv
    OBVIOUS
<1>1. \A w \in Workers : task[w] = Idle
    BY DEF Init
<1>2. TypeOK
    <2>1. scene \in Scenes /\ scene.runs \in Nat /\ scene.troubles \in Nat
        BY BillingAssumption DEF Init
    <2>2. made \in Seq(Event) /\ Len(made) <= MaxEvents
        BY BillingAssumption DEF Init
    <2>3. task \in [Workers -> Task]
        BY IdleKnown DEF Init
    <2>4. account \in Account /\ label \in Labels /\ others \in {"none", "due", "done"}
        BY DEF Init, Account, Plans, Statuses, Labels
    <2>5. age \in Days /\ unpaid \in Days
        BY BillingAssumption DEF Init, Days
    <2>6. runs \in 0..scene.runs /\ troubles \in 0..scene.troubles
        BY <2>1 DEF Init
    <2>7. /\ stripe \in [Subs -> {"none", "paid", "unpaid", "cancelled"}]
          /\ applied \in [Events -> Nat]
        BY DEF Init
    <2>8. recorded \subseteq Events /\ noticed \subseteq Notices
        BY DEF Init
    <2>9. readers \in BOOLEAN /\ orderly \in BOOLEAN
        BY DEF Init
    <2>10. QED
        BY <2>1, <2>2, <2>3, <2>4, <2>5, <2>6, <2>7, <2>8, <2>9 DEF TypeOK
<1>3. TasksKnown
    BY <1>1, IdleKnown DEF TasksKnown
<1>4. AppliedInv
    <2>1. <<>> \notin Changing
        BY DEF Changing
    <2>2. \A w \in Workers, e \in Events : ~Applies(w, e)
        BY <1>1, <2>1, IdleKnown DEF Applies
    <2>3. \A e \in Events : applied[e] = 0
        BY DEF Init
    <2>4. QED
        BY <2>2, <2>3 DEF AppliedInv
<1>5. GraceInv
    <2>1. account.status = "active"
        BY DEF Init
    <2>2. QED
        BY <1>1, <2>1, IdleKnown DEF GraceInv
<1>6. QED
    BY <1>2, <1>3, <1>4, <1>5 DEF BillingInv

LEMMA StepBilling == BillingInv /\ [Next]_vars => BillingInv'
<1> SUFFICES ASSUME BillingInv, [Next]_vars PROVE BillingInv'
    OBVIOUS
<1>1. ASSUME NEW s \in Subs, StripeActs(s) PROVE BillingInv'
    BY <1>1, StripeActsKeeps
<1>2. ASSUME NEW w \in Workers, Request(w) PROVE BillingInv'
    BY <1>2, DeliverKeeps, PatchAccountKeeps, SetUserPaidKeeps, OpenPageKeeps, BootKeeps,
       StartJobKeeps DEF Request
<1>3. ASSUME NEW w \in Workers, Step(w) PROVE BillingInv'
    BY <1>3, RecordKeeps, FindKeeps, SetPlanKeeps, SetLinkKeeps, ChooseKeeps, EnsureKeeps,
       SetLabelKeeps, SelectUnpaidKeeps, ReadStartKeeps, InsertNoticesKeeps, RevokeKeeps DEF Step
<1>4. ASSUME NEW w \in Workers, Fail(w) PROVE BillingInv'
    BY <1>4, FailKeeps
<1>5. CASE Share
    BY <1>5, ShareKeeps
<1>6. CASE Tick
    BY <1>6, TickKeeps
<1>7. CASE UNCHANGED vars
    BY <1>7, StutterKeeps
<1>8. QED
    BY <1>1, <1>2, <1>3, <1>4, <1>5, <1>6, <1>7 DEF Next

\* Every state of the account is one of these, for any scenes: the requests are
\* at one of their steps, and both clocks agree.
THEOREM BillingInvariant == Spec => []BillingInv
BY InitBilling, StepBilling, PTL DEF Spec

\* However often Stripe delivers an event, to whichever worker, and whatever
\* fails, the event changes the account once at most (handle_webhook_event).
THEOREM EventsApplyOnce == Spec => []AppliedOnce
<1>1. BillingInv => AppliedOnce
    BY DEF BillingInv, AppliedInv, AppliedOnce
<1>2. QED
    BY <1>1, BillingInvariant, PTL

\* Readers lose their grants only at the end of a job, and only when the account
\* had been past due for GRACE_DAYS without a break (run_past_due_grace_job).
THEOREM GraceIsWhole == Spec => RevokedAfterGrace
<1> DEFINE Loses == readers /\ ~readers'
           Whole == \E w \in Workers : At(w, "revoke") /\ task[w].streak >= Grace
<1>1. ASSUME BillingInv, NEW w \in Workers, Revoke(w), Loses PROVE Whole
    <2>1. At(w, "revoke") /\ task[w].days >= Grace
        BY <1>1 DEF Revoke
    <2>2. task[w].todo \in Counted
        BY <1>1, <2>1, Typed, Heads DEF At, Counted
    <2>3. task[w].days <= task[w].streak /\ task[w] \in Task
        BY <1>1, <2>2, Typed DEF NotAhead
    <2>4. task[w].streak >= Grace
        BY <2>1, <2>3, BillingAssumption DEF Task, Days
    <2>5. QED
        BY <2>1, <2>4
<1>2. ASSUME NEW w \in Workers, Step(w), ~Revoke(w) PROVE ~Loses
    BY <1>2 DEF Step, Record, Find, SetPlan, SetLink, Choose, Ensure, SetLabel, SelectUnpaid,
                ReadStart, InsertNotices
<1>3. ASSUME NEW w \in Workers, Request(w) \/ Fail(w) PROVE ~Loses
    BY <1>3 DEF Request, Deliver, PatchAccount, SetUserPaid, Administer, OpenPage, Boot, StartJob,
                Fail
<1>4. ASSUME NEW s \in Subs, StripeActs(s) PROVE ~Loses
    BY <1>4 DEF StripeActs, Checkout, PaymentFails, PaymentMade, Cancel, Make
<1>5. ASSUME Share \/ Tick PROVE ~Loses
    BY <1>5 DEF Share, Tick
<1>6. BillingInv /\ [Next]_vars => [Loses => Whole]_vars
    BY <1>1, <1>2, <1>3, <1>4, <1>5 DEF Next
<1>7. QED
    BY <1>6, BillingInvariant, PTL DEF Spec, RevokedAfterGrace

-----------------------------------------------------------------------------
(* The account follows Stripe's events as long as they come in order.      *)

KindOf(t) == made[t.event].kind

\* Between the INSERT of its event and the last change of the account.
Handling(t) == t.todo \in Changing \cup {<<"link">>}

\* A request for an event does what the kind of the event asks for.
FromEvent(t) ==
    t.event # 0 =>
        /\ t.plan = PlanOf(KindOf(t)) /\ t.status = StatusOf(KindOf(t))
        /\ t.todo \in Recording => t.todo = Handler(KindOf(t))
        /\ t.todo \in {<<"plan", "link">>, <<"link">>} => KindOf(t) \in {"checkout", "deleted"}
        /\ t.todo = <<"find", "plan", "link">> => KindOf(t) = "deleted"
        /\ t.todo \in {<<"find", "plan">>, <<"plan">>} => KindOf(t) \in {"failed", "paid"}

OfEvents == \A w \in Workers : FromEvent(task[w])

\* After the first n events no subscription runs.
Ended(n) == n = 0 \/ made[n].kind = "deleted"

\* The events of one subscription after another.
Chained ==
    \A n \in 1..Len(made) :
        IF made[n].kind = "checkout" THEN Ended(n - 1)
        ELSE ~Ended(n - 1) /\ made[n].sub = made[n - 1].sub

\* What Stripe has sold with the first n events: the last of them tells.
Sold(n) ==
    IF Ended(n) THEN [plan |-> "free", status |-> "active", sub |-> NoSub]
    ELSE [plan |-> "pro", status |-> StatusOf(made[n].kind), sub |-> made[n].sub]

\* The last event tells the state at Stripe too.
AsSold ==
    LET last == Len(made) IN
    \A s \in Subs : /\ Live(s) <=> ~Ended(last) /\ made[last].sub = s
                    /\ Live(s) => (stripe[s] = "unpaid" <=> made[last].kind = "failed")

\* The first n events are in the account, but for what the request of the n-th has still
\* to do.
AccountFits(n) ==
    /\ (\A w \in Workers : ~Handling(task[w])) => account = Sold(n)
    /\ \A w \in Workers : Handling(task[w]) =>
        /\ n > 0 /\ task[w].event = n
        /\ \A x \in Workers : Handling(task[x]) => x = w
        /\ task[w].todo # <<"link">> => account = Sold(n - 1)
        /\ task[w].todo = <<"link">> => /\ account.plan = Sold(n).plan
                                        /\ account.status = Sold(n).status
                                        /\ account.sub = Sold(n - 1).sub

InOrder ==
    /\ label = "account" /\ \A w \in Workers : task[w].todo \notin Administering
    /\ Chained /\ AsSold
    /\ \E n \in 0..Len(made) : recorded = 1..n /\ AccountFits(n)

OrderInv == BillingInv /\ OfEvents /\ (orderly => InOrder)

\* Where the request of an event goes from each step.
LEMMA Stages ==
    ASSUME NEW t \in Task
    PROVE  /\ t.todo = <<"record", "plan", "link">> => After(t).todo = <<"plan", "link">>
           /\ t.todo = <<"record", "find", "plan", "link">> => After(t).todo = <<"find", "plan", "link">>
           /\ t.todo = <<"record", "find", "plan">> => After(t).todo = <<"find", "plan">>
           /\ t.todo = <<"find", "plan", "link">> => After(t).todo = <<"plan", "link">>
           /\ t.todo = <<"find", "plan">> => After(t).todo = <<"plan">>
           /\ t.todo = <<"plan", "link">> => After(t).todo = <<"link">>
           /\ t.todo \in {<<"plan">>, <<"link">>} => After(t) = Idle
           /\ t.todo \in (Recording \cup Changing) \ {<<"plan">>} =>
                /\ After(t).event = t.event /\ After(t).plan = t.plan
                /\ After(t).status = t.status
<1>1. ASSUME Len(t.todo) # 1, NEW todo \in Todos, Tail(t.todo) = todo
      PROVE  /\ After(t).todo = todo /\ After(t).event = t.event /\ After(t).plan = t.plan
             /\ After(t).status = t.status
    <2>1. After(t) = [t EXCEPT !.todo = todo]
        BY <1>1, AfterIsTask
    <2> QED
        BY <2>1 DEF Task
<1>2. {<<"plan", "link">>, <<"find", "plan", "link">>, <<"find", "plan">>, <<"plan">>, <<"link">>}
        \subseteq Todos
    BY SubTodos DEF Changing
<1>3. ASSUME t.todo \in (Recording \cup Changing) \ {<<"plan">>}
      PROVE  Len(t.todo) # 1 /\ Tail(t.todo) \in Todos
    BY <1>2, <1>3, Lengths, Tails DEF Recording, Changing, Todos
<1>4. t.todo \in {<<"plan">>, <<"link">>} => After(t) = Idle
    BY Lengths DEF After
<1>5. t.todo \in (Recording \cup Changing) \ {<<"plan">>} =>
        /\ After(t).todo = Tail(t.todo) /\ After(t).event = t.event /\ After(t).plan = t.plan
        /\ After(t).status = t.status
    BY <1>1, <1>3
<1>6. ASSUME t.todo \in {<<"record", "plan", "link">>, <<"record", "find", "plan", "link">>,
                         <<"record", "find", "plan">>, <<"find", "plan", "link">>,
                         <<"find", "plan">>, <<"plan", "link">>}
      PROVE  After(t).todo = Tail(t.todo)
    <2>1. t.todo \in (Recording \cup Changing) \ {<<"plan">>}
        BY <1>6 DEF Recording, Changing
    <2> QED
        BY <1>5, <2>1
<1> QED
    BY <1>4, <1>5, <1>6, Tails

LEMMA KindsAreFour ==
    ASSUME BillingInv
    PROVE  \A e \in 1..Len(made) : made[e].kind \in Kinds /\ made[e].sub \in Subs
<1>1. PICK n \in Nat : n = Len(made)
    BY DEF BillingInv, TypeOK
<1>2. \A e \in 1..n : made[e] \in Event
    BY <1>1 DEF BillingInv, TypeOK
<1> QED
    BY <1>1, <1>2 DEF Event

LEMMA NextFromEvent ==
    ASSUME BillingInv, NEW t \in Task, Known(t), FromEvent(t), t.event # 0,
           t.todo \in Recording \cup Changing \cup {<<"link">>}
    PROVE  FromEvent(After(t))
<1>1. KindOf(t) \in Kinds
    BY KindsAreFour DEF Known, KindOf
<1>2. PICK k \in Kinds : k = KindOf(t)
    BY <1>1
<1>3. CASE t.todo \in {<<"plan">>, <<"link">>}
    BY <1>3, Stages, IdleKnown DEF FromEvent
<1>4. CASE t.todo \notin {<<"plan">>, <<"link">>}
    <2>1. t.todo \in (Recording \cup Changing) \ {<<"plan">>}
        BY <1>4
    <2>2. PICK u : u = After(t)
        OBVIOUS
    <2>3. u.event = t.event /\ u.plan = t.plan /\ u.status = t.status
        BY <2>1, <2>2, Stages
    <2>4. KindOf(u) = k
        BY <1>2, <2>3 DEF KindOf
    <2>5. t.todo \in Recording => t.todo = Handler(k)
        BY <1>2 DEF FromEvent
    <2>6. \/ u.todo = <<"plan", "link">> /\ k \in {"checkout", "deleted"}
          \/ u.todo = <<"find", "plan", "link">> /\ k = "deleted"
          \/ u.todo \in {<<"find", "plan">>, <<"plan">>} /\ k \in {"failed", "paid"}
          \/ u.todo = <<"link">> /\ k \in {"checkout", "deleted"}
        <3>1. CASE t.todo \in Recording
            <4>1. \/ k = "checkout" /\ t.todo = <<"record", "plan", "link">>
                  \/ k = "deleted" /\ t.todo = <<"record", "find", "plan", "link">>
                  \/ k \in {"failed", "paid"} /\ t.todo = <<"record", "find", "plan">>
                BY <2>5, <3>1 DEF Handler, Kinds
            <4> QED
                BY <2>2, <4>1, Stages
        <3>2. CASE t.todo \in Changing \ {<<"plan">>}
            <4>1. \/ t.todo = <<"plan", "link">> /\ k \in {"checkout", "deleted"}
                  \/ t.todo = <<"find", "plan", "link">> /\ k = "deleted"
                  \/ t.todo = <<"find", "plan">> /\ k \in {"failed", "paid"}
                BY <1>2, <3>2 DEF FromEvent, Changing
            <4> QED
                BY <2>2, <4>1, Stages
        <3> QED
            BY <2>1, <3>1, <3>2
    <2>7. u.todo \notin Recording
        <3>1. u.todo \in Changing \cup {<<"link">>}
            BY <2>6 DEF Changing
        <3> QED
            BY <3>1, SubTodos
    <2>8. t.plan = PlanOf(k) /\ t.status = StatusOf(k)
        BY <1>2 DEF FromEvent
    <2>9. FromEvent(u)
        BY <2>3, <2>4, <2>6, <2>7, <2>8 DEF FromEvent
    <2> QED
        BY <2>2, <2>9
<1> QED
    BY <1>3, <1>4

LEMMA FromEventStays ==
    ASSUME BillingInv, OfEvents, NEW w \in Workers, NEW t \in Task, task' = [task EXCEPT ![w] = t],
           made' = made, FromEvent(t)
    PROVE  OfEvents'
<1>1. task'[w] = t /\ \A x \in Workers : x # w => task'[x] = task[x]
    BY DEF BillingInv, TypeOK
<1>2. ASSUME NEW x \in Workers
      PROVE  FromEvent(task[x])'
    <2>1. FromEvent(task'[x])
        BY <1>1 DEF OfEvents
    <2> QED
        BY <2>1 DEF FromEvent, KindOf
<1> QED
    BY <1>2 DEF OfEvents

LEMMA AfterHasEvent ==
    ASSUME NEW t \in Task, t.event = 0
    PROVE  After(t).event = 0
BY IdleKnown DEF After, Task

\* Every step of a worker's makes or leaves a request true to its event.
LEMMA StepOfEvents ==
    ASSUME BillingInv, OfEvents, NEW w \in Workers, Request(w) \/ Step(w) \/ Fail(w)
    PROVE  OfEvents'
<1>0. task[w] \in Task /\ Known(task[w]) /\ FromEvent(task[w])
    BY Typed DEF OfEvents
<1>1. made' = made /\ BillingInv'
    <2>1. made' = made
        BY DEF Request, Deliver, PatchAccount, SetUserPaid, Administer, OpenPage, Boot, StartJob, Step,
               Record, Find, SetPlan, SetLink, Choose, Ensure, SetLabel, SelectUnpaid, ReadStart,
               InsertNotices, Revoke, Commit, Fail, outside
    <2>2. [Next]_vars
        BY DEF Next
    <2> QED
        BY <2>1, <2>2, StepBilling
<1>2. \E t \in Task : task' = [task EXCEPT ![w] = t] /\ FromEvent(t)
    <2>1. ASSUME NEW t, task' = [task EXCEPT ![w] = t]
          PROVE  t \in Task
        <3>1. task' \in [Workers -> Task] /\ task'[w] = t
            BY <1>1, <2>1 DEF BillingInv, TypeOK
        <3> QED
            BY <3>1
    <2>2. CASE \E e \in Events : Deliver(w, e)
        <3>1. PICK e \in Events : Deliver(w, e)
            BY <2>2
        <3>2. PICK k : k = made[e].kind
            OBVIOUS
        <3>3. PICK t : t = [Idle EXCEPT !.todo = Handler(k), !.event = e, !.plan = PlanOf(k),
                                        !.status = StatusOf(k)]
            OBVIOUS
        <3>4. task' = [task EXCEPT ![w] = t]
            BY <3>1, <3>2, <3>3 DEF Deliver
        <3>5. t.todo = Handler(k) /\ t.event = e /\ t.plan = PlanOf(k) /\ t.status = StatusOf(k)
            BY <3>3 DEF Idle
        <3>6. t.todo \in Recording
            BY <3>5 DEF Handler, Recording
        <3>7. FromEvent(t)
            BY <3>2, <3>5, <3>6, SubTodos DEF FromEvent, KindOf, Changing
        <3> QED
            BY <2>1, <3>4, <3>7
    <2>3. CASE \/ \E p \in Plans \cup {Keep}, s \in Statuses \cup {Keep} : PatchAccount(w, p, s)
               \/ \E p \in Plans : SetUserPaid(w, p)
               \/ OpenPage(w) \/ Boot(w) \/ StartJob(w)
        <3>1. ASSUME NEW t, task' = [task EXCEPT ![w] = t], t.event = 0
              PROVE  \E u \in Task : task' = [task EXCEPT ![w] = u] /\ FromEvent(u)
            BY <2>1, <3>1 DEF FromEvent
        <3>3. CASE \E p \in Plans \cup {Keep}, s \in Statuses \cup {Keep} : PatchAccount(w, p, s)
            <4>1. PICK p, s : PatchAccount(w, p, s)
                BY <3>3
            <4>2. [Idle EXCEPT !.todo = <<"plan">>, !.plan = p, !.status = s].event = 0
                BY DEF Idle
            <4> QED
                BY <3>1, <4>1, <4>2 DEF PatchAccount, Administer
        <3>4. CASE \E p \in Plans : SetUserPaid(w, p)
            <4>1. PICK p : SetUserPaid(w, p)
                BY <3>4
            <4>2. [Idle EXCEPT !.todo = <<"ensure", "plan", "label">>, !.plan = p].event = 0
                BY DEF Idle
            <4> QED
                BY <3>1, <4>1, <4>2 DEF SetUserPaid, Administer
        <3>5. CASE OpenPage(w) \/ StartJob(w)
            <4>1. \A todo : Starts(w, todo).event = 0
                BY DEF Starts, Idle
            <4> QED
                BY <3>1, <3>5, <4>1 DEF OpenPage, StartJob
        <3>6. CASE Boot(w)
            <4>1. [Idle EXCEPT !.todo = <<"choose", "ensure", "plan">>, !.label = label].event = 0
                BY DEF Idle
            <4> QED
                BY <3>1, <3>6, <4>1 DEF Boot
        <3> QED
            BY <2>3, <3>3, <3>4, <3>5, <3>6
    <2>4. CASE Leave(w)
        <3>1. task' = [task EXCEPT ![w] = Idle]
            BY <2>4 DEF Leave
        <3> QED
            BY <3>1, IdleKnown DEF FromEvent
    <2>5. CASE Advance(w, task[w]) /\ task[w].todo # <<>>
        <3>1. task' = [task EXCEPT ![w] = After(task[w])]
            BY <2>5, AdvanceIsAfter
        <3>2. FromEvent(After(task[w]))
            <4>1. CASE task[w].event = 0
                BY <1>0, <4>1, AfterHasEvent DEF FromEvent
            <4>2. CASE task[w].event # 0
                <5>1. CASE task[w].todo \in Recording \cup Changing \cup {<<"link">>}
                    BY <1>0, <4>2, <5>1, NextFromEvent
                <5>2. task[w].todo \notin Administering \cup Jobs
                    BY <1>0, <4>2 DEF Known
                <5> QED
                    BY <1>0, <2>5, <5>1, <5>2 DEF Known, Todos
            <4> QED
                BY <4>1, <4>2
        <3> QED
            BY <2>1, <3>1, <3>2
    <2>6. CASE Choose(w) \/ SelectUnpaid(w) \/ ReadStart(w) \/ InsertNotices(w)
        <3>1. task[w].event = 0
            <4>1. task[w].todo \in Administering \cup Jobs
                BY <1>0, <2>6, Heads, SubTodos DEF Known, Choose, SelectUnpaid, ReadStart, InsertNotices, At,
                   Administering, Counted
            <4> QED
                BY <1>0, <4>1 DEF Known
        <3>2. Leave(w) \/ \E u \in Task : u.event = 0 /\ Advance(w, u)
            <4>1. CASE Choose(w)
                <5>1. Leave(w) \/ \E p \in Plans : Advance(w, [task[w] EXCEPT !.plan = p])
                    BY <4>1 DEF Choose, Plans
                <5>2. \A p \in Plans : [task[w] EXCEPT !.plan = p] \in Task /\ [task[w] EXCEPT !.plan = p].event = 0
                    BY <1>0, <3>1 DEF Task
                <5> QED
                    BY <5>1, <5>2
            <4>2. CASE SelectUnpaid(w)
                <5>1. PICK u : u = [task[w] EXCEPT !.streak = unpaid]
                    OBVIOUS
                <5>1a. u \in Task /\ u.event = 0
                    BY <1>0, <3>1, Typed, <5>1 DEF Task, RestTyped
                <5>2. <<"select", "notice", "revoke">> \in Seq(Steps)
                    <6>1. "select" \in Steps /\ "notice" \in Steps /\ "revoke" \in Steps
                        BY DEF Steps
                    <6> QED
                        BY <6>1, ShortSequences
                <5>3. PICK v : v = [task[w] EXCEPT !.todo = <<"select", "notice", "revoke">>]
                    OBVIOUS
                <5>3a. v \in Task /\ v.event = 0
                    BY <1>0, <3>1, <5>2, <5>3 DEF Task
                <5>4. Advance(w, u) \/ Advance(w, v)
                    BY <4>2, <5>1, <5>3 DEF SelectUnpaid
                <5> QED
                    BY <5>1a, <5>3a, <5>4
            <4>3. CASE ReadStart(w)
                <5>1. PICK u : u = [task[w] EXCEPT !.days = age]
                    OBVIOUS
                <5>1a. u \in Task /\ u.event = 0
                    BY <1>0, <3>1, Typed, <5>1 DEF Task, RestTyped
                <5> QED
                    BY <4>3, <5>1, <5>1a DEF ReadStart
            <4>4. CASE InsertNotices(w)
                <5>1. PICK b \in BOOLEAN : b = (others = "due" \/ task[w].days \in Notices)
                    OBVIOUS
                <5>2. PICK u : u = [task[w] EXCEPT !.notice = b]
                    OBVIOUS
                <5>2a. u \in Task /\ u.event = 0
                    BY <1>0, <3>1, <5>2, <5>1 DEF Task
                <5> QED
                    BY <4>4, <5>1, <5>2, <5>2a DEF InsertNotices
            <4> QED
                BY <2>6, <4>1, <4>2, <4>3, <4>4
        <3>3. ASSUME NEW u \in Task, u.event = 0, Advance(w, u)
              PROVE  \E t \in Task : task' = [task EXCEPT ![w] = t] /\ FromEvent(t)
            <4>1. task' = [task EXCEPT ![w] = After(u)] /\ After(u).event = 0
                BY <3>3, AdvanceIsAfter, AfterHasEvent
            <4> QED
                BY <2>1, <4>1 DEF FromEvent
        <3> QED
            BY <2>4, <3>2, <3>3
    <2> QED
        BY <2>2, <2>3, <2>4, <2>5, <2>6
        DEF Request, Step, Record, Find, SetPlan, SetLink, Ensure, SetLabel, Revoke, Commit, Fail, At
<1> QED
    BY <1>1, <1>2, FromEventStays

\* What Stripe does changes no event that was made.
LEMMA MadeGrows ==
    ASSUME BillingInv, NEW kind \in Kinds, NEW s \in Subs, made' = Append(made, [kind |-> kind, sub |-> s])
    PROVE  /\ Len(made) \in Nat /\ Len(made') = Len(made) + 1
           /\ \A n \in 1..Len(made) : made'[n] = made[n]
           /\ made'[Len(made')].kind = kind /\ made'[Len(made')].sub = s
<1>1. made \in Seq(Event) /\ [kind |-> kind, sub |-> s] \in Event
    BY DEF BillingInv, TypeOK, Event
<1> QED
    BY <1>1

LEMMA OthersOfEvents ==
    ASSUME BillingInv, OfEvents, (\E s \in Subs : StripeActs(s)) \/ Share \/ Tick \/ UNCHANGED vars
    PROVE  OfEvents'
<1>1. task' = task
    BY DEF StripeActs, Checkout, PaymentFails, PaymentMade, Cancel, Make, Share, Tick, vars
<1>2. \A w \in Workers : task[w].event # 0 => made'[task[w].event] = made[task[w].event]
    <2>1. CASE \E s \in Subs : StripeActs(s)
        <3>1. PICK s \in Subs, kind \in Kinds : made' = Append(made, [kind |-> kind, sub |-> s])
            BY <2>1 DEF StripeActs, Checkout, PaymentFails, PaymentMade, Cancel, Make, Kinds
        <3> QED
            BY <3>1, MadeGrows, Typed DEF Known
    <2>2. CASE made' = made
        BY <2>2
    <2> QED
        BY <2>1, <2>2 DEF Share, Tick, vars, outside
<1> QED
    BY <1>1, <1>2 DEF OfEvents, FromEvent, KindOf

\* A step of a worker that neither begins nor ends the handling of an event.
LEMMA BystanderInOrder ==
    ASSUME BillingInv, BillingInv', InOrder, NEW w \in Workers,
           \A x \in Workers \ {w} : task'[x] = task[x],
           UNCHANGED <<stripe, made, recorded, account, label>>,
           ~Handling(task[w]), ~Handling(task'[w]), task'[w].todo \notin Administering
    PROVE  InOrder'
<1>1. \A x \in Workers : Handling(task'[x]) => x # w /\ Handling(task[x])
    OBVIOUS
<1>2. \A x \in Workers : Handling(task[x]) => task'[x] = task[x]
    OBVIOUS
<1>3. Chained' /\ AsSold'
    BY DEF InOrder, Chained, AsSold, Ended, Live
<1>4. PICK n \in 0..Len(made) : recorded = 1..n /\ AccountFits(n)
    BY DEF InOrder
<1>5. Sold(n)' = Sold(n) /\ Sold(n - 1)' = Sold(n - 1)
    BY DEF Sold, Ended
<1>6. AccountFits(n)'
    <2>1. ASSUME \A x \in Workers : ~Handling(task'[x])
          PROVE  account' = Sold(n)'
        BY <1>2, <1>4, <1>5, <2>1 DEF AccountFits
    <2>2. ASSUME NEW x \in Workers, Handling(task'[x])
          PROVE  /\ n > 0 /\ task'[x].event = n
                 /\ \A y \in Workers : Handling(task'[y]) => y = x
                 /\ task'[x].todo # <<"link">> => account' = Sold(n - 1)'
                 /\ task'[x].todo = <<"link">> => /\ account'.plan = Sold(n)'.plan
                                                  /\ account'.status = Sold(n)'.status
                                                  /\ account'.sub = Sold(n - 1)'.sub
        BY <1>1, <1>2, <1>4, <1>5, <2>2 DEF AccountFits
    <2> QED
        BY <2>1, <2>2 DEF AccountFits, Handling
<1>7. label' = "account" /\ \A x \in Workers : task'[x].todo \notin Administering
    BY DEF InOrder
<1> QED
    BY <1>3, <1>4, <1>6, <1>7 DEF InOrder

\* The tasks of the others.
LEMMA OthersTasks ==
    ASSUME BillingInv, BillingInv', NEW w \in Workers, NEW t, task' = [task EXCEPT ![w] = t]
    PROVE  t \in Task /\ task'[w] = t /\ \A x \in Workers \ {w} : task'[x] = task[x]
BY DEF BillingInv, TypeOK

LEMMA JobInOrder ==
    ASSUME BillingInv, BillingInv', InOrder, NEW w \in Workers,
           SelectUnpaid(w) \/ ReadStart(w) \/ InsertNotices(w) \/ Revoke(w)
    PROVE  InOrder'
<1>1. task[w] \in Task /\ task[w].todo \in Jobs
    BY Typed, Heads DEF SelectUnpaid, ReadStart, InsertNotices, Revoke, At, Jobs, Counted
<1>2. ~Handling(task[w])
    BY <1>1, SubTodos DEF Handling
<1>3. UNCHANGED <<stripe, made, recorded, account, label>>
    BY DEF SelectUnpaid, ReadStart, InsertNotices, Revoke, Commit, outside
<1>4. PICK t : task' = [task EXCEPT ![w] = t]
    BY DEF SelectUnpaid, ReadStart, InsertNotices, Revoke, Commit, Leave, Advance
<1>5. t \in Task /\ task'[w] = t /\ \A x \in Workers \ {w} : task'[x] = task[x]
    BY <1>4, OthersTasks
<1>6. t.todo \in Jobs \cup {<<>>}
    <2>1. CASE Leave(w)
        <3>1. t = Idle
            BY <1>5, <2>1 DEF Leave, BillingInv, TypeOK
        <3> QED
            BY <3>1, IdleKnown
    <2>2. CASE SelectUnpaid(w)
        <3>1. PICK u : Advance(w, u) /\ (u.todo = Ready \/ u.todo = <<"select", "notice", "revoke">>)
            <4>1. [task[w] EXCEPT !.streak = unpaid].todo = task[w].todo
                BY <1>1 DEF Task
            <4>2. [task[w] EXCEPT !.todo = <<"select", "notice", "revoke">>].todo = <<"select", "notice", "revoke">>
                BY <1>1 DEF Task
            <4>3. task[w].todo = Ready
                BY <1>1, <2>2, Heads, Typed DEF SelectUnpaid, At
            <4> QED
                BY <2>2, <4>1, <4>2, <4>3 DEF SelectUnpaid
        <3>2. Len(u.todo) # 1
            <4>1. Ready \in Todos /\ Ready \notin {<<>>, <<"link">>, <<"plan">>, <<"label">>, <<"ensure">>, <<"revoke">>}
                BY SubTodos DEF Ready
            <4> QED
                BY <3>1, <4>1, Lengths
        <3>3. t = [u EXCEPT !.todo = Tail(u.todo)]
            BY <1>5, <3>1, <3>2 DEF Advance, BillingInv, TypeOK
        <3>4. t.todo = Tail(u.todo)
            <4>1. t \in Task
                BY <1>5
            <4> QED
                BY <3>3, <4>1 DEF Task
        <3> QED
            BY <3>1, <3>4, Tails DEF Jobs, Counted
    <2>3. CASE ReadStart(w) \/ (InsertNotices(w) /\ ~Leave(w))
        <3>1. PICK u \in Task : Advance(w, u) /\ u.todo = task[w].todo
            <4>1. CASE ReadStart(w)
                <5>1. PICK u : u = [task[w] EXCEPT !.days = age]
                    OBVIOUS
                <5>2. u \in Task /\ u.todo = task[w].todo
                    BY <1>1, <5>1, Typed DEF Task, RestTyped
                <5> QED
                    BY <4>1, <5>1, <5>2 DEF ReadStart
            <4>2. CASE InsertNotices(w) /\ ~Leave(w)
                <5>1. PICK b \in BOOLEAN : b = (others = "due" \/ task[w].days \in Notices)
                    OBVIOUS
                <5>2. PICK u : u = [task[w] EXCEPT !.notice = b]
                    OBVIOUS
                <5>3. u \in Task /\ u.todo = task[w].todo
                    BY <1>1, <5>1, <5>2 DEF Task
                <5> QED
                    BY <4>2, <5>1, <5>2, <5>3 DEF InsertNotices
            <4> QED
                BY <2>3, <4>1, <4>2
        <3>2. task[w].todo \in {Started, <<"notice", "revoke">>}
            BY <2>3, Heads, Typed DEF ReadStart, InsertNotices, At
        <3>3. Tail(task[w].todo) \in Jobs /\ Len(task[w].todo) # 1 /\ Jobs \subseteq Todos
            <4>1. task[w].todo \notin {<<>>, <<"link">>, <<"plan">>, <<"label">>, <<"ensure">>, <<"revoke">>}
                BY <3>2 DEF Started
            <4> QED
                BY <1>1, <3>2, <4>1, Tails, Lengths, SubTodos DEF Jobs, Counted
        <3>4. After(u).todo = Tail(task[w].todo)
            BY <3>1, <3>3, AfterIsTask
        <3>5. task' = [task EXCEPT ![w] = After(u)]
            BY <3>1, AdvanceIsAfter
        <3>6. t = After(u)
            BY <1>5, <3>5, OthersTasks
        <3> QED
            BY <3>3, <3>4, <3>6
    <2>4. CASE Revoke(w)
        BY <2>1, <2>4 DEF Revoke, Commit
    <2> QED
        BY <2>1, <2>2, <2>3, <2>4
<1>7. ~Handling(t) /\ t.todo \notin Administering
    BY <1>6, SubTodos DEF Handling, Changing, Administering
<1> QED
    BY <1>2, <1>3, <1>5, <1>7, BystanderInOrder

LEMMA RequestInOrder ==
    ASSUME BillingInv, BillingInv', InOrder, NEW w \in Workers, Request(w), orderly'
    PROVE  InOrder'
<1>1. CASE \E e \in Events : Deliver(w, e)
    <2>1. PICK e \in Events : Deliver(w, e)
        BY <1>1
    <2>2. PICK k : k = made[e].kind
        OBVIOUS
    <2>3. PICK t : t = [Idle EXCEPT !.todo = Handler(k), !.event = e, !.plan = PlanOf(k),
                                    !.status = StatusOf(k)]
        OBVIOUS
    <2>4. task' = [task EXCEPT ![w] = t]
        BY <2>1, <2>2, <2>3 DEF Deliver
    <2>5. t.todo \in Recording
        BY <2>3 DEF Idle, Handler, Recording
    <2>6. ~Handling(t) /\ t.todo \notin Administering
        BY <2>5, SubTodos DEF Handling
    <2>7. ~Handling(task[w])
        BY <2>1 DEF Deliver, IsIdle, Handling, Changing
    <2>8. UNCHANGED <<stripe, made, recorded, account, label>>
        BY <2>1 DEF Deliver, outside
    <2> QED
        BY <2>4, <2>6, <2>7, <2>8, OthersTasks, BystanderInOrder
<1>2. CASE StartJob(w)
    <2>1. PICK t : t = Starts(w, Ready)
        OBVIOUS
    <2>2. task' = [task EXCEPT ![w] = t]
        BY <1>2, <2>1 DEF StartJob, Ready
    <2>3. t.todo = Ready
        BY <2>1 DEF Starts, Idle
    <2>4. ~Handling(t) /\ t.todo \notin Administering
        BY <2>3, SubTodos DEF Handling
    <2>5. ~Handling(task[w])
        BY <1>2 DEF StartJob, IsIdle, Handling, Changing
    <2>6. UNCHANGED <<stripe, made, recorded, account, label>>
        BY <1>2 DEF StartJob
    <2> QED
        BY <2>2, <2>4, <2>5, <2>6, OthersTasks, BystanderInOrder
<1>3. CASE OpenPage(w) \/ Boot(w)
    BY <1>3 DEF OpenPage, Boot, InOrder
<1>4. CASE \/ \E p \in Plans \cup {Keep}, s \in Statuses \cup {Keep} : PatchAccount(w, p, s)
           \/ \E p \in Plans : SetUserPaid(w, p)
    BY <1>4 DEF PatchAccount, SetUserPaid, Administer
<1> QED
    BY <1>1, <1>2, <1>3, <1>4 DEF Request

LEMMA AdminsAreOut ==
    ASSUME BillingInv, InOrder, NEW w \in Workers
    PROVE  ~Choose(w) /\ ~Ensure(w) /\ ~SetLabel(w)
<1>1. task[w].todo \notin Administering /\ task[w].todo \in Todos
    BY Typed DEF InOrder
<1> QED
    BY <1>1, Heads DEF Choose, Ensure, SetLabel, At, Administering

LEMMA AroundInOrder ==
    ASSUME InOrder, UNCHANGED <<stripe, made, recorded, account, label, task>>
    PROVE  InOrder'
<1>1. Chained' /\ AsSold'
    BY DEF InOrder, Chained, AsSold, Ended, Live
<1>2. PICK n \in 0..Len(made) : recorded = 1..n /\ AccountFits(n)
    BY DEF InOrder
<1>3. AccountFits(n)'
    BY <1>2 DEF AccountFits, Sold, Ended, Handling
<1> QED
    BY <1>1, <1>2, <1>3 DEF InOrder

\* The events of the request at hand, and of the one before it.
LEMMA RecordInOrder ==
    ASSUME BillingInv, BillingInv', InOrder, NEW w \in Workers, Record(w), orderly'
    PROVE  InOrder'
<1>1. task[w] \in Task /\ task[w].todo \in Recording /\ Known(task[w])
    BY Typed, Heads DEF Record, At
<1>2. PICK e \in 1..Len(made) : e = task[w].event
    BY <1>1 DEF Known
<1>3. ~Handling(task[w])
    BY <1>1, SubTodos DEF Handling
<1>4. UNCHANGED <<stripe, made, account, label>>
    BY DEF Record, outside
<1>5. CASE e \in recorded
    <2>1. task' = [task EXCEPT ![w] = Idle] /\ recorded' = recorded
        BY <1>2, <1>5 DEF Record, Leave
    <2>2. task'[w] = Idle /\ \A x \in Workers \ {w} : task'[x] = task[x]
        BY <2>1, OthersTasks
    <2>3. ~Handling(Idle) /\ Idle.todo \notin Administering
        BY IdleKnown DEF Handling, Changing, Administering
    <2> QED
        BY <1>3, <1>4, <2>1, <2>2, <2>3, BystanderInOrder
<1>6. CASE e \notin recorded
    <2>1. /\ Advance(w, task[w]) /\ recorded' = recorded \cup {e} /\ recorded = 1..(e - 1)
          /\ \A x \in Workers \ {w} : IsIdle(x) \/ At(x, "record")
        BY <1>2, <1>6 DEF Record
    <2>2. PICK n \in 0..Len(made) : recorded = 1..n /\ AccountFits(n)
        BY DEF InOrder
    <2>3. Len(made) \in Nat
        BY DEF BillingInv, TypeOK
    <2>4. e = n + 1
        <3>1. \A i \in Nat : (1 <= i /\ i <= n) <=> (1 <= i /\ i <= e - 1)
            BY <2>1, <2>2, <2>3
        <3>2. n \in Nat /\ e \in Nat /\ e >= 1 /\ e - 1 \in Nat
            BY <2>3
        <3>3. n <= e - 1
            <4>1. (1 <= n /\ n <= n) <=> (1 <= n /\ n <= e - 1)
                BY <3>1, <3>2
            <4> QED
                BY <3>2, <4>1
        <3>4. e - 1 <= n
            <4>1. (1 <= e - 1 /\ e - 1 <= n) <=> (1 <= e - 1 /\ e - 1 <= e - 1)
                BY <3>1, <3>2
            <4> QED
                BY <3>2, <4>1
        <3> QED
            BY <3>2, <3>3, <3>4
    <2>5. recorded' = 1..e
        BY <2>1, <2>3
    <2>6. \A x \in Workers : ~Handling(task[x])
        <3>1. ASSUME NEW x \in Workers \ {w}
              PROVE  ~Handling(task[x])
            <4>1. IsIdle(x) \/ task[x].todo \in Recording
                BY <2>1, Typed, Heads DEF At
            <4>2. <<>> \notin Changing \cup {<<"link">>}
                BY DEF Changing
            <4>3. CASE IsIdle(x)
                BY <4>2, <4>3 DEF Handling, IsIdle
            <4>4. CASE task[x].todo \in Recording
                BY <4>4, SubTodos DEF Handling
            <4> QED
                BY <4>1, <4>3, <4>4
        <3> QED
            BY <1>3, <3>1
    <2>7. account = Sold(e - 1)
        BY <2>2, <2>3, <2>4, <2>6 DEF AccountFits
    <2>8. PICK t : t = After(task[w])
        OBVIOUS
    <2>9. t \in Task /\ task'[w] = t /\ \A x \in Workers \ {w} : task'[x] = task[x]
        BY <2>1, <2>8, AdvanceIsAfter, OthersTasks
    <2>10. t.event = e /\ t.todo \in Changing /\ t.todo # <<"link">>
        <3>1. task[w].todo \in (Recording \cup Changing) \ {<<"plan">>}
            BY <1>1 DEF Recording
        <3>2. t.event = e
            BY <1>1, <1>2, <2>8, <3>1, Stages
        <3>3. t.todo \in {<<"plan", "link">>, <<"find", "plan", "link">>, <<"find", "plan">>}
            BY <1>1, <2>8, Stages DEF Recording
        <3> QED
            BY <3>2, <3>3 DEF Changing
    <2>11. Handling(t) /\ \A x \in Workers : Handling(task'[x]) => x = w
        BY <2>6, <2>9, <2>10 DEF Handling
    <2>12. Chained' /\ AsSold' /\ label' = "account" /\ Sold(e - 1)' = Sold(e - 1)
        BY <1>4 DEF InOrder, Chained, AsSold, Ended, Live, Sold
    <2>13. AccountFits(e)'
        <3>1. account' = Sold(e - 1)' /\ e > 0
            BY <1>4, <2>7, <2>12
        <3> QED
            BY <2>9, <2>10, <2>11, <3>1 DEF AccountFits, Handling
    <2>14. \A x \in Workers : task'[x].todo \notin Administering
        BY <2>9, <2>10, SubTodos DEF InOrder
    <2> QED
        BY <1>4, <2>3, <2>5, <2>12, <2>13, <2>14 DEF InOrder
<1> QED
    BY <1>5, <1>6

\* A worker that handles the last recorded event alone, before and after its step.
LEMMA HandlerInOrder ==
    ASSUME BillingInv, BillingInv', InOrder, NEW w \in Workers, NEW t, NEW n \in 1..Len(made),
           recorded = 1..n, AccountFits(n), Handling(task[w]),
           task' = [task EXCEPT ![w] = t],
           UNCHANGED <<stripe, made, recorded, label>>,
           \/ t = Idle /\ account' = Sold(n)
           \/ t.event = n /\ t.todo \in Changing /\ account' = Sold(n - 1)
           \/ /\ t.event = n /\ t.todo = <<"link">> /\ account'.plan = Sold(n).plan
              /\ account'.status = Sold(n).status /\ account'.sub = Sold(n - 1).sub
    PROVE  InOrder'
<1>1. task'[w] = t /\ \A x \in Workers \ {w} : task'[x] = task[x]
    BY OthersTasks
<1>2. \A x \in Workers \ {w} : ~Handling(task[x])
    BY DEF AccountFits
<1>3. Chained' /\ AsSold' /\ label' = "account" /\ Sold(n)' = Sold(n) /\ Sold(n - 1)' = Sold(n - 1)
    BY DEF InOrder, Chained, AsSold, Ended, Live, Sold
<1>4. ~Handling(Idle) /\ <<"link">> \notin Changing
    BY IdleKnown DEF Handling, Changing
<1>5. AccountFits(n)'
    <2>0. n > 0
        BY DEF BillingInv, TypeOK
    <2>1. \A x \in Workers : Handling(task'[x]) => x = w
        BY <1>1, <1>2
    <2>2. CASE t = Idle /\ account' = Sold(n)
        <3>1. \A x \in Workers : ~Handling(task'[x])
            BY <1>1, <1>4, <2>1, <2>2
        <3> QED
            BY <1>3, <2>2, <3>1 DEF AccountFits, Handling
    <2>3. CASE t.event = n /\ t.todo \in Changing /\ account' = Sold(n - 1)
        <3>1. Handling(task'[w]) /\ task'[w].todo # <<"link">>
            BY <1>1, <1>4, <2>3 DEF Handling
        <3> QED
            BY <1>1, <1>3, <2>0, <2>1, <2>3, <3>1 DEF AccountFits, Handling
    <2>4. CASE /\ t.event = n /\ t.todo = <<"link">> /\ account'.plan = Sold(n).plan
               /\ account'.status = Sold(n).status /\ account'.sub = Sold(n - 1).sub
        <3>1. Handling(task'[w])
            BY <1>1, <2>4 DEF Handling
        <3> QED
            BY <1>1, <1>3, <2>0, <2>1, <2>4, <3>1 DEF AccountFits, Handling
    <2> QED
        BY <2>2, <2>3, <2>4
<1>6. t.todo \notin Administering
    BY IdleKnown, SubTodos DEF Administering
<1>7. \A x \in Workers : task'[x].todo \notin Administering
    BY <1>1, <1>6 DEF InOrder
<1>8. n \in 0..Len(made') /\ recorded' = 1..n
    BY DEF BillingInv, TypeOK
<1> QED
    BY <1>3, <1>5, <1>7, <1>8 DEF InOrder

LEMMA FindInOrder ==
    ASSUME BillingInv, BillingInv', OfEvents, InOrder, NEW w \in Workers, Find(w)
    PROVE  InOrder'
<1>1. /\ task[w] \in Task /\ task[w].todo \in {<<"find", "plan", "link">>, <<"find", "plan">>}
      /\ Known(task[w]) /\ task[w].todo \in Changing
    BY Typed, Heads DEF Find, At, Changing
<1>2. Handling(task[w])
    BY <1>1 DEF Handling
<1>3. PICK n \in 0..Len(made) : recorded = 1..n /\ AccountFits(n)
    BY DEF InOrder
<1>4. n > 0 /\ task[w].event = n /\ account = Sold(n - 1)
    BY <1>1, <1>2, <1>3 DEF AccountFits
<1>5. n \in 1..Len(made) /\ Len(made) \in Nat
    BY <1>3, <1>4 DEF BillingInv, TypeOK
<1>6. made[n].kind # "checkout"
    BY <1>1, <1>4 DEF OfEvents, FromEvent, KindOf
<1>7. ~Ended(n - 1) /\ made[n].sub = made[n - 1].sub
    BY <1>5, <1>6 DEF InOrder, Chained
<1>8. account.sub = made[n].sub
    BY <1>4, <1>7 DEF Sold
<1>9. task' = [task EXCEPT ![w] = After(task[w])]
    BY <1>4, <1>8, AdvanceIsAfter DEF Find
<1>10. UNCHANGED <<stripe, made, recorded, account, label>>
    BY DEF Find, outside
<1>11. PICK t : t = After(task[w])
    OBVIOUS
<1>12. t.event = n /\ t.todo \in Changing
    <2>1. task[w].todo \in (Recording \cup Changing) \ {<<"plan">>}
        BY <1>1
    <2>2. t.event = n
        BY <1>1, <1>4, <1>11, <2>1, Stages
    <2>3. t.todo \in {<<"plan", "link">>, <<"plan">>}
        BY <1>1, <1>11, Stages
    <2> QED
        BY <2>2, <2>3 DEF Changing
<1> QED
    BY <1>2, <1>3, <1>4, <1>5, <1>9, <1>10, <1>11, <1>12, HandlerInOrder

LEMMA SetPlanInOrder ==
    ASSUME BillingInv, BillingInv', OfEvents, InOrder, NEW w \in Workers, SetPlan(w)
    PROVE  InOrder'
<1>1. /\ task[w] \in Task /\ task[w].todo \in {<<"plan", "link">>, <<"plan">>}
      /\ task[w].todo \in Changing /\ task[w].todo # <<"link">>
    <2>1. task[w].todo \in {<<"plan", "link">>, <<"plan">>, <<"plan", "label">>} /\ task[w] \in Task
        BY Typed, Heads DEF SetPlan, At
    <2> QED
        BY <2>1 DEF InOrder, Administering, Changing
<1>2. Handling(task[w])
    BY <1>1 DEF Handling
<1>3. PICK n \in 0..Len(made) : recorded = 1..n /\ AccountFits(n)
    BY DEF InOrder
<1>4. n > 0 /\ task[w].event = n /\ account = Sold(n - 1)
    BY <1>1, <1>2, <1>3 DEF AccountFits
<1>5. n \in 1..Len(made) /\ Len(made) \in Nat
    BY <1>3, <1>4 DEF BillingInv, TypeOK
<1>6. PICK k \in Kinds : k = made[n].kind
    BY <1>5, KindsAreFour
<1>7. /\ task[w].plan = PlanOf(k) /\ task[w].status = StatusOf(k)
      /\ task[w].todo = <<"plan", "link">> => k \in {"checkout", "deleted"}
      /\ task[w].todo = <<"plan">> => k \in {"failed", "paid"}
    <2>1. task[w].event # 0 /\ KindOf(task[w]) = k
        BY <1>4, <1>5, <1>6 DEF KindOf
    <2>2. FromEvent(task[w])
        BY DEF OfEvents
    <2> QED
        BY <2>1, <2>2 DEF FromEvent
<1>8. PICK p, s : p = Coalesce(PlanOf(k), account.plan) /\ s = Coalesce(StatusOf(k), account.status)
    OBVIOUS
<1>9. account' = [account EXCEPT !.plan = p, !.status = s]
    BY <1>7, <1>8 DEF SetPlan
<1>10. account \in Account /\ account'.plan = p /\ account'.status = s /\ account'.sub = account.sub
    BY <1>9 DEF BillingInv, TypeOK, Account
<1>11. s = StatusOf(k)
    BY <1>8 DEF Coalesce, StatusOf, Keep
<1>12. UNCHANGED <<stripe, made, recorded, label>> /\ task' = [task EXCEPT ![w] = After(task[w])]
    BY AdvanceIsAfter DEF SetPlan, outside
<1>13. PICK t : t = After(task[w])
    OBVIOUS
<1>14. CASE task[w].todo = <<"plan", "link">>
    <2>1. t.event = n /\ t.todo = <<"link">>
        BY <1>1, <1>4, <1>13, <1>14, Stages
    <2>2. p = Sold(n).plan /\ s = Sold(n).status
        <3>1. k \in {"checkout", "deleted"}
            BY <1>7, <1>14
        <3>2. CASE k = "checkout"
            <4>1. ~Ended(n)
                BY <1>4, <1>6, <3>2 DEF Ended
            <4>2. p = "pro"
                BY <1>8, <3>2 DEF PlanOf, Coalesce, Keep
            <4> QED
                BY <1>6, <1>11, <4>1, <4>2 DEF Sold
        <3>3. CASE k = "deleted"
            <4>1. Ended(n)
                BY <1>6, <3>3 DEF Ended
            <4>2. p = "free" /\ s = "active"
                BY <1>8, <1>11, <3>3 DEF PlanOf, Coalesce, Keep, StatusOf
            <4> QED
                BY <4>1, <4>2 DEF Sold
        <3> QED
            BY <3>1, <3>2, <3>3
    <2>3. account'.sub = Sold(n - 1).sub
        BY <1>4, <1>10
    <2> QED
        BY <1>2, <1>3, <1>5, <1>10, <1>12, <1>13, <2>1, <2>2, <2>3, HandlerInOrder
<1>15. CASE task[w].todo = <<"plan">>
    <2>1. t = Idle
        BY <1>1, <1>13, <1>15, Stages
    <2>2. k \in {"failed", "paid"}
        BY <1>7, <1>15
    <2>3. ~Ended(n - 1) /\ made[n].sub = made[n - 1].sub
        BY <1>5, <1>6, <2>2 DEF InOrder, Chained
    <2>4. account.plan = "pro" /\ account.sub = made[n].sub
        BY <1>4, <2>3 DEF Sold
    <2>5. p = "pro"
        BY <1>8, <2>2, <2>4 DEF PlanOf, Coalesce, Keep
    <2>6. ~Ended(n)
        BY <1>4, <1>6, <2>2 DEF Ended
    <2>7. account' = [plan |-> "pro", status |-> StatusOf(k), sub |-> made[n].sub]
        <3>1. account' \in Account
            BY DEF BillingInv, TypeOK
        <3> QED
            BY <1>10, <1>11, <2>4, <2>5, <3>1 DEF Account
    <2>8. account' = Sold(n)
        BY <1>6, <2>6, <2>7 DEF Sold
    <2> QED
        BY <1>2, <1>3, <1>5, <1>12, <1>13, <2>1, <2>8, HandlerInOrder
<1> QED
    BY <1>1, <1>14, <1>15

LEMMA SetLinkInOrder ==
    ASSUME BillingInv, BillingInv', OfEvents, InOrder, NEW w \in Workers, SetLink(w)
    PROVE  InOrder'
<1>1. task[w] \in Task /\ task[w].todo = <<"link">>
    BY Typed, Heads DEF SetLink, At
<1>2. Handling(task[w])
    BY <1>1 DEF Handling
<1>3. PICK n \in 0..Len(made) : recorded = 1..n /\ AccountFits(n)
    BY DEF InOrder
<1>4. /\ n > 0 /\ task[w].event = n /\ account.plan = Sold(n).plan /\ account.status = Sold(n).status
    BY <1>1, <1>2, <1>3 DEF AccountFits
<1>5. n \in 1..Len(made) /\ Len(made) \in Nat
    BY <1>3, <1>4 DEF BillingInv, TypeOK
<1>6. made[n].kind \in {"checkout", "deleted"}
    <2>1. task[w].event # 0 /\ KindOf(task[w]) = made[n].kind
        BY <1>4, <1>5 DEF KindOf
    <2>2. FromEvent(task[w])
        BY DEF OfEvents
    <2> QED
        BY <1>1, <2>1, <2>2 DEF FromEvent
<1>7. PICK s : s = IF made[n].kind = "checkout" THEN made[n].sub ELSE NoSub
    OBVIOUS
<1>8. account' = [account EXCEPT !.sub = s]
    BY <1>4, <1>7 DEF SetLink
<1>9. /\ account \in Account /\ account' \in Account /\ account'.plan = account.plan
      /\ account'.status = account.status /\ account'.sub = s
    BY <1>8 DEF BillingInv, TypeOK, Account
<1>10. s = Sold(n).sub
    BY <1>4, <1>6, <1>7 DEF Sold, Ended
<1>11. account' = Sold(n)
    <2>1. PICK p, q, r : Sold(n) = [plan |-> p, status |-> q, sub |-> r]
        BY DEF Sold
    <2> QED
        BY <1>4, <1>9, <1>10, <2>1 DEF Account
<1>12. UNCHANGED <<stripe, made, recorded, label>> /\ task' = [task EXCEPT ![w] = Idle]
    <2>1. UNCHANGED <<stripe, made, recorded, label>> /\ Advance(w, task[w])
        BY DEF SetLink, outside
    <2>2. After(task[w]) = Idle
        BY <1>1, Stages
    <2> QED
        BY <2>1, <2>2, AdvanceIsAfter
<1>13. PICK t : t = Idle
    OBVIOUS
<1> QED
    BY <1>2, <1>3, <1>5, <1>11, <1>12, <1>13, HandlerInOrder
\* Stripe makes one more event: of a new subscription when none runs, or of the
\* one that does.
LEMMA StripeInOrder ==
    ASSUME BillingInv, InOrder, NEW s \in Subs, StripeActs(s), orderly'
    PROVE  InOrder'
<1>1. PICK kind \in Kinds, state \in {"paid", "unpaid", "cancelled"} :
        /\ Make(kind, s, state)
        /\ kind = "checkout" => ~\E x \in Subs : Live(x)
        /\ kind # "checkout" => Live(s)
        /\ state = "cancelled" <=> kind = "deleted"
        /\ state = "unpaid" <=> kind = "failed"
    <2>1. CASE Checkout(s)
        <3>1. ~\E x \in Subs : Live(x)
            BY <2>1 DEF Checkout
        <3> QED
            BY <2>1, <3>1 DEF Checkout, Kinds
    <2>2. CASE PaymentFails(s)
        BY <2>2 DEF PaymentFails, Kinds
    <2>3. CASE PaymentMade(s)
        BY <2>3 DEF PaymentMade, Kinds
    <2>4. CASE Cancel(s)
        BY <2>4 DEF Cancel, Kinds
    <2> QED
        BY <2>1, <2>2, <2>3, <2>4 DEF StripeActs
<1>2. /\ made' = Append(made, [kind |-> kind, sub |-> s])
      /\ stripe' = [stripe EXCEPT ![s] = state]
      /\ UNCHANGED <<recorded, account, label, task>>
    BY <1>1 DEF Make
<1>3. PICK m \in Nat : m = Len(made)
    BY DEF BillingInv, TypeOK
<1>4. /\ Len(made') = m + 1 /\ \A n \in 1..m : made'[n] = made[n]
      /\ made'[m + 1].kind = kind /\ made'[m + 1].sub = s
    BY <1>2, <1>3, MadeGrows
<1>5. \A n \in 0..m : Ended(n)' <=> Ended(n)
    BY <1>4 DEF Ended
<1>6. \A n \in 0..m : Sold(n)' = Sold(n)
    BY <1>4, <1>5 DEF Sold, Ended
<1>7. \A x \in Subs : Live(x) <=> ~Ended(m) /\ made[m].sub = x
    BY <1>3 DEF InOrder, AsSold
<1>8. CASE kind = "checkout" /\ ~Ended(m)
    <2>1. made[m].sub \in Subs
        BY <1>3, <1>8, KindsAreFour DEF Ended
    <2> QED
        BY <1>1, <1>7, <1>8, <2>1
<1>9. kind # "checkout" => ~Ended(m) /\ made[m].sub = s
    BY <1>1, <1>7
<1>10. ASSUME kind = "checkout" => Ended(m)
       PROVE  Chained' /\ AsSold'
    <2>1. ASSUME NEW n \in 1..m
          PROVE  IF made'[n].kind = "checkout" THEN Ended(n - 1)'
                 ELSE ~Ended(n - 1)' /\ made'[n].sub = made'[n - 1].sub
        <3>1. IF made[n].kind = "checkout" THEN Ended(n - 1)
              ELSE ~Ended(n - 1) /\ made[n].sub = made[n - 1].sub
            BY <1>3 DEF InOrder, Chained
        <3>2. Ended(n - 1)' <=> Ended(n - 1)
            BY <1>5
        <3>3. n - 1 # 0 => n - 1 \in 1..m
            OBVIOUS
        <3>4. ~Ended(n - 1) => made'[n - 1] = made[n - 1]
            BY <1>4, <3>3 DEF Ended
        <3> QED
            BY <1>4, <3>1, <3>2, <3>4
    <2>2. Ended(m)' <=> Ended(m)
        BY <1>5
    <2>3. m # 0 => made'[m] = made[m]
        BY <1>4
    <2>4. IF made'[m + 1].kind = "checkout" THEN Ended(m)'
          ELSE ~Ended(m)' /\ made'[m + 1].sub = made'[m].sub
        BY <1>4, <1>9, <1>10, <2>2, <2>3 DEF Ended
    <2>5. Chained'
        <3>1. ASSUME NEW n \in 1..(m + 1)
              PROVE  IF made'[n].kind = "checkout" THEN Ended(n - 1)'
                     ELSE ~Ended(n - 1)' /\ made'[n].sub = made'[n - 1].sub
            <4>1. n \in 1..m \/ (n = m + 1 /\ n - 1 = m)
                OBVIOUS
            <4> QED
                BY <2>1, <2>4, <4>1
        <3> QED
            BY <1>4, <3>1 DEF Chained
    <2>6. Ended(m + 1)' <=> kind = "deleted"
        BY <1>4 DEF Ended
    <2>7. stripe'[s] = state /\ \A x \in Subs \ {s} : stripe'[x] = stripe[x]
        BY <1>2 DEF BillingInv, TypeOK
    <2>8. \A x \in Subs \ {s} : ~Live(x)
        BY <1>7, <1>9, <1>10
    <2>9. \A x \in Subs \ {s} : ~Live(x)'
        BY <2>7, <2>8 DEF Live
    <2>10. Live(s)' <=> kind # "deleted"
        BY <1>1, <2>7 DEF Live
    <2>11. stripe'[s] = "unpaid" <=> kind = "failed"
        BY <1>1, <2>7
    <2>12. ASSUME NEW x \in Subs
           PROVE  /\ Live(x)' <=> ~Ended(m + 1)' /\ made'[m + 1].sub = x
                  /\ Live(x)' => (stripe'[x] = "unpaid" <=> made'[m + 1].kind = "failed")
        BY <1>4, <2>6, <2>9, <2>10, <2>11
    <2>13. AsSold'
        BY <1>4, <2>12 DEF AsSold
    <2> QED
        BY <2>5, <2>13
<1>11. PICK n \in 0..m : recorded = 1..n /\ AccountFits(n)
    BY <1>3 DEF InOrder
<1>12. AccountFits(n)'
    <2>1. Sold(n)' = Sold(n) /\ (n > 0 => Sold(n - 1)' = Sold(n - 1))
        BY <1>6
    <2>2. account' = account /\ task' = task
        BY <1>2
    <2> QED
        BY <1>11, <2>1, <2>2 DEF AccountFits, Handling
<1>13. /\ n \in 0..Len(made') /\ recorded' = 1..n
       /\ label' = "account" /\ \A w \in Workers : task'[w].todo \notin Administering
    BY <1>2, <1>4, <1>11 DEF InOrder
<1> QED
    BY <1>8, <1>10, <1>12, <1>13 DEF InOrder

LEMMA InitInOrder == Init => OrderInv
<1> SUFFICES ASSUME Init PROVE OrderInv
    OBVIOUS
<1>1. \A w \in Workers : task[w] = Idle
    BY DEF Init
<1>2. OfEvents
    BY <1>1, IdleKnown DEF OfEvents, FromEvent
<1>3. made = <<>> /\ Len(made) = 0 /\ recorded = {} /\ label = "account"
    BY DEF Init
<1>4. Ended(0) /\ ~Handling(Idle) /\ Idle.todo \notin Administering
    BY IdleKnown DEF Ended, Handling, Changing, Administering
<1>5. Chained
    BY <1>3 DEF Chained
<1>6. AsSold
    BY <1>3, <1>4 DEF AsSold, Live, Init
<1>7. account = Sold(0)
    BY <1>4 DEF Sold, Init
<1>8. AccountFits(0)
    BY <1>1, <1>4, <1>7 DEF AccountFits
<1>9. 0 \in 0..Len(made) /\ recorded = 1..0
    BY <1>3
<1>10. InOrder
    BY <1>1, <1>3, <1>4, <1>5, <1>6, <1>8, <1>9 DEF InOrder
<1> QED
    BY <1>2, <1>10, InitBilling DEF OrderInv

LEMMA StepInOrder == OrderInv /\ [Next]_vars => OrderInv'
<1> SUFFICES ASSUME OrderInv, [Next]_vars PROVE OrderInv'
    OBVIOUS
<1>1. BillingInv /\ OfEvents /\ (orderly => InOrder) /\ BillingInv'
    BY StepBilling DEF OrderInv
<1>2. orderly \in BOOLEAN /\ orderly' \in BOOLEAN
    BY <1>1 DEF BillingInv, TypeOK
<1>3. ASSUME NEW s \in Subs, StripeActs(s) PROVE OfEvents' /\ (orderly' => InOrder')
    <2>1. orderly' => orderly
        BY <1>2, <1>3 DEF StripeActs, Checkout, PaymentFails, PaymentMade, Cancel
    <2> QED
        BY <1>1, <1>3, <2>1, OthersOfEvents, StripeInOrder
<1>4. ASSUME NEW w \in Workers, Request(w) PROVE OfEvents' /\ (orderly' => InOrder')
    <2>1. orderly' => orderly
        BY <1>2, <1>4 DEF Request, Deliver, PatchAccount, SetUserPaid, Administer, OpenPage, Boot,
                          StartJob, history
    <2> QED
        BY <1>1, <1>4, <2>1, StepOfEvents, RequestInOrder
<1>5. ASSUME NEW w \in Workers, Step(w) PROVE OfEvents' /\ (orderly' => InOrder')
    <2>1. orderly' => orderly
        BY <1>2, <1>5 DEF Step, Record, Find, SetPlan, SetLink, Choose, Ensure, SetLabel, SelectUnpaid,
                          ReadStart, InsertNotices, Revoke, Commit, history
    <2>2. ASSUME orderly'
          PROVE  InOrder'
        <3>1. InOrder
            BY <1>1, <2>1, <2>2
        <3>2. \/ Record(w) \/ Find(w) \/ SetPlan(w) \/ SetLink(w)
              \/ SelectUnpaid(w) \/ ReadStart(w) \/ InsertNotices(w) \/ Revoke(w)
            BY <1>1, <1>5, <3>1, AdminsAreOut DEF Step
        <3> QED
            BY <1>1, <2>2, <3>1, <3>2, RecordInOrder, FindInOrder, SetPlanInOrder, SetLinkInOrder,
               JobInOrder
    <2> QED
        BY <1>1, <1>5, <2>2, StepOfEvents
<1>6. ASSUME NEW w \in Workers, Fail(w) PROVE OfEvents' /\ (orderly' => InOrder')
    BY <1>1, <1>6, StepOfEvents DEF Fail
<1>7. CASE Share \/ Tick \/ UNCHANGED vars
    <2>1. UNCHANGED <<stripe, made, recorded, account, label, task, orderly>>
        BY <1>7 DEF Share, Tick, vars, outside, history
    <2> QED
        BY <1>1, <1>7, <2>1, OthersOfEvents, AroundInOrder DEF OrderInv
<1> QED
    BY <1>1, <1>3, <1>4, <1>5, <1>6, <1>7 DEF Next, OrderInv

\* When Stripe's events were recorded in Stripe's order, one after another, of one
\* subscription at a time, and no request failed and no administrator changed
\* anything, then the account, once every request is done, is what Stripe has sold:
\* after a failed payment, a late one, a cancellation, a second subscription
\* (handle_webhook_event).
THEOREM AccountFollowsStripe == Spec => []FollowsStripe
<1>1. ASSUME OrderInv, Settled, orderly
      PROVE  IsWhatStripeSold
    <2>1. InOrder /\ recorded = 1..Len(made) /\ \A w \in Workers : IsIdle(w)
        BY <1>1 DEF OrderInv, Settled
    <2>2. PICK n \in 0..Len(made) : recorded = 1..n /\ AccountFits(n)
        BY <2>1 DEF InOrder
    <2>3. PICK m \in Nat : m = Len(made)
        BY <1>1 DEF OrderInv, BillingInv, TypeOK
    <2>4. n = m
        <3>1. m \in 1..m => m \in 1..n
            BY <2>1, <2>2, <2>3
        <3> QED
            BY <2>2, <2>3, <3>1
    <2>5. <<>> \notin Changing \cup {<<"link">>}
        BY DEF Changing
    <2>6. account = Sold(m)
        BY <2>1, <2>2, <2>4, <2>5 DEF AccountFits, Handling, IsIdle
    <2>7. \A s \in Subs : /\ Live(s) <=> ~Ended(m) /\ made[m].sub = s
                          /\ Live(s) => (stripe[s] = "unpaid" <=> made[m].kind = "failed")
        BY <2>1, <2>3 DEF InOrder, AsSold
    <2>8. PICK live : live = {s \in Subs : Live(s)}
        OBVIOUS
    <2>9. CASE Ended(m)
        <3>1. live = {}
            BY <2>7, <2>8, <2>9
        <3>2. account.plan = "free" /\ account.status = "active" /\ account.sub = NoSub
            BY <2>6, <2>9 DEF Sold
        <3> QED
            BY <2>8, <3>1, <3>2 DEF IsWhatStripeSold
    <2>10. CASE ~Ended(m)
        <3>1. made[m].sub \in Subs
            BY <1>1, <2>3, <2>10, KindsAreFour DEF Ended, OrderInv
        <3>2. PICK s \in Subs : s = made[m].sub
            BY <3>1
        <3>3. live = {s}
            BY <2>7, <2>8, <2>10, <3>2
        <3>4. stripe[s] = "unpaid" <=> made[m].kind = "failed"
            BY <2>7, <2>10, <3>2
        <3>5. /\ account.plan = "pro" /\ account.sub = s
              /\ account.status = IF made[m].kind = "failed" THEN "past_due" ELSE "active"
            BY <2>6, <2>10, <3>2 DEF Sold, StatusOf
        <3> QED
            BY <2>8, <3>3, <3>4, <3>5 DEF IsWhatStripeSold
    <2> QED
        BY <2>9, <2>10
<1>2. OrderInv => FollowsStripe
    BY <1>1 DEF FollowsStripe
<1> QED
    BY <1>2, InitInOrder, StepInOrder, PTL DEF Spec

=============================================================================
