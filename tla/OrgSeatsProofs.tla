--------------------------- MODULE OrgSeatsProofs ---------------------------
(***************************************************************************)
(* The invites and the seats of OrgSeats, for any finite sets of people    *)
(* and invites, any number of threads, any plans and any clock.            *)
(***************************************************************************)
EXTENDS OrgSeats, FiniteSetTheorems, TLAPS

\* Whoever is inside the transaction of an admission holds the lock, and nobody
\* else does.
LockGuards ==
    \A w \in Workers : task[w].pc \in {"invite", "usage", "commit"} <=> lock = w

\* Steps on an invite have an invite, and an INSERT a role.
TasksFit ==
    \A w \in Workers :
        /\ task[w].pc \in {"invite", "consume", "insert",
            "revoke"} => task[w].invite \in Invites
        /\ task[w].pc = "insert" => task[w].role \in Roles

\* The id of an invite to insert is new: no row, no other request and no
\* redemption has it.
IdsFresh ==
    /\ \A w \in Workers : task[w].pc = "insert" =>
          /\ ~Created(task[w].invite)
          /\ \A v \in Workers \ {w} : task[v].invite # task[w].invite
    /\ \A w \in Workers : task[w].invite # NoInvite /\ task[w].pc # "insert"
          => Created(task[w].invite)
    /\ \A i \in Invites, p \in People : <<i, p>> \in redemptions => Created(i)

\* An admission between its look at the invite and its UPDATE may find the invite
\* used up, and not more than that.
UsesBounded ==
    /\ OverusedOnceAtMost
    /\ \A w \in Workers : task[w].pc \in {"usage",
        "commit"} /\ task[w].invite # NoInvite
          => invites[task[w].invite].uses <= invites[task[w].invite].max

\* The members after an admission that is about to be written.
Joined(w) == Cardinality(Active \cup {task[w].who})

\* Once the seats are counted there is room for the admission: nobody but the
\* holder of the lock adds members.
Room(w) ==
    /\ task[w].pc = "invite" /\ task[w].bound > 0 => Joined(w) <= task[w].bound
    /\ task[w].pc = "commit" =>
          \/ Joined(w) <= task[w].bound
          \/ InviteLapsed(w) /\ Joined(w) <= task[w].bound + 1

RoomLeft == \A w \in Workers : Room(w)

IndInv == TypeOK /\ LockGuards /\ TasksFit /\ IdsFresh /\ UsesBounded /\ RoomLeft /\ RedemptionsPaid

-----------------------------------------------------------------------------

\* The counts of seat_usage are natural numbers.
LEMMA SeatsCounted ==
    ASSUME TypeOK
    PROVE  /\ IsFiniteSet(Active) /\ Cardinality(Active) \in Nat
           /\ IsFiniteSet(Admins) /\ Cardinality(Admins) \in Nat
           /\ IsFiniteSet(Places) /\ Cardinality(Places) \in Nat
           /\ Included \in Nat
<1>1. IsFiniteSet(Active) /\ IsFiniteSet(Admins)
    BY FS_Subset, SeatsAssumption DEF Active, Admins
<1>2. IsFiniteSet(Places)
    <2>1. IsFiniteSet(1..MaxUses)
        BY FS_Interval, SeatsAssumption
    <2>2. IsFiniteSet(Invites \X (1..MaxUses))
        BY <2>1, FS_Product, SeatsAssumption
    <2>3. Places \in SUBSET (Invites \X (1..MaxUses))
        BY DEF Places
    <2> QED
        BY <2>2, <2>3, FS_Subset
<1>3. Included \in Nat
    BY SeatsAssumption DEF TypeOK, Included
<1> QED
    BY <1>1, <1>2, <1>3, FS_CardinalityType

\* A worker goes on to its next step with the seats it may fill.
LEMMA NextStepType ==
    ASSUME TypeOK, NEW w \in Workers, NEW next \in Labels, NEW seats \in Nat,
           task' = [task EXCEPT ![w].pc = next, ![w].bound = seats]
    PROVE  task' \in [Workers -> Tasks]
<1> DEFINE t == [task[w] EXCEPT !.pc = next, !.bound = seats]
<1>1. task[w] \in Tasks
    BY DEF TypeOK
<1>2. t \in Tasks
    BY <1>1 DEF Tasks
<1>3. task' = [task EXCEPT ![w] = t]
    BY DEF TypeOK
<1> HIDE DEF t
<1> QED
    BY <1>2, <1>3 DEF TypeOK

\* Every action keeps the types.
LEMMA TypeStep ==
    ASSUME IndInv, [Next]_vars
    PROVE  TypeOK'
<1>1. ASSUME NEW w \in Workers, NEW actor \in People, NEW p \in People,
             RemoveMember(w, actor, p)
      PROVE  TypeOK'
    BY <1>1, SeatsAssumption DEF IndInv, RemoveMember, Begin, Idle, TypeOK, Tasks,
       Rows, Roles, Labels, tables
<1>2. ASSUME NEW w \in Workers, NEW actor \in People, NEW p \in People, NEW r \in Roles,
             AddMember(w, actor, p, r)
      PROVE  TypeOK'
    BY <1>2, SeatsAssumption DEF IndInv, AddMember, Begin, Idle, TypeOK, Tasks, Rows,
       Roles, Labels, tables
<1>3. ASSUME NEW w \in Workers, NEW actor \in People, NEW p \in People, NEW r \in Roles,
             UpdateMember(w, actor, p, r)
      PROVE  TypeOK'
    BY <1>3, SeatsAssumption DEF IndInv, UpdateMember, Begin, Idle, TypeOK, Tasks,
       Rows, Roles, Labels, tables
<1>4. ASSUME NEW w \in Workers, NEW p \in People, NEW i \in Invites,
             RedeemInvite(w, p, i)
      PROVE  TypeOK'
    BY <1>4 DEF IndInv, RedeemInvite, Begin, Idle, TypeOK, Tasks, Rows, Roles, Labels,
       tables
<1>5. ASSUME NEW w \in Workers, NEW p \in People, NEW i \in Invites,
             RevokeInvite(w, p, i)
      PROVE  TypeOK'
    BY <1>5, SeatsAssumption DEF IndInv, RevokeInvite, Begin, Idle, TypeOK, Tasks,
       Rows, Roles, Labels, tables
<1>6. ASSUME NEW w \in Workers, NEW actor \in People, NEW i \in Invites,
             NEW r \in Roles, NEW n \in 1..MaxUses, NEW lifetime \in Lifetimes,
             CreateInvite(w, actor, i, r, n, lifetime)
      PROVE  TypeOK'
    <2> DEFINE left == Included - Used
               bound == IF n < left THEN n ELSE left
               time == IF lifetime = Never THEN Never ELSE now + lifetime
               t == [Idle EXCEPT !.pc = "insert", !.invite = i, !.role = r,
                                 !.bound = bound, !.time = time]
    <2>1. left \in Nat \ {0}
        BY <1>6, SeatsCounted DEF IndInv, CreateInvite, Used
    <2>2. bound \in 1..MaxUses
        BY <2>1, SeatsAssumption
    <2>3. time \in Nat \cup {Never}
        BY SeatsAssumption DEF IndInv, TypeOK
    <2>4. Begin(w, t)
        BY <1>6 DEF CreateInvite
    <2> HIDE DEF bound, time
    <2>5. bound \in Nat /\ Founder \in People /\ i \in Invites
        BY <2>2, SeatsAssumption
    <2>6. Idle \in Tasks
        BY <2>5, SeatsAssumption DEF Idle, Tasks, Labels
    <2>7. t \in Tasks /\ t.bound \in 1..MaxUses
        BY <2>2, <2>3, <2>5, <2>6 DEF Tasks, Labels, Roles
    <2> HIDE DEF t
    <2> QED
        BY <2>4, <2>7 DEF IndInv, TypeOK, Begin, tables
<1>7. ASSUME NEW w \in Workers,
             TakeLock(w)
      PROVE  TypeOK'
    <2> DEFINE next == IF task[w].invite # NoInvite THEN "invite"
                       ELSE IF role[task[w].who] # "none" THEN "commit" ELSE "usage"
               bound == IF role[task[w].who] # "none" THEN Cardinality(Active) ELSE 0
    <2>1. next \in Labels \ {"insert"} /\ bound \in Nat
        BY SeatsCounted DEF IndInv, TypeOK, Labels
    <2>2. task' = [task EXCEPT ![w].pc = next, ![w].bound = bound]
        BY <1>7 DEF TakeLock
    <2> HIDE DEF next, bound
    <2>3. task \in [Workers -> Tasks]
        BY DEF IndInv, TypeOK
    <2>4. [task[w] EXCEPT !.pc = next, !.bound = bound] \in Tasks
        BY <2>1, <2>3 DEF Tasks
    <2>5. task' \in [Workers -> Tasks]
        BY <2>2, <2>3, <2>4
    <2>6. \A v \in Workers : task'[v].pc = "insert" => task'[v].bound \in 1..MaxUses
        BY <2>1, <2>2 DEF IndInv, TypeOK
    <2> QED
        BY <1>7, <2>5, <2>6 DEF IndInv, TakeLock, TypeOK, tables
<1>8. ASSUME NEW w \in Workers,
             ReadInvite(w)
      PROVE  TypeOK'
    <2>1. CASE UNCHANGED lock /\ task' = [task EXCEPT ![w].pc = IF task[w].bound > 0 THEN "commit"
                                                                ELSE "usage"]
        <3>1. task' \in [Workers -> Tasks]
            BY <2>1 DEF IndInv, TypeOK, Tasks, Labels
        <3>2. \A v \in Workers : task'[v].pc = "insert" => task'[v].bound \in 1..MaxUses
            BY <2>1 DEF IndInv, TypeOK
        <3> QED
            BY <1>8, <2>1, <3>1, <3>2 DEF IndInv, ReadInvite, TypeOK, tables
    <2>2. CASE Leave(w)
        <3>1. task' \in [Workers -> Tasks] /\ lock' = Nobody
            BY <2>2, SeatsAssumption DEF Leave, IndInv, TypeOK, Tasks, Labels, Idle
        <3>2. \A v \in Workers : task'[v].pc = "insert" => task'[v].bound \in 1..MaxUses
            BY <2>2 DEF Leave, IndInv, TypeOK, Idle
        <3> QED
            BY <1>8, <3>1, <3>2 DEF IndInv, ReadInvite, TypeOK, tables
    <2> QED
        BY <1>8, <2>1, <2>2 DEF ReadInvite
<1>9. ASSUME NEW w \in Workers,
             ReadUsage(w)
      PROVE  TypeOK'
    <2>1. CASE UNCHANGED lock /\ task' = [task EXCEPT ![w].pc = "commit",
        ![w].bound = Included]
        <3>1. task' \in [Workers -> Tasks]
            BY <2>1, SeatsCounted, NextStepType DEF IndInv, Labels
        <3>2. \A v \in Workers : task'[v].pc = "insert" => task'[v].bound \in 1..MaxUses
            BY <2>1 DEF IndInv, TypeOK
        <3> QED
            BY <1>9, <2>1, <3>1, <3>2 DEF IndInv, ReadUsage, TypeOK, tables
    <2>2. CASE Leave(w)
        <3>1. task' \in [Workers -> Tasks] /\ lock' = Nobody
            BY <2>2, SeatsAssumption DEF Leave, IndInv, TypeOK, Tasks, Labels, Idle
        <3>2. \A v \in Workers : task'[v].pc = "insert" => task'[v].bound \in 1..MaxUses
            BY <2>2 DEF Leave, IndInv, TypeOK, Idle
        <3> QED
            BY <1>9, <3>1, <3>2 DEF IndInv, ReadUsage, TypeOK, tables
    <2> QED
        BY <1>9, <2>1, <2>2 DEF ReadUsage
<1>10. ASSUME NEW w \in Workers,
             CommitAdmission(w)
      PROVE  TypeOK'
    <2>1. task' \in [Workers -> Tasks] /\ lock' = Nobody
        BY <1>10, SeatsAssumption DEF IndInv, CommitAdmission, Leave, Idle, TypeOK,
           Tasks, Labels, Roles
    <2>2. \A v \in Workers : task'[v].pc = "insert" => task'[v].bound \in 1..MaxUses
        BY <1>10 DEF IndInv, CommitAdmission, Leave, Idle, TypeOK
    <2>3. role' \in [People -> Roles \cup {"none"}]
        BY <1>10 DEF IndInv, CommitAdmission, TypeOK, Tasks
    <2>4. invites' \in [Invites -> Rows] /\ redemptions' \subseteq Invites \X People
        BY <1>10 DEF IndInv, CommitAdmission, TypeOK, Tasks, Rows
    <2> QED
        BY <1>10, <2>1, <2>2, <2>3, <2>4 DEF IndInv, CommitAdmission, TypeOK
<1>11. ASSUME NEW w \in Workers,
             Consume(w)
      PROVE  TypeOK'
    <2>1. invites' \in [Invites -> Rows]
        BY <1>11 DEF IndInv, Consume, TypeOK, Rows
    <2>2. redemptions' \subseteq Invites \X People
        BY <1>11 DEF IndInv, TasksFit, Consume, TypeOK, Tasks
    <2>3. task' \in [Workers -> Tasks]
        BY <1>11, SeatsAssumption DEF IndInv, Consume, TypeOK, Tasks, Labels, Idle
    <2> QED
        BY <1>11, <2>1, <2>2, <2>3 DEF IndInv, Consume, TypeOK, Idle
<1>12. ASSUME NEW w \in Workers,
             CountAdmins(w)
      PROVE  TypeOK'
    BY <1>12, SeatsAssumption DEF IndInv, CountAdmins, Idle, TypeOK, Tasks, Rows,
       Roles, Labels, tables
<1>13. ASSUME NEW w \in Workers,
             SetRole(w)
      PROVE  TypeOK'
    <2>1. role' \in [People -> Roles \cup {"none"}]
        BY <1>13 DEF IndInv, SetRole, TypeOK, Tasks
    <2>2. task' \in [Workers -> Tasks]
        BY <1>13, SeatsAssumption DEF IndInv, SetRole, TypeOK, Tasks, Labels, Idle
    <2> QED
        BY <1>13, <2>1, <2>2 DEF IndInv, SetRole, TypeOK, Idle
<1>14. ASSUME NEW w \in Workers,
             MarkRemoved(w)
      PROVE  TypeOK'
    BY <1>14, SeatsAssumption DEF IndInv, MarkRemoved, Idle, TypeOK, Tasks, Rows,
       Roles, Labels
<1>15. ASSUME NEW w \in Workers,
             InsertInvite(w)
      PROVE  TypeOK'
    <2>1. invites' \in [Invites -> Rows]
        BY <1>15, SeatsAssumption DEF IndInv, TasksFit, InsertInvite, TypeOK, Tasks,
           Rows
    <2>2. task' \in [Workers -> Tasks]
        BY <1>15, SeatsAssumption DEF IndInv, InsertInvite, TypeOK, Tasks, Labels, Idle
    <2> QED
        BY <1>15, <2>1, <2>2 DEF IndInv, InsertInvite, TypeOK, Idle
<1>16. ASSUME NEW w \in Workers,
             WriteRevocation(w)
      PROVE  TypeOK'
    <2>1. invites' \in [Invites -> Rows]
        BY <1>16 DEF IndInv, WriteRevocation, TypeOK, Rows
    <2>2. Idle \in Tasks /\ Idle.pc # "insert"
        BY SeatsAssumption DEF Idle, Tasks, Labels
    <2>3. task' = [task EXCEPT ![w] = Idle]
        BY <1>16 DEF WriteRevocation
    <2> QED
        BY <1>16, <2>1, <2>2, <2>3 DEF IndInv, WriteRevocation, TypeOK
<1>17. ASSUME NEW w \in Workers,
             Fail(w)
      PROVE  TypeOK'
    BY <1>17, SeatsAssumption DEF IndInv, Fail, Idle, TypeOK, Tasks, Rows, Roles,
       Labels, tables
<1>18. ASSUME NEW a \in Accounts, ChangePlan(a)
      PROVE  TypeOK'
    BY <1>18, SeatsAssumption DEF IndInv, ChangePlan, TypeOK, Tasks, Rows, Roles, Labels
<1>19. ASSUME Tick
      PROVE  TypeOK'
    BY <1>19, SeatsAssumption DEF IndInv, Tick, TypeOK, Tasks, Rows, Roles, Labels,
       tables
<1>20. ASSUME UNCHANGED vars
      PROVE  TypeOK'
    BY <1>20, SeatsAssumption DEF IndInv, vars, TypeOK, Tasks, Rows, Roles, Labels,
       tables
<1> QED
    BY <1>1, <1>2, <1>3, <1>4, <1>5, <1>6, <1>7, <1>8, <1>9, <1>10, <1>11, <1>12,
       <1>13, <1>14, <1>15, <1>16, <1>17, <1>18, <1>19, <1>20
    DEF Next, Request, Step

\* The lock is taken when it is free and given up with the transaction.
LEMMA LockStep ==
    ASSUME IndInv, [Next]_vars
    PROVE  LockGuards'
<1>1. ASSUME NEW w \in Workers, NEW actor \in People, NEW p \in People,
             RemoveMember(w, actor, p)
      PROVE  LockGuards'
    BY <1>1, SeatsAssumption DEF IndInv, TypeOK, LockGuards, RemoveMember, Begin,
       Idle, tables, Labels
<1>2. ASSUME NEW w \in Workers, NEW actor \in People, NEW p \in People, NEW r \in Roles,
             AddMember(w, actor, p, r)
      PROVE  LockGuards'
    BY <1>2, SeatsAssumption DEF IndInv, TypeOK, LockGuards, AddMember, Begin, Idle,
       tables, Labels
<1>3. ASSUME NEW w \in Workers, NEW actor \in People, NEW p \in People, NEW r \in Roles,
             UpdateMember(w, actor, p, r)
      PROVE  LockGuards'
    BY <1>3, SeatsAssumption DEF IndInv, TypeOK, LockGuards, UpdateMember, Begin,
       Idle, tables, Labels
<1>4. ASSUME NEW w \in Workers, NEW p \in People, NEW i \in Invites,
             RedeemInvite(w, p, i)
      PROVE  LockGuards'
    BY <1>4, SeatsAssumption DEF IndInv, TypeOK, LockGuards, RedeemInvite, Begin,
       Idle, tables, Labels
<1>5. ASSUME NEW w \in Workers, NEW p \in People, NEW i \in Invites,
             RevokeInvite(w, p, i)
      PROVE  LockGuards'
    BY <1>5, SeatsAssumption DEF IndInv, TypeOK, LockGuards, RevokeInvite, Begin,
       Idle, tables, Labels
<1>6. ASSUME NEW w \in Workers, NEW actor \in People, NEW i \in Invites,
             NEW r \in Roles, NEW n \in 1..MaxUses, NEW lifetime \in Lifetimes,
             CreateInvite(w, actor, i, r, n, lifetime)
      PROVE  LockGuards'
    BY <1>6, SeatsAssumption DEF IndInv, TypeOK, LockGuards, CreateInvite, Begin,
       Idle, tables, Labels
<1>7. ASSUME NEW w \in Workers,
             TakeLock(w)
      PROVE  LockGuards'
    BY <1>7, SeatsAssumption DEF IndInv, TypeOK, LockGuards, TakeLock, tables, Labels
<1>8. ASSUME NEW w \in Workers,
             ReadInvite(w)
      PROVE  LockGuards'
    <2>1. CASE UNCHANGED lock /\ task' = [task EXCEPT ![w].pc = IF task[w].bound > 0 THEN "commit"
                                                                ELSE "usage"]
        BY <1>8, <2>1 DEF IndInv, TypeOK, ReadInvite, tables, LockGuards
    <2>2. CASE Leave(w)
        BY <1>8, <2>2, SeatsAssumption DEF IndInv, TypeOK, ReadInvite, Leave, Idle,
           tables, LockGuards
    <2> QED
        BY <1>8, <2>1, <2>2 DEF ReadInvite
<1>9. ASSUME NEW w \in Workers,
             ReadUsage(w)
      PROVE  LockGuards'
    <2>1. CASE UNCHANGED lock /\ task' = [task EXCEPT ![w].pc = "commit",
        ![w].bound = Included]
        BY <1>9, <2>1 DEF IndInv, TypeOK, ReadUsage, tables, LockGuards
    <2>2. CASE Leave(w)
        BY <1>9, <2>2, SeatsAssumption DEF IndInv, TypeOK, ReadUsage, Leave, Idle,
           tables, LockGuards
    <2> QED
        BY <1>9, <2>1, <2>2 DEF ReadUsage
<1>10. ASSUME NEW w \in Workers,
             CommitAdmission(w)
      PROVE  LockGuards'
    BY <1>10, SeatsAssumption DEF IndInv, TypeOK, LockGuards, CommitAdmission, Leave,
       Idle, Labels
<1>11. ASSUME NEW w \in Workers,
             Consume(w)
      PROVE  LockGuards'
    BY <1>11, SeatsAssumption DEF IndInv, TypeOK, LockGuards, Consume, Idle, Labels
<1>12. ASSUME NEW w \in Workers,
             CountAdmins(w)
      PROVE  LockGuards'
    BY <1>12, SeatsAssumption DEF IndInv, TypeOK, LockGuards, CountAdmins, Idle,
       tables, Labels
<1>13. ASSUME NEW w \in Workers,
             SetRole(w)
      PROVE  LockGuards'
    BY <1>13, SeatsAssumption DEF IndInv, TypeOK, LockGuards, SetRole, Idle, Labels
<1>14. ASSUME NEW w \in Workers,
             MarkRemoved(w)
      PROVE  LockGuards'
    BY <1>14, SeatsAssumption DEF IndInv, TypeOK, LockGuards, MarkRemoved, Idle, Labels
<1>15. ASSUME NEW w \in Workers,
             InsertInvite(w)
      PROVE  LockGuards'
    BY <1>15, SeatsAssumption DEF IndInv, TypeOK, LockGuards, InsertInvite, Idle, Labels
<1>16. ASSUME NEW w \in Workers,
             WriteRevocation(w)
      PROVE  LockGuards'
    BY <1>16, SeatsAssumption DEF IndInv, TypeOK, LockGuards, WriteRevocation, Idle,
       Labels
<1>17. ASSUME NEW w \in Workers,
             Fail(w)
      PROVE  LockGuards'
    BY <1>17, SeatsAssumption DEF IndInv, TypeOK, LockGuards, Fail, Idle, tables, Labels
<1>18. ASSUME NEW a \in Accounts, ChangePlan(a)
      PROVE  LockGuards'
    BY <1>18 DEF IndInv, LockGuards, ChangePlan
<1>19. ASSUME Tick
      PROVE  LockGuards'
    BY <1>19 DEF IndInv, LockGuards, Tick
<1>20. ASSUME UNCHANGED vars
      PROVE  LockGuards'
    BY <1>20 DEF IndInv, LockGuards, vars
<1> QED
    BY <1>1, <1>2, <1>3, <1>4, <1>5, <1>6, <1>7, <1>8, <1>9, <1>10, <1>11, <1>12,
       <1>13, <1>14, <1>15, <1>16, <1>17, <1>18, <1>19, <1>20
    DEF Next, Request, Step

\* A request keeps its invite until it ends.
LEMMA TasksStep ==
    ASSUME IndInv, [Next]_vars
    PROVE  TasksFit'
<1>1. ASSUME NEW w \in Workers, NEW actor \in People, NEW p \in People,
             RemoveMember(w, actor, p)
      PROVE  TasksFit'
    BY <1>1, SeatsAssumption DEF IndInv, TypeOK, TasksFit, Tasks, RemoveMember, Begin,
       Idle, tables, Labels
<1>2. ASSUME NEW w \in Workers, NEW actor \in People, NEW p \in People, NEW r \in Roles,
             AddMember(w, actor, p, r)
      PROVE  TasksFit'
    BY <1>2, SeatsAssumption DEF IndInv, TypeOK, TasksFit, Tasks, AddMember, Begin,
       Idle, tables, Labels
<1>3. ASSUME NEW w \in Workers, NEW actor \in People, NEW p \in People, NEW r \in Roles,
             UpdateMember(w, actor, p, r)
      PROVE  TasksFit'
    BY <1>3, SeatsAssumption DEF IndInv, TypeOK, TasksFit, Tasks, UpdateMember, Begin,
       Idle, tables, Labels
<1>4. ASSUME NEW w \in Workers, NEW p \in People, NEW i \in Invites,
             RedeemInvite(w, p, i)
      PROVE  TasksFit'
    BY <1>4, SeatsAssumption DEF IndInv, TypeOK, TasksFit, RedeemInvite, Rows, Begin,
       Idle, tables, Labels
<1>5. ASSUME NEW w \in Workers, NEW p \in People, NEW i \in Invites,
             RevokeInvite(w, p, i)
      PROVE  TasksFit'
    BY <1>5, SeatsAssumption DEF IndInv, TypeOK, TasksFit, Tasks, RevokeInvite, Begin,
       Idle, tables, Labels
<1>6. ASSUME NEW w \in Workers, NEW actor \in People, NEW i \in Invites,
             NEW r \in Roles, NEW n \in 1..MaxUses, NEW lifetime \in Lifetimes,
             CreateInvite(w, actor, i, r, n, lifetime)
      PROVE  TasksFit'
    BY <1>6, SeatsAssumption DEF IndInv, TypeOK, TasksFit, Tasks, CreateInvite, Begin,
       Idle, tables, Labels
<1>7. ASSUME NEW w \in Workers,
             TakeLock(w)
      PROVE  TasksFit'
    BY <1>7, SeatsAssumption DEF IndInv, TypeOK, TasksFit, Tasks, TakeLock, tables,
       Labels
<1>8. ASSUME NEW w \in Workers,
             ReadInvite(w)
      PROVE  TasksFit'
    BY <1>8, SeatsAssumption DEF IndInv, TypeOK, TasksFit, Tasks, ReadInvite, Leave,
       Idle, tables, Labels
<1>9. ASSUME NEW w \in Workers,
             ReadUsage(w)
      PROVE  TasksFit'
    BY <1>9, SeatsAssumption DEF IndInv, TypeOK, TasksFit, Tasks, ReadUsage, Leave,
       Idle, tables, Labels
<1>10. ASSUME NEW w \in Workers,
             CommitAdmission(w)
      PROVE  TasksFit'
    BY <1>10, SeatsAssumption DEF IndInv, TypeOK, TasksFit, Tasks, CommitAdmission,
       Leave, Idle, Labels
<1>11. ASSUME NEW w \in Workers,
             Consume(w)
      PROVE  TasksFit'
    BY <1>11, SeatsAssumption DEF IndInv, TypeOK, TasksFit, Tasks, Consume, Idle, Labels
<1>12. ASSUME NEW w \in Workers,
             CountAdmins(w)
      PROVE  TasksFit'
    BY <1>12, SeatsAssumption DEF IndInv, TypeOK, TasksFit, Tasks, CountAdmins, Idle,
       tables, Labels
<1>13. ASSUME NEW w \in Workers,
             SetRole(w)
      PROVE  TasksFit'
    BY <1>13, SeatsAssumption DEF IndInv, TypeOK, TasksFit, Tasks, SetRole, Idle, Labels
<1>14. ASSUME NEW w \in Workers,
             MarkRemoved(w)
      PROVE  TasksFit'
    BY <1>14, SeatsAssumption DEF IndInv, TypeOK, TasksFit, Tasks, MarkRemoved, Idle,
       Labels
<1>15. ASSUME NEW w \in Workers,
             InsertInvite(w)
      PROVE  TasksFit'
    BY <1>15, SeatsAssumption DEF IndInv, TypeOK, TasksFit, Tasks, InsertInvite, Idle,
       Labels
<1>16. ASSUME NEW w \in Workers,
             WriteRevocation(w)
      PROVE  TasksFit'
    BY <1>16, SeatsAssumption DEF IndInv, TypeOK, TasksFit, Tasks, WriteRevocation,
       Idle, Labels
<1>17. ASSUME NEW w \in Workers,
             Fail(w)
      PROVE  TasksFit'
    BY <1>17, SeatsAssumption DEF IndInv, TypeOK, TasksFit, Tasks, Fail, Idle, tables,
       Labels
<1>18. ASSUME NEW a \in Accounts, ChangePlan(a)
      PROVE  TasksFit'
    BY <1>18 DEF IndInv, TasksFit, ChangePlan
<1>19. ASSUME Tick
      PROVE  TasksFit'
    BY <1>19 DEF IndInv, TasksFit, Tick
<1>20. ASSUME UNCHANGED vars
      PROVE  TasksFit'
    BY <1>20 DEF IndInv, TasksFit, vars
<1> QED
    BY <1>1, <1>2, <1>3, <1>4, <1>5, <1>6, <1>7, <1>8, <1>9, <1>10, <1>11, <1>12,
       <1>13, <1>14, <1>15, <1>16, <1>17, <1>18, <1>19, <1>20
    DEF Next, Request, Step

\* Rows of org_invites are inserted once and never removed.
LEMMA FreshStep ==
    ASSUME IndInv, [Next]_vars
    PROVE  IdsFresh'
<1>1. ASSUME NEW w \in Workers, NEW actor \in People, NEW p \in People,
             RemoveMember(w, actor, p)
      PROVE  IdsFresh'
    BY <1>1, SeatsAssumption DEF IndInv, TypeOK, TasksFit, IdsFresh, Created, Rows,
       Tasks, RemoveMember, Begin, Idle, tables, Labels
<1>2. ASSUME NEW w \in Workers, NEW actor \in People, NEW p \in People, NEW r \in Roles,
             AddMember(w, actor, p, r)
      PROVE  IdsFresh'
    BY <1>2, SeatsAssumption DEF IndInv, TypeOK, TasksFit, IdsFresh, Created, Rows,
       Tasks, AddMember, Begin, Idle, tables, Labels
<1>3. ASSUME NEW w \in Workers, NEW actor \in People, NEW p \in People, NEW r \in Roles,
             UpdateMember(w, actor, p, r)
      PROVE  IdsFresh'
    BY <1>3, SeatsAssumption DEF IndInv, TypeOK, TasksFit, IdsFresh, Created, Rows,
       Tasks, UpdateMember, Begin, Idle, tables, Labels
<1>4. ASSUME NEW w \in Workers, NEW p \in People, NEW i \in Invites,
             RedeemInvite(w, p, i)
      PROVE  IdsFresh'
    BY <1>4, SeatsAssumption DEF IndInv, TypeOK, TasksFit, IdsFresh, Created, Rows,
       Tasks, RedeemInvite, Begin, Idle, tables, Labels
<1>5. ASSUME NEW w \in Workers, NEW p \in People, NEW i \in Invites,
             RevokeInvite(w, p, i)
      PROVE  IdsFresh'
    BY <1>5, SeatsAssumption DEF IndInv, TypeOK, TasksFit, IdsFresh, Created, Rows,
       Tasks, RevokeInvite, Begin, Idle, tables, Labels
<1>6. ASSUME NEW w \in Workers, NEW actor \in People, NEW i \in Invites,
             NEW r \in Roles, NEW n \in 1..MaxUses, NEW lifetime \in Lifetimes,
             CreateInvite(w, actor, i, r, n, lifetime)
      PROVE  IdsFresh'
    BY <1>6, SeatsAssumption DEF IndInv, TypeOK, TasksFit, IdsFresh, Created, Rows,
       Tasks, CreateInvite, Begin, Idle, tables, Labels
<1>7. ASSUME NEW w \in Workers,
             TakeLock(w)
      PROVE  IdsFresh'
    BY <1>7, SeatsAssumption DEF IndInv, TypeOK, TasksFit, IdsFresh, Created, Rows,
       Tasks, TakeLock, tables, Labels
<1>8. ASSUME NEW w \in Workers,
             ReadInvite(w)
      PROVE  IdsFresh'
    BY <1>8, SeatsAssumption, SMTT(30) DEF IndInv, TypeOK, TasksFit, IdsFresh, Created, Rows,
       Tasks, ReadInvite, Leave, Idle, tables, Labels
<1>9. ASSUME NEW w \in Workers,
             ReadUsage(w)
      PROVE  IdsFresh'
    <2>1. \A v \in Workers : /\ task'[v].invite \in {task[v].invite, NoInvite}
                             /\ task'[v].pc = "insert" => task'[v] = task[v]
                             /\ task[v].pc = "insert" => task'[v] = task[v]
        <3>1. CASE task' = [task EXCEPT ![w].pc = "commit", ![w].bound = Included]
            BY <1>9, <3>1 DEF IndInv, TypeOK, ReadUsage
        <3>2. CASE Leave(w)
            BY <1>9, <3>2 DEF IndInv, TypeOK, ReadUsage, Leave, Idle
        <3> QED
            BY <1>9, <3>1, <3>2 DEF ReadUsage
    <2> QED
        BY <1>9, <2>1, SeatsAssumption DEF IndInv, TasksFit, IdsFresh, Created,
           ReadUsage, tables
<1>10. ASSUME NEW w \in Workers,
             CommitAdmission(w)
      PROVE  IdsFresh'
    BY <1>10, SeatsAssumption, SMTT(30) DEF IndInv, TypeOK, TasksFit, IdsFresh, Created, Rows,
       Tasks, CommitAdmission, Leave, Idle, Labels
<1>11. ASSUME NEW w \in Workers,
             Consume(w)
      PROVE  IdsFresh'
    <2>1. \A i \in Invites : invites'[i].max = invites[i].max
        BY <1>11 DEF IndInv, TypeOK, Consume, Rows
    <2>2. task' = [task EXCEPT ![w] = Idle] /\ Idle.invite = NoInvite /\ Idle.pc = "idle"
        BY <1>11 DEF Consume, Idle
    <2>3. redemptions' \subseteq redemptions \cup {<<task[w].invite, task[w].who>>}
        BY <1>11 DEF Consume
    <2>4. Created(task[w].invite) /\ task[w].invite \in Invites /\ task[w].who \in People
        BY <1>11, SeatsAssumption DEF IndInv, TypeOK, Tasks, TasksFit, IdsFresh, Consume
    <2>5. \A i \in Invites, p \in People : <<i, p>> \in redemptions' => Created(i)
        BY <2>3, <2>4 DEF IndInv, IdsFresh
    <2>6. \A v \in Workers : task'[v].pc = "insert" => task'[v] = task[v] /\ v # w
        BY <2>2 DEF IndInv, TypeOK
    <2>7. \A v \in Workers : task'[v].invite # NoInvite => task'[v] = task[v] /\ v # w
        BY <2>2 DEF IndInv, TypeOK
    <2>8. \A v \in Workers : task'[v].invite \in Invites \cup {NoInvite}
        BY <2>2 DEF IndInv, TypeOK, Tasks
    <2>9. \A v \in Workers : task'[v].invite \in {task[v].invite, NoInvite}
        BY <2>2 DEF IndInv, TypeOK
    <2>10. \A v \in Workers : task'[v].pc = "insert" =>
              /\ ~Created(task'[v].invite) /\ task'[v].invite \in Invites
              /\ \A u \in Workers \ {v} : task'[u].invite # task'[v].invite
        BY <2>6, <2>9, SeatsAssumption DEF IndInv, TasksFit, IdsFresh
    <2> QED
        BY <2>1, <2>5, <2>6, <2>7, <2>8, <2>10 DEF IndInv, TypeOK, TasksFit, IdsFresh,
           Created
<1>12. ASSUME NEW w \in Workers,
             CountAdmins(w)
      PROVE  IdsFresh'
    BY <1>12, SeatsAssumption DEF IndInv, TypeOK, TasksFit, IdsFresh, Created, Rows,
       Tasks, CountAdmins, Idle, tables, Labels
<1>13. ASSUME NEW w \in Workers,
             SetRole(w)
      PROVE  IdsFresh'
    BY <1>13, SeatsAssumption DEF IndInv, TypeOK, TasksFit, IdsFresh, Created, Rows,
       Tasks, SetRole, Idle, Labels
<1>14. ASSUME NEW w \in Workers,
             MarkRemoved(w)
      PROVE  IdsFresh'
    BY <1>14, SeatsAssumption DEF IndInv, TypeOK, TasksFit, IdsFresh, Created, Rows,
       Tasks, MarkRemoved, Idle, Labels
<1>15. ASSUME NEW w \in Workers,
             InsertInvite(w)
      PROVE  IdsFresh'
    BY <1>15, SeatsAssumption DEF IndInv, TypeOK, TasksFit, IdsFresh, Created, Rows,
       Tasks, InsertInvite, Idle, Labels
<1>16. ASSUME NEW w \in Workers,
             WriteRevocation(w)
      PROVE  IdsFresh'
    BY <1>16, SeatsAssumption DEF IndInv, TypeOK, TasksFit, IdsFresh, Created, Rows,
       Tasks, WriteRevocation, Idle, Labels
<1>17. ASSUME NEW w \in Workers,
             Fail(w)
      PROVE  IdsFresh'
    BY <1>17, SeatsAssumption DEF IndInv, TypeOK, TasksFit, IdsFresh, Created, Rows,
       Tasks, Fail, Idle, tables, Labels
<1>18. ASSUME NEW a \in Accounts, ChangePlan(a)
      PROVE  IdsFresh'
    BY <1>18 DEF IndInv, IdsFresh, Created, ChangePlan
<1>19. ASSUME Tick
      PROVE  IdsFresh'
    BY <1>19 DEF IndInv, IdsFresh, Created, Tick, tables
<1>20. ASSUME UNCHANGED vars
      PROVE  IdsFresh'
    BY <1>20 DEF IndInv, IdsFresh, Created, vars
<1> QED
    BY <1>1, <1>2, <1>3, <1>4, <1>5, <1>6, <1>7, <1>8, <1>9, <1>10, <1>11, <1>12,
       <1>13, <1>14, <1>15, <1>16, <1>17, <1>18, <1>19, <1>20
    DEF Next, Request, Step

\* Only the holder of the lock uses an invite without a look at what is left.
LEMMA UsesStep ==
    ASSUME IndInv, [Next]_vars
    PROVE  UsesBounded'
<1>1. ASSUME NEW w \in Workers, NEW actor \in People, NEW p \in People,
             RemoveMember(w, actor, p)
      PROVE  UsesBounded'
    BY <1>1, SeatsAssumption DEF IndInv, TypeOK, TasksFit, LockGuards, UsesBounded,
       OverusedOnceAtMost, IdsFresh, Valid, Rows, Tasks, RemoveMember, Begin, Idle,
       tables, Labels
<1>2. ASSUME NEW w \in Workers, NEW actor \in People, NEW p \in People, NEW r \in Roles,
             AddMember(w, actor, p, r)
      PROVE  UsesBounded'
    BY <1>2, SeatsAssumption DEF IndInv, TypeOK, TasksFit, LockGuards, UsesBounded,
       OverusedOnceAtMost, IdsFresh, Valid, Rows, Tasks, AddMember, Begin, Idle, tables,
       Labels
<1>3. ASSUME NEW w \in Workers, NEW actor \in People, NEW p \in People, NEW r \in Roles,
             UpdateMember(w, actor, p, r)
      PROVE  UsesBounded'
    BY <1>3, SeatsAssumption DEF IndInv, TypeOK, TasksFit, LockGuards, UsesBounded,
       OverusedOnceAtMost, IdsFresh, Valid, Rows, Tasks, UpdateMember, Begin, Idle,
       tables, Labels
<1>4. ASSUME NEW w \in Workers, NEW p \in People, NEW i \in Invites,
             RedeemInvite(w, p, i)
      PROVE  UsesBounded'
    BY <1>4, SeatsAssumption DEF IndInv, TypeOK, TasksFit, LockGuards, UsesBounded,
       OverusedOnceAtMost, IdsFresh, Valid, Rows, Tasks, RedeemInvite, Begin, Idle,
       tables, Labels
<1>5. ASSUME NEW w \in Workers, NEW p \in People, NEW i \in Invites,
             RevokeInvite(w, p, i)
      PROVE  UsesBounded'
    BY <1>5, SeatsAssumption DEF IndInv, TypeOK, TasksFit, LockGuards, UsesBounded,
       OverusedOnceAtMost, IdsFresh, Valid, Rows, Tasks, RevokeInvite, Begin, Idle,
       tables, Labels
<1>6. ASSUME NEW w \in Workers, NEW actor \in People, NEW i \in Invites,
             NEW r \in Roles, NEW n \in 1..MaxUses, NEW lifetime \in Lifetimes,
             CreateInvite(w, actor, i, r, n, lifetime)
      PROVE  UsesBounded'
    BY <1>6, SeatsAssumption DEF IndInv, TypeOK, TasksFit, LockGuards, UsesBounded,
       OverusedOnceAtMost, IdsFresh, Valid, Rows, Tasks, CreateInvite, Begin, Idle,
       tables, Labels
<1>7. ASSUME NEW w \in Workers,
             TakeLock(w)
      PROVE  UsesBounded'
    BY <1>7, SeatsAssumption DEF IndInv, TypeOK, TasksFit, LockGuards, UsesBounded,
       OverusedOnceAtMost, IdsFresh, Valid, Rows, Tasks, TakeLock, tables, Labels
<1>8. ASSUME NEW w \in Workers,
             ReadInvite(w)
      PROVE  UsesBounded'
    BY <1>8, SeatsAssumption DEF IndInv, TypeOK, TasksFit, LockGuards, UsesBounded,
       OverusedOnceAtMost, IdsFresh, Valid, Rows, Tasks, ReadInvite, Leave, Idle, tables,
       Labels
<1>9. ASSUME NEW w \in Workers,
             ReadUsage(w)
      PROVE  UsesBounded'
    BY <1>9, SeatsAssumption DEF IndInv, TypeOK, TasksFit, LockGuards, UsesBounded,
       OverusedOnceAtMost, IdsFresh, Valid, Rows, Tasks, ReadUsage, Leave, Idle, tables,
       Labels
<1>10. ASSUME NEW w \in Workers,
             CommitAdmission(w)
      PROVE  UsesBounded'
    <2>1. task' = [task EXCEPT ![w] = Idle] /\ Idle.pc = "idle" /\ lock = w
        BY <1>10 DEF IndInv, LockGuards, CommitAdmission, Leave, Idle
    <2>2. \A v \in Workers : task'[v].pc \notin {"usage", "commit"}
        BY <2>1 DEF IndInv, TypeOK, LockGuards
    <2>3. CASE task[w].invite = NoInvite
        BY <1>10, <2>2, <2>3 DEF IndInv, UsesBounded, OverusedOnceAtMost,
           CommitAdmission
    <2>4. CASE task[w].invite # NoInvite
        <3>1. task[w].invite \in Invites
            BY <2>4 DEF IndInv, TypeOK, Tasks
        <3>2. invites[task[w].invite].uses <= invites[task[w].invite].max
            BY <1>10, <2>4 DEF IndInv, UsesBounded, CommitAdmission
        <3>3. invites' = [invites EXCEPT ![task[w].invite].uses = @ + 1]
            BY <1>10, <2>4 DEF CommitAdmission
        <3>4. \A i \in Invites : invites'[i].uses <= invites'[i].max + 1
            BY <3>1, <3>2, <3>3 DEF IndInv, TypeOK, Rows, UsesBounded,
               OverusedOnceAtMost
        <3> QED
            BY <2>2, <3>4 DEF UsesBounded, OverusedOnceAtMost
    <2> QED
        BY <2>3, <2>4
<1>11. ASSUME NEW w \in Workers,
             Consume(w)
      PROVE  UsesBounded'
    <2>1. task' = [task EXCEPT ![w] = Idle] /\ Idle.pc = "idle"
        BY <1>11 DEF Consume, Idle
    <2>2. \A v \in Workers : task'[v].pc \in {"usage", "commit"} => task'[v] = task[v]
        BY <2>1 DEF IndInv, TypeOK
    <2>3. task[w].invite \in Invites
        BY <1>11 DEF IndInv, TasksFit, Consume
    <2>4. CASE UNCHANGED invites
        BY <2>2, <2>4 DEF IndInv, UsesBounded, OverusedOnceAtMost
    <2>5. CASE /\ Valid(task[w].invite, task[w].time)
               /\ invites' = [invites EXCEPT ![task[w].invite].uses = @ + 1]
        <3>1. invites[task[w].invite].uses < invites[task[w].invite].max
            BY <2>5 DEF Valid
        <3>2. \A i \in Invites : \/ invites'[i] = invites[i]
                                \/ invites'[i].uses <= invites'[i].max
            BY <2>3, <2>5, <3>1 DEF IndInv, TypeOK, Rows
        <3>3. \A i \in Invites : invites'[i].uses \in Nat /\ invites'[i].max \in Nat
            BY <2>3, <2>5, SeatsAssumption DEF IndInv, TypeOK, Rows
        <3>4. OverusedOnceAtMost'
            BY <3>2, <3>3 DEF IndInv, UsesBounded, OverusedOnceAtMost
        <3>5. \A v \in Workers : task[v].invite # NoInvite => task[v].invite \in Invites
            BY DEF IndInv, TypeOK, Tasks
        <3> QED
            BY <2>2, <3>2, <3>4, <3>5 DEF IndInv, UsesBounded
    <2> QED
        BY <1>11, <2>4, <2>5 DEF Consume
<1>12. ASSUME NEW w \in Workers,
             CountAdmins(w)
      PROVE  UsesBounded'
    BY <1>12, SeatsAssumption DEF IndInv, TypeOK, TasksFit, LockGuards, UsesBounded,
       OverusedOnceAtMost, IdsFresh, Valid, Rows, Tasks, CountAdmins, Idle, tables,
       Labels
<1>13. ASSUME NEW w \in Workers,
             SetRole(w)
      PROVE  UsesBounded'
    BY <1>13, SeatsAssumption DEF IndInv, TypeOK, TasksFit, LockGuards, UsesBounded,
       OverusedOnceAtMost, IdsFresh, Valid, Rows, Tasks, SetRole, Idle, Labels
<1>14. ASSUME NEW w \in Workers,
             MarkRemoved(w)
      PROVE  UsesBounded'
    BY <1>14, SeatsAssumption DEF IndInv, TypeOK, TasksFit, LockGuards, UsesBounded,
       OverusedOnceAtMost, IdsFresh, Valid, Rows, Tasks, MarkRemoved, Idle, Labels
<1>15. ASSUME NEW w \in Workers,
             InsertInvite(w)
      PROVE  UsesBounded'
    BY <1>15, SeatsAssumption DEF IndInv, TypeOK, TasksFit, LockGuards, UsesBounded,
       OverusedOnceAtMost, IdsFresh, Valid, Rows, Tasks, InsertInvite, Idle, Labels
<1>16. ASSUME NEW w \in Workers,
             WriteRevocation(w)
      PROVE  UsesBounded'
    BY <1>16, SeatsAssumption DEF IndInv, TypeOK, TasksFit, LockGuards, UsesBounded,
       OverusedOnceAtMost, IdsFresh, Valid, Rows, Tasks, WriteRevocation, Idle, Labels
<1>17. ASSUME NEW w \in Workers,
             Fail(w)
      PROVE  UsesBounded'
    BY <1>17, SeatsAssumption DEF IndInv, TypeOK, TasksFit, LockGuards, UsesBounded,
       OverusedOnceAtMost, IdsFresh, Valid, Rows, Tasks, Fail, Idle, tables, Labels
<1>18. ASSUME NEW a \in Accounts, ChangePlan(a)
      PROVE  UsesBounded'
    BY <1>18 DEF IndInv, UsesBounded, OverusedOnceAtMost, ChangePlan
<1>19. ASSUME Tick
      PROVE  UsesBounded'
    BY <1>19 DEF IndInv, UsesBounded, OverusedOnceAtMost, Tick, tables
<1>20. ASSUME UNCHANGED vars
      PROVE  UsesBounded'
    BY <1>20 DEF IndInv, UsesBounded, OverusedOnceAtMost, vars
<1> QED
    BY <1>1, <1>2, <1>3, <1>4, <1>5, <1>6, <1>7, <1>8, <1>9, <1>10, <1>11, <1>12,
       <1>13, <1>14, <1>15, <1>16, <1>17, <1>18, <1>19, <1>20
    DEF Next, Request, Step

\* An invite that is not valid never becomes valid again.
LEMMA LapseLasts ==
    ASSUME IndInv, NEW j \in Invites, Created(j), Valid(j, now)', [Next]_vars
    PROVE  Valid(j, now)
<1>1. ASSUME NEW w \in Workers, NEW actor \in People, NEW p \in People,
             RemoveMember(w, actor, p)
      PROVE  Valid(j, now)
    BY <1>1 DEF RemoveMember, Valid, Created, Begin, Idle, tables
<1>2. ASSUME NEW w \in Workers, NEW actor \in People, NEW p \in People, NEW r \in Roles,
             AddMember(w, actor, p, r)
      PROVE  Valid(j, now)
    BY <1>2 DEF AddMember, Valid, Created, Begin, Idle, tables
<1>3. ASSUME NEW w \in Workers, NEW actor \in People, NEW p \in People, NEW r \in Roles,
             UpdateMember(w, actor, p, r)
      PROVE  Valid(j, now)
    BY <1>3 DEF UpdateMember, Valid, Created, Begin, Idle, tables
<1>4. ASSUME NEW w \in Workers, NEW p \in People, NEW i \in Invites,
             RedeemInvite(w, p, i)
      PROVE  Valid(j, now)
    BY <1>4 DEF RedeemInvite, Valid, Created, Begin, Idle, tables
<1>5. ASSUME NEW w \in Workers, NEW p \in People, NEW i \in Invites,
             RevokeInvite(w, p, i)
      PROVE  Valid(j, now)
    BY <1>5 DEF RevokeInvite, Valid, Created, Begin, Idle, tables
<1>6. ASSUME NEW w \in Workers, NEW actor \in People, NEW i \in Invites,
             NEW r \in Roles, NEW n \in 1..MaxUses, NEW lifetime \in Lifetimes,
             CreateInvite(w, actor, i, r, n, lifetime)
      PROVE  Valid(j, now)
    BY <1>6 DEF CreateInvite, Valid, Created, Begin, Idle, tables
<1>7. ASSUME NEW w \in Workers,
             TakeLock(w)
      PROVE  Valid(j, now)
    BY <1>7 DEF TakeLock, Valid, Created, tables
<1>8. ASSUME NEW w \in Workers,
             ReadInvite(w)
      PROVE  Valid(j, now)
    BY <1>8 DEF ReadInvite, Valid, Created, Leave, Idle, tables
<1>9. ASSUME NEW w \in Workers,
             ReadUsage(w)
      PROVE  Valid(j, now)
    BY <1>9 DEF ReadUsage, Valid, Created, Leave, Idle, tables
<1>10. ASSUME NEW w \in Workers,
             CommitAdmission(w)
      PROVE  Valid(j, now)
    BY <1>10 DEF IndInv, TypeOK, Rows, Tasks, CommitAdmission, Valid, Created
<1>11. ASSUME NEW w \in Workers,
             Consume(w)
      PROVE  Valid(j, now)
    BY <1>11 DEF IndInv, TypeOK, Rows, Consume, Valid, Created
<1>12. ASSUME NEW w \in Workers,
             CountAdmins(w)
      PROVE  Valid(j, now)
    BY <1>12 DEF CountAdmins, Valid, Created, Idle, tables
<1>13. ASSUME NEW w \in Workers,
             SetRole(w)
      PROVE  Valid(j, now)
    BY <1>13 DEF SetRole, Valid, Created, Idle
<1>14. ASSUME NEW w \in Workers,
             MarkRemoved(w)
      PROVE  Valid(j, now)
    BY <1>14 DEF MarkRemoved, Valid, Created, Idle
<1>15. ASSUME NEW w \in Workers,
             InsertInvite(w)
      PROVE  Valid(j, now)
    BY <1>15 DEF IndInv, TypeOK, IdsFresh, InsertInvite, Valid, Created
<1>16. ASSUME NEW w \in Workers,
             WriteRevocation(w)
      PROVE  Valid(j, now)
    BY <1>16 DEF IndInv, TypeOK, Rows, WriteRevocation, Valid, Created
<1>17. ASSUME NEW w \in Workers,
             Fail(w)
      PROVE  Valid(j, now)
    BY <1>17 DEF Fail, Valid, Created, Idle, tables
<1>18. ASSUME NEW a \in Accounts, ChangePlan(a)
      PROVE  Valid(j, now)
    BY <1>18 DEF ChangePlan, Valid, Created
<1>19. ASSUME Tick
      PROVE  Valid(j, now)
    BY <1>19 DEF IndInv, TypeOK, Rows, Tick, Valid, Created, tables
<1>20. ASSUME UNCHANGED vars
      PROVE  Valid(j, now)
    BY <1>20 DEF vars, Valid, Created
<1> QED
    BY <1>1, <1>2, <1>3, <1>4, <1>5, <1>6, <1>7, <1>8, <1>9, <1>10, <1>11, <1>12,
       <1>13, <1>14, <1>15, <1>16, <1>17, <1>18, <1>19, <1>20
    DEF Next, Request, Step

HolderAdds(v) ==
    /\ Active' \subseteq Active \cup {task[v].who}
    /\ task'[v] = task[v] => Active' \subseteq Active

\* While an admission has the lock, nobody but it adds a member.
LEMMA OnlyHolderAdds ==
    ASSUME IndInv, NEW v \in Workers, task[v].pc \in {"invite", "commit"}, [Next]_vars
    PROVE  HolderAdds(v)
<1>1. ASSUME NEW w \in Workers, NEW actor \in People, NEW p \in People,
             RemoveMember(w, actor, p)
      PROVE  HolderAdds(v)
    BY <1>1 DEF RemoveMember, Active, HolderAdds, Begin, Idle, tables
<1>2. ASSUME NEW w \in Workers, NEW actor \in People, NEW p \in People, NEW r \in Roles,
             AddMember(w, actor, p, r)
      PROVE  HolderAdds(v)
    BY <1>2 DEF AddMember, Active, HolderAdds, Begin, Idle, tables
<1>3. ASSUME NEW w \in Workers, NEW actor \in People, NEW p \in People, NEW r \in Roles,
             UpdateMember(w, actor, p, r)
      PROVE  HolderAdds(v)
    BY <1>3 DEF UpdateMember, Active, HolderAdds, Begin, Idle, tables
<1>4. ASSUME NEW w \in Workers, NEW p \in People, NEW i \in Invites,
             RedeemInvite(w, p, i)
      PROVE  HolderAdds(v)
    BY <1>4 DEF RedeemInvite, Active, HolderAdds, Begin, Idle, tables
<1>5. ASSUME NEW w \in Workers, NEW p \in People, NEW i \in Invites,
             RevokeInvite(w, p, i)
      PROVE  HolderAdds(v)
    BY <1>5 DEF RevokeInvite, Active, HolderAdds, Begin, Idle, tables
<1>6. ASSUME NEW w \in Workers, NEW actor \in People, NEW i \in Invites,
             NEW r \in Roles, NEW n \in 1..MaxUses, NEW lifetime \in Lifetimes,
             CreateInvite(w, actor, i, r, n, lifetime)
      PROVE  HolderAdds(v)
    BY <1>6 DEF CreateInvite, Active, HolderAdds, Begin, Idle, tables
<1>7. ASSUME NEW w \in Workers,
             TakeLock(w)
      PROVE  HolderAdds(v)
    BY <1>7 DEF TakeLock, Active, HolderAdds, tables
<1>8. ASSUME NEW w \in Workers,
             ReadInvite(w)
      PROVE  HolderAdds(v)
    BY <1>8 DEF ReadInvite, Active, HolderAdds, Leave, Idle, tables
<1>9. ASSUME NEW w \in Workers,
             ReadUsage(w)
      PROVE  HolderAdds(v)
    BY <1>9 DEF ReadUsage, Active, HolderAdds, Leave, Idle, tables
<1>10. ASSUME NEW w \in Workers,
             CommitAdmission(w)
      PROVE  HolderAdds(v)
    <2>1. v = w
        BY <1>10 DEF IndInv, LockGuards, CommitAdmission
    <2>2. task'[v].pc = "idle" /\ task[v].pc = "commit"
        BY <1>10, <2>1 DEF IndInv, TypeOK, CommitAdmission, Leave, Idle
    <2> QED
        BY <1>10, <2>1, <2>2 DEF IndInv, TypeOK, CommitAdmission, Active, HolderAdds
<1>11. ASSUME NEW w \in Workers,
             Consume(w)
      PROVE  HolderAdds(v)
    BY <1>11 DEF Consume, Active, HolderAdds, Idle
<1>12. ASSUME NEW w \in Workers,
             CountAdmins(w)
      PROVE  HolderAdds(v)
    BY <1>12 DEF CountAdmins, Active, HolderAdds, Idle, tables
<1>13. ASSUME NEW w \in Workers,
             SetRole(w)
      PROVE  HolderAdds(v)
    BY <1>13 DEF IndInv, TypeOK, SetRole, Active, HolderAdds
<1>14. ASSUME NEW w \in Workers,
             MarkRemoved(w)
      PROVE  HolderAdds(v)
    BY <1>14 DEF IndInv, TypeOK, MarkRemoved, Active, HolderAdds
<1>15. ASSUME NEW w \in Workers,
             InsertInvite(w)
      PROVE  HolderAdds(v)
    BY <1>15 DEF InsertInvite, Active, HolderAdds, Idle
<1>16. ASSUME NEW w \in Workers,
             WriteRevocation(w)
      PROVE  HolderAdds(v)
    BY <1>16 DEF WriteRevocation, Active, HolderAdds, Idle
<1>17. ASSUME NEW w \in Workers,
             Fail(w)
      PROVE  HolderAdds(v)
    BY <1>17 DEF Fail, Active, HolderAdds, Idle, tables
<1>18. ASSUME NEW a \in Accounts, ChangePlan(a)
      PROVE  HolderAdds(v)
    BY <1>18 DEF ChangePlan, Active, HolderAdds
<1>19. ASSUME Tick
      PROVE  HolderAdds(v)
    BY <1>19 DEF Tick, Active, HolderAdds, tables
<1>20. ASSUME UNCHANGED vars
      PROVE  HolderAdds(v)
    BY <1>20 DEF vars, Active, HolderAdds
<1> QED
    BY <1>1, <1>2, <1>3, <1>4, <1>5, <1>6, <1>7, <1>8, <1>9, <1>10, <1>11, <1>12,
       <1>13, <1>14, <1>15, <1>16, <1>17, <1>18, <1>19, <1>20
    DEF Next, Request, Step

\* The three steps that bring an admission forward.
LEMMA WaysIn ==
    ASSUME IndInv, NEW v \in Workers, task'[v].pc \in {"invite", "commit"}, [Next]_vars
    PROVE  \/ task'[v] = task[v]
           \/ TakeLock(v) \/ ReadInvite(v) \/ ReadUsage(v)
<1>1. ASSUME NEW w \in Workers, NEW actor \in People, NEW p \in People,
             RemoveMember(w, actor, p)
      PROVE  \/ task'[v] = task[v]
           \/ TakeLock(v) \/ ReadInvite(v) \/ ReadUsage(v)
    BY <1>1 DEF IndInv, TypeOK, RemoveMember, Begin, Idle
<1>2. ASSUME NEW w \in Workers, NEW actor \in People, NEW p \in People, NEW r \in Roles,
             AddMember(w, actor, p, r)
      PROVE  \/ task'[v] = task[v]
           \/ TakeLock(v) \/ ReadInvite(v) \/ ReadUsage(v)
    BY <1>2 DEF IndInv, TypeOK, AddMember, Begin, Idle
<1>3. ASSUME NEW w \in Workers, NEW actor \in People, NEW p \in People, NEW r \in Roles,
             UpdateMember(w, actor, p, r)
      PROVE  \/ task'[v] = task[v]
           \/ TakeLock(v) \/ ReadInvite(v) \/ ReadUsage(v)
    BY <1>3 DEF IndInv, TypeOK, UpdateMember, Begin, Idle
<1>4. ASSUME NEW w \in Workers, NEW p \in People, NEW i \in Invites,
             RedeemInvite(w, p, i)
      PROVE  \/ task'[v] = task[v]
           \/ TakeLock(v) \/ ReadInvite(v) \/ ReadUsage(v)
    BY <1>4 DEF IndInv, TypeOK, RedeemInvite, Begin, Idle
<1>5. ASSUME NEW w \in Workers, NEW p \in People, NEW i \in Invites,
             RevokeInvite(w, p, i)
      PROVE  \/ task'[v] = task[v]
           \/ TakeLock(v) \/ ReadInvite(v) \/ ReadUsage(v)
    BY <1>5 DEF IndInv, TypeOK, RevokeInvite, Begin, Idle
<1>6. ASSUME NEW w \in Workers, NEW actor \in People, NEW i \in Invites,
             NEW r \in Roles, NEW n \in 1..MaxUses, NEW lifetime \in Lifetimes,
             CreateInvite(w, actor, i, r, n, lifetime)
      PROVE  \/ task'[v] = task[v]
           \/ TakeLock(v) \/ ReadInvite(v) \/ ReadUsage(v)
    BY <1>6 DEF IndInv, TypeOK, CreateInvite, Begin, Idle
<1>7. ASSUME NEW w \in Workers,
             TakeLock(w)
      PROVE  \/ task'[v] = task[v]
           \/ TakeLock(v) \/ ReadInvite(v) \/ ReadUsage(v)
    BY <1>7 DEF IndInv, TypeOK, TakeLock
<1>8. ASSUME NEW w \in Workers,
             ReadInvite(w)
      PROVE  \/ task'[v] = task[v]
           \/ TakeLock(v) \/ ReadInvite(v) \/ ReadUsage(v)
    BY <1>8 DEF IndInv, TypeOK, ReadInvite, Leave, Idle
<1>9. ASSUME NEW w \in Workers,
             ReadUsage(w)
      PROVE  \/ task'[v] = task[v]
           \/ TakeLock(v) \/ ReadInvite(v) \/ ReadUsage(v)
    BY <1>9 DEF IndInv, TypeOK, ReadUsage, Leave, Idle
<1>10. ASSUME NEW w \in Workers,
             CommitAdmission(w)
      PROVE  \/ task'[v] = task[v]
           \/ TakeLock(v) \/ ReadInvite(v) \/ ReadUsage(v)
    BY <1>10 DEF IndInv, TypeOK, CommitAdmission, Leave, Idle
<1>11. ASSUME NEW w \in Workers,
             Consume(w)
      PROVE  \/ task'[v] = task[v]
           \/ TakeLock(v) \/ ReadInvite(v) \/ ReadUsage(v)
    BY <1>11 DEF IndInv, TypeOK, Consume, Idle
<1>12. ASSUME NEW w \in Workers,
             CountAdmins(w)
      PROVE  \/ task'[v] = task[v]
           \/ TakeLock(v) \/ ReadInvite(v) \/ ReadUsage(v)
    BY <1>12 DEF IndInv, TypeOK, CountAdmins, Idle
<1>13. ASSUME NEW w \in Workers,
             SetRole(w)
      PROVE  \/ task'[v] = task[v]
           \/ TakeLock(v) \/ ReadInvite(v) \/ ReadUsage(v)
    BY <1>13 DEF IndInv, TypeOK, SetRole, Idle
<1>14. ASSUME NEW w \in Workers,
             MarkRemoved(w)
      PROVE  \/ task'[v] = task[v]
           \/ TakeLock(v) \/ ReadInvite(v) \/ ReadUsage(v)
    BY <1>14 DEF IndInv, TypeOK, MarkRemoved, Idle
<1>15. ASSUME NEW w \in Workers,
             InsertInvite(w)
      PROVE  \/ task'[v] = task[v]
           \/ TakeLock(v) \/ ReadInvite(v) \/ ReadUsage(v)
    BY <1>15 DEF IndInv, TypeOK, InsertInvite, Idle
<1>16. ASSUME NEW w \in Workers,
             WriteRevocation(w)
      PROVE  \/ task'[v] = task[v]
           \/ TakeLock(v) \/ ReadInvite(v) \/ ReadUsage(v)
    BY <1>16 DEF IndInv, TypeOK, WriteRevocation, Idle
<1>17. ASSUME NEW w \in Workers,
             Fail(w)
      PROVE  \/ task'[v] = task[v]
           \/ TakeLock(v) \/ ReadInvite(v) \/ ReadUsage(v)
    BY <1>17 DEF IndInv, TypeOK, Fail, Idle
<1>18. ASSUME NEW a \in Accounts, ChangePlan(a)
      PROVE  \/ task'[v] = task[v]
           \/ TakeLock(v) \/ ReadInvite(v) \/ ReadUsage(v)
    BY <1>18 DEF ChangePlan
<1>19. ASSUME Tick
      PROVE  \/ task'[v] = task[v]
           \/ TakeLock(v) \/ ReadInvite(v) \/ ReadUsage(v)
    BY <1>19 DEF Tick
<1>20. ASSUME UNCHANGED vars
      PROVE  \/ task'[v] = task[v]
           \/ TakeLock(v) \/ ReadInvite(v) \/ ReadUsage(v)
    BY <1>20 DEF vars
<1> QED
    BY <1>1, <1>2, <1>3, <1>4, <1>5, <1>6, <1>7, <1>8, <1>9, <1>10, <1>11, <1>12,
       <1>13, <1>14, <1>15, <1>16, <1>17, <1>18, <1>19, <1>20
    DEF Next, Request, Step

\* Room for an admission stays while nobody else adds members.
LEMMA RoomStays ==
    ASSUME TypeOK, TypeOK', NEW v \in Workers, Room(v),
           task'[v] = task[v], Active' \subseteq Active,
               InviteLapsed(v) => InviteLapsed(v)'
    PROVE  Room(v)'
<1> DEFINE before == Active \cup {task[v].who}
           after  == Active' \cup {task[v].who}
<1>1. IsFiniteSet(before) /\ Cardinality(before) \in Nat
    BY SeatsCounted, FS_AddElement, FS_CardinalityType
<1>2. after \in SUBSET before
    OBVIOUS
<1>3. Cardinality(after) \in Nat /\ Cardinality(after) <= Cardinality(before)
    BY <1>1, <1>2, FS_Subset, FS_CardinalityType
<1>4. Joined(v) = Cardinality(before) /\ Joined(v)' = Cardinality(after)
    BY DEF Joined
<1>5. task[v].bound \in Nat
    BY DEF TypeOK, Tasks
<1> HIDE DEF before, after
<1> QED
    BY <1>1, <1>3, <1>4, <1>5 DEF Room

\* Whoever counts the seats under the lock leaves room for the admission.
LEMMA RoomStep ==
    ASSUME IndInv, [Next]_vars, TypeOK'
    PROVE  RoomLeft'
<1> SUFFICES ASSUME NEW v \in Workers, task'[v].pc \in {"invite", "commit"}
             PROVE  Room(v)'
    BY DEF RoomLeft, Room
<1>1. TypeOK /\ Room(v)
    BY DEF IndInv, RoomLeft
<1>2. /\ IsFiniteSet(Active) /\ Cardinality(Active) \in Nat
      /\ IsFiniteSet(Places) /\ Cardinality(Places) \in Nat
      /\ Included \in Nat
    BY <1>1, SeatsCounted
<1>3. /\ task[v].bound \in Nat /\ task[v].who \in People
      /\ task[v].invite \in Invites \cup {NoInvite}
    BY <1>1 DEF TypeOK, Tasks
<1>4. /\ IsFiniteSet(Active \cup {task[v].who})
      /\ Joined(v) \in Nat
      /\ Joined(v) = IF task[v].who \in Active THEN Cardinality(Active)
                                               ELSE Cardinality(Active) + 1
    BY <1>2, FS_AddElement, FS_CardinalityType DEF Joined
<1>5. CASE task'[v] = task[v]
    <2>1. Active' \subseteq Active
        BY <1>5, OnlyHolderAdds DEF HolderAdds
    <2>2. ASSUME InviteLapsed(v)
          PROVE  InviteLapsed(v)'
        <3>1. task[v].invite \in Invites /\ Created(task[v].invite)
            BY <1>3, <1>5, <2>2 DEF InviteLapsed, IndInv, IdsFresh
        <3> QED
            BY <1>5, <2>2, <3>1, LapseLasts DEF InviteLapsed
    <2> QED
        BY <1>1, <1>5, <2>1, <2>2, RoomStays
<1>6. CASE TakeLock(v)
    <2>1. Active' = Active
        BY <1>6 DEF TakeLock, tables, Active
    <2>2. CASE task[v].who \in Active
        <3>1. task'[v].bound = Cardinality(Active) /\ task'[v].who = task[v].who
            BY <1>1, <1>6, <2>2 DEF TakeLock, TypeOK, Active
        <3> QED
            BY <1>4, <2>1, <2>2, <3>1 DEF Room, Joined
    <2>3. CASE task[v].who \notin Active
        <3>1. task'[v].bound = 0 /\ task'[v].pc # "commit"
            BY <1>1, <1>3, <1>6, <2>3 DEF TakeLock, TypeOK, Active
        <3> QED
            BY <3>1 DEF Room
    <2> QED
        BY <2>2, <2>3
<1>7. CASE ReadInvite(v)
    <2>1. Active' = Active
        BY <1>7 DEF ReadInvite, tables, Active
    <2>2. /\ task[v].pc = "invite" /\ task[v].bound > 0 /\ task'[v].pc = "commit"
          /\ task'[v].bound = task[v].bound /\ task'[v].who = task[v].who
        <3>1. CASE Leave(v)
            BY <1>1, <3>1 DEF Leave, Idle, TypeOK
        <3>2. CASE task' = [task EXCEPT ![v].pc = IF task[v].bound > 0 THEN "commit"
                                                  ELSE "usage"]
            BY <1>1, <1>7, <3>2 DEF ReadInvite, TypeOK
        <3> QED
            BY <1>7, <3>1, <3>2 DEF ReadInvite
    <2> QED
        BY <1>1, <1>4, <2>1, <2>2 DEF Room, Joined
<1>8. CASE ReadUsage(v)
    <2>1. Active' = Active /\ UNCHANGED <<invites, now>>
        BY <1>8 DEF ReadUsage, tables, Active
    <2>2. /\ task'[v].pc = "commit" /\ task'[v].bound = Included
          /\ task'[v].who = task[v].who /\ task'[v].invite = task[v].invite
          /\ IF task[v].invite = NoInvite THEN Used < Included ELSE Used <= Included
        <3>1. CASE Leave(v)
            BY <1>1, <3>1 DEF Leave, Idle, TypeOK
        <3>2. CASE /\ task' = [task EXCEPT ![v].pc = "commit", ![v].bound = Included]
                   /\ IF task[v].invite = NoInvite THEN Used < Included
                                                   ELSE Used <= Included
            BY <1>1, <3>2 DEF TypeOK
        <3> QED
            BY <1>8, <3>1, <3>2 DEF ReadUsage
    <2>3. Joined(v)' = Joined(v)
        BY <2>1, <2>2 DEF Joined
    <2>4. CASE task[v].invite = NoInvite
        BY <1>2, <1>4, <2>2, <2>3, <2>4 DEF Room, Used
    <2>5. CASE InviteLapsed(v)
        <3>1. InviteLapsed(v)'
            BY <2>1, <2>2, <2>5 DEF InviteLapsed, Valid, Created
        <3>2. Joined(v) <= Included + 1
            BY <1>2, <1>4, <2>2, <2>5 DEF Used, InviteLapsed
        <3> QED
            BY <2>2, <2>3, <3>1, <3>2 DEF Room
    <2>6. CASE task[v].invite # NoInvite /\ ~InviteLapsed(v)
        <3> DEFINE i == task[v].invite
                   place == <<i, invites[i].max>>
        <3>1. i \in Invites /\ Valid(i, now)
            BY <1>3, <2>6 DEF InviteLapsed
        <3>2. invites[i].max \in 1..MaxUses /\ invites[i].uses < invites[i].max
            BY <1>1, <3>1, SeatsAssumption DEF TypeOK, Rows, Valid, Created
        <3>3. place \in Places
            BY <3>1, <3>2 DEF Places
        <3>4. Cardinality(Places) # 0
            BY <1>2, <3>3, FS_EmptySet
        <3> QED
            BY <1>2, <1>4, <2>2, <2>3, <2>6, <3>4 DEF Room, Used
    <2> QED
        BY <2>4, <2>5, <2>6
<1> QED
    BY <1>5, <1>6, <1>7, <1>8, WaysIn

Redeemers(i) == {p \in People : <<i, p>> \in redemptions}

\* One more redeemer, one more use.
LEMMA UsePays ==
    ASSUME IndInv, NEW i \in Invites, NEW p \in People,
           redemptions' \subseteq redemptions \cup {<<i, p>>},
           invites' = [invites EXCEPT ![i].uses = @ + 1]
    PROVE  RedemptionsPaid'
<1> SUFFICES ASSUME NEW j \in Invites
             PROVE  Cardinality(Redeemers(j)') <= invites'[j].uses
    BY DEF RedemptionsPaid, Redeemers
<1>1. IsFiniteSet(Redeemers(j)) /\ Cardinality(Redeemers(j)) \in Nat
    BY FS_Subset, FS_CardinalityType, SeatsAssumption DEF Redeemers
<1>2. Cardinality(Redeemers(j)) <= invites[j].uses /\ invites[j].uses \in Nat
    BY DEF IndInv, TypeOK, Rows, RedemptionsPaid, Redeemers
<1>3. CASE j = i
    <2>1. Redeemers(j)' \in SUBSET (Redeemers(j) \cup {p})
        BY <1>3 DEF Redeemers
    <2>2. /\ IsFiniteSet(Redeemers(j) \cup {p})
          /\ Cardinality(Redeemers(j) \cup {p}) \in Nat
          /\ Cardinality(Redeemers(j) \cup {p}) <= Cardinality(Redeemers(j)) + 1
        <3>1. /\ IsFiniteSet(Redeemers(j) \cup {p})
              /\ Cardinality(Redeemers(j) \cup {p}) =
                   IF p \in Redeemers(j) THEN Cardinality(Redeemers(j))
                                         ELSE Cardinality(Redeemers(j)) + 1
            BY <1>1, FS_AddElement
        <3> QED
            BY <1>1, <3>1
    <2>3. /\ Cardinality(Redeemers(j)') \in Nat
          /\ Cardinality(Redeemers(j)') <= Cardinality(Redeemers(j) \cup {p})
        BY <2>1, <2>2, FS_Subset, FS_CardinalityType
    <2>4. invites'[j].uses = invites[j].uses + 1
        BY <1>3 DEF IndInv, TypeOK, Rows
    <2> QED
        BY <1>1, <1>2, <2>2, <2>3, <2>4
<1>4. CASE j # i
    <2>1. Redeemers(j)' \in SUBSET Redeemers(j)
        BY <1>4 DEF Redeemers
    <2>2. /\ Cardinality(Redeemers(j)') \in Nat
          /\ Cardinality(Redeemers(j)') <= Cardinality(Redeemers(j))
        BY <1>1, <2>1, FS_Subset, FS_CardinalityType
    <2>3. invites'[j].uses = invites[j].uses
        BY <1>4 DEF IndInv, TypeOK
    <2> QED
        BY <1>1, <1>2, <2>2, <2>3
<1> QED
    BY <1>3, <1>4

\* Both writers of redemptions pay for them.
LEMMA PaidStep ==
    ASSUME IndInv, [Next]_vars
    PROVE  RedemptionsPaid'
<1>1. ASSUME NEW w \in Workers, NEW actor \in People, NEW p \in People,
             RemoveMember(w, actor, p)
      PROVE  RedemptionsPaid'
    BY <1>1 DEF IndInv, RedemptionsPaid, RemoveMember, Begin, Idle, tables
<1>2. ASSUME NEW w \in Workers, NEW actor \in People, NEW p \in People, NEW r \in Roles,
             AddMember(w, actor, p, r)
      PROVE  RedemptionsPaid'
    BY <1>2 DEF IndInv, RedemptionsPaid, AddMember, Begin, Idle, tables
<1>3. ASSUME NEW w \in Workers, NEW actor \in People, NEW p \in People, NEW r \in Roles,
             UpdateMember(w, actor, p, r)
      PROVE  RedemptionsPaid'
    BY <1>3 DEF IndInv, RedemptionsPaid, UpdateMember, Begin, Idle, tables
<1>4. ASSUME NEW w \in Workers, NEW p \in People, NEW i \in Invites,
             RedeemInvite(w, p, i)
      PROVE  RedemptionsPaid'
    BY <1>4 DEF IndInv, RedemptionsPaid, RedeemInvite, Begin, Idle, tables
<1>5. ASSUME NEW w \in Workers, NEW p \in People, NEW i \in Invites,
             RevokeInvite(w, p, i)
      PROVE  RedemptionsPaid'
    BY <1>5 DEF IndInv, RedemptionsPaid, RevokeInvite, Begin, Idle, tables
<1>6. ASSUME NEW w \in Workers, NEW actor \in People, NEW i \in Invites,
             NEW r \in Roles, NEW n \in 1..MaxUses, NEW lifetime \in Lifetimes,
             CreateInvite(w, actor, i, r, n, lifetime)
      PROVE  RedemptionsPaid'
    BY <1>6 DEF IndInv, RedemptionsPaid, CreateInvite, Begin, Idle, tables
<1>7. ASSUME NEW w \in Workers,
             TakeLock(w)
      PROVE  RedemptionsPaid'
    BY <1>7 DEF IndInv, RedemptionsPaid, TakeLock, tables
<1>8. ASSUME NEW w \in Workers,
             ReadInvite(w)
      PROVE  RedemptionsPaid'
    BY <1>8 DEF IndInv, RedemptionsPaid, ReadInvite, Leave, Idle, tables
<1>9. ASSUME NEW w \in Workers,
             ReadUsage(w)
      PROVE  RedemptionsPaid'
    BY <1>9 DEF IndInv, RedemptionsPaid, ReadUsage, Leave, Idle, tables
<1>10. ASSUME NEW w \in Workers,
             CommitAdmission(w)
      PROVE  RedemptionsPaid'
    <2>1. CASE task[w].invite = NoInvite
        BY <1>10, <2>1 DEF IndInv, RedemptionsPaid, CommitAdmission
    <2>2. CASE task[w].invite # NoInvite
        <3>1. task[w].invite \in Invites /\ task[w].who \in People
            BY <2>2 DEF IndInv, TypeOK, Tasks
        <3> QED
            BY <1>10, <2>2, <3>1, UsePays DEF CommitAdmission
    <2> QED
        BY <2>1, <2>2
<1>11. ASSUME NEW w \in Workers,
             Consume(w)
      PROVE  RedemptionsPaid'
    <2>1. task[w].invite \in Invites /\ task[w].who \in People
        BY <1>11 DEF IndInv, TypeOK, Tasks, TasksFit, Consume
    <2>2. CASE UNCHANGED <<invites, redemptions>>
        BY <2>2 DEF IndInv, RedemptionsPaid
    <2>3. CASE /\ invites' = [invites EXCEPT ![task[w].invite].uses = @ + 1]
               /\ redemptions' = redemptions \cup {<<task[w].invite, task[w].who>>}
        BY <2>1, <2>3, UsePays
    <2> QED
        BY <1>11, <2>2, <2>3 DEF Consume
<1>12. ASSUME NEW w \in Workers,
             CountAdmins(w)
      PROVE  RedemptionsPaid'
    BY <1>12 DEF IndInv, RedemptionsPaid, CountAdmins, Idle, tables
<1>13. ASSUME NEW w \in Workers,
             SetRole(w)
      PROVE  RedemptionsPaid'
    BY <1>13 DEF IndInv, RedemptionsPaid, SetRole, Idle
<1>14. ASSUME NEW w \in Workers,
             MarkRemoved(w)
      PROVE  RedemptionsPaid'
    BY <1>14 DEF IndInv, RedemptionsPaid, MarkRemoved, Idle
<1>15. ASSUME NEW w \in Workers,
             InsertInvite(w)
      PROVE  RedemptionsPaid'
    <2> DEFINE i == task[w].invite
    <2>1. i \in Invites /\ ~Created(i)
        BY <1>15 DEF IndInv, TasksFit, IdsFresh, InsertInvite
    <2>2. Redeemers(i) = {}
        BY <2>1 DEF IndInv, IdsFresh, Redeemers
    <2>3. UNCHANGED redemptions /\ invites'[i].uses = 0
        BY <1>15, <2>1 DEF IndInv, TypeOK, InsertInvite
    <2>4. \A j \in Invites \ {i} : invites'[j] = invites[j]
        BY <1>15 DEF IndInv, TypeOK, InsertInvite
    <2>5. Cardinality(Redeemers(i)) <= invites'[i].uses
        BY <2>2, <2>3, FS_EmptySet
    <2> QED
        BY <2>3, <2>4, <2>5 DEF IndInv, RedemptionsPaid, Redeemers
<1>16. ASSUME NEW w \in Workers,
             WriteRevocation(w)
      PROVE  RedemptionsPaid'
    <2>1. \A j \in Invites : invites'[j].uses = invites[j].uses
        BY <1>16 DEF IndInv, TypeOK, Rows, WriteRevocation
    <2> QED
        BY <1>16, <2>1 DEF IndInv, RedemptionsPaid, WriteRevocation
<1>17. ASSUME NEW w \in Workers,
             Fail(w)
      PROVE  RedemptionsPaid'
    BY <1>17 DEF IndInv, RedemptionsPaid, Fail, Idle, tables
<1>18. ASSUME NEW a \in Accounts, ChangePlan(a)
      PROVE  RedemptionsPaid'
    BY <1>18 DEF IndInv, RedemptionsPaid, ChangePlan
<1>19. ASSUME Tick
      PROVE  RedemptionsPaid'
    BY <1>19 DEF IndInv, RedemptionsPaid, Tick, tables
<1>20. ASSUME UNCHANGED vars
      PROVE  RedemptionsPaid'
    BY <1>20 DEF IndInv, RedemptionsPaid, vars
<1> QED
    BY <1>1, <1>2, <1>3, <1>4, <1>5, <1>6, <1>7, <1>8, <1>9, <1>10, <1>11, <1>12,
       <1>13, <1>14, <1>15, <1>16, <1>17, <1>18, <1>19, <1>20
    DEF Next, Request, Step

-----------------------------------------------------------------------------

LEMMA IndInit ==
    ASSUME Init
    PROVE  IndInv
<1>1. TypeOK
    BY SeatsAssumption
    DEF Init, TypeOK, Idle, NoRow, Tasks, Rows, Roles, Labels
<1>2. LockGuards /\ TasksFit
    BY SeatsAssumption DEF Init, LockGuards, TasksFit, Idle
<1>3. IdsFresh /\ UsesBounded
    BY DEF Init, IdsFresh, UsesBounded, OverusedOnceAtMost, Idle, NoRow, Created
<1>4. RoomLeft
    BY DEF Init, RoomLeft, Room, Idle
<1>5. RedemptionsPaid
    <2>1. \A i \in Invites : {p \in People : <<i, p>> \in redemptions} = {}
        BY DEF Init
    <2>2. Cardinality({}) = 0
        BY FS_EmptySet
    <2>3. \A i \in Invites : invites[i].uses = 0
        BY DEF Init, NoRow
    <2>4. \A i \in Invites : Cardinality({p \in People : <<i, p>> \in redemptions}) = 0
        BY <2>1, <2>2, Zenon
    <2> QED
        BY <2>3, <2>4 DEF RedemptionsPaid
<1> QED
    BY <1>1, <1>2, <1>3, <1>4, <1>5 DEF IndInv

\* The inductive invariant holds of every behavior.
THEOREM SeatsInductive == Spec => []IndInv
<1>1. IndInv /\ [Next]_vars => IndInv'
    BY TypeStep, LockStep, TasksStep, FreshStep, UsesStep, RoomStep, PaidStep DEF IndInv
<1> QED
    BY <1>1, IndInit, PTL DEF Spec

\* Type correctness of organizations, invites and the requests under way.
THEOREM SeatsTypeCorrect == Spec => []TypeOK
<1>1. IndInv => TypeOK
    BY DEF IndInv
<1> QED
    BY <1>1, SeatsInductive, PTL

\* However many redemptions of members race with admissions, an invite is used
\* once too often at most.
THEOREM OverusedOnce == Spec => []OverusedOnceAtMost
<1>1. IndInv => OverusedOnceAtMost
    BY DEF IndInv, UsesBounded
<1> QED
    BY <1>1, SeatsInductive, PTL

\* org_invites.uses_count never falls behind the rows of org_invite_redemptions.
THEOREM EveryRedemptionPaid == Spec => []RedemptionsPaid
<1>1. IndInv => RedemptionsPaid
    BY DEF IndInv
<1> QED
    BY <1>1, SeatsInductive, PTL

\* No admission takes the organization beyond the seats it counted, but for the
\* one seat of a redemption whose invite lapsed under it.
THEOREM AdmissionsFit == Spec => AdmissionFitsPlan
<1> DEFINE Fits == \A w \in Workers : Admitted(w) =>
                      \/ Cardinality(Active') <= task[w].bound
                      \/ InviteLapsed(w) /\ Cardinality(Active') = task[w].bound + 1
<1>1. ASSUME IndInv, [Next]_vars
      PROVE  Fits
    <2> SUFFICES ASSUME NEW w \in Workers, Admitted(w)
                 PROVE  \/ Cardinality(Active') <= task[w].bound
                        \/ InviteLapsed(w) /\ Cardinality(Active') = task[w].bound + 1
        OBVIOUS
    <2>1. task[w].pc = "commit" /\ task[w].bound \in Nat
        BY <1>1 DEF Admitted, IndInv, TypeOK, Tasks
    <2>2. Active' \in SUBSET (Active \cup {task[w].who})
        BY <1>1, <2>1, OnlyHolderAdds DEF HolderAdds
    <2>3. IsFiniteSet(Active \cup {task[w].who}) /\ Joined(w) \in Nat
        BY <1>1, SeatsCounted, FS_AddElement, FS_CardinalityType DEF IndInv, Joined
    <2>4. Cardinality(Active') \in Nat /\ Cardinality(Active') <= Joined(w)
        BY <2>2, <2>3, FS_Subset, FS_CardinalityType DEF Joined
    <2>5. Room(w)
        BY <1>1 DEF IndInv, RoomLeft
    <2> QED
        BY <2>1, <2>3, <2>4, <2>5 DEF Room
<1>2. IndInv /\ [Next]_vars => [Fits]_vars
    BY <1>1
<1> QED
    BY <1>2, SeatsInductive, PTL DEF Spec, AdmissionFitsPlan

=============================================================================
