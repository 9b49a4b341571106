----------------------- MODULE IdempotentReportProofs -----------------------
(***************************************************************************)
(* A key names one record, one answer and one text, the counter follows    *)
(* the rows, and a quota is passed by what the other processes have on the *)
(* way at most, for any server processes, reports, keys and libraries.     *)
(*                                                                         *)
(* The look-up in ma3_report, the look-up in the transaction and the claim *)
(* of the key are three reads of one table at three times.  What makes     *)
(* them agree is that a claim never changes, and that a report on its way  *)
(* to the claim carries either an id that nobody else knows or the id its  *)
(* key is claimed for.                                                     *)
(*                                                                         *)
(* The quota is passed by little because of the reports let in and not     *)
(* stored yet, one fitted when it was let in, and each other has room for  *)
(* a largest report under the ceiling (WithRoom): that one may be another  *)
(* after each step.                                                        *)
(***************************************************************************)
EXTENDS IdempotentReport, FiniteSetTheorems, WellFoundedInduction, TLAPS

\* The report has an id and has not committed.
Working == {"insert", "lock", "recount", "claim"}

\* The key of the report is claimed for its id and its body.
Owns(t) == /\ t.key \in Keys
           /\ idempotency[t.key].id = t.id
           /\ idempotency[t.key].body = t.body

\* No key is claimed for the id of the report, and nothing was stored under it.
Fresh(t) == /\ \A k \in Keys : idempotency[k].id # t.id
            /\ text[t.id] = NoId

ReportHasBody == \A s \in Servers : task[s].pc # "idle" => task[s].body \in Bodies

WorkingHasId == \A s \in Servers : task[s].pc \in Working =>
                   task[s].id \in born /\ (Fresh(task[s]) \/ Owns(task[s]))

FreshApart == \A s, x \in Servers :
                 /\ s # x
                 /\ task[s].pc \in Working /\ task[x].pc \in Working
                 /\ task[s].id = task[x].id
                 => Owns(task[s])

AnswerIsClaim == \A s \in Servers :
                    task[s].pc = "answer" /\ task[s].key \in Keys => Owns(task[s])

ClaimIsWhole == \A k \in Keys : \/ idempotency[k] = NoClaim
                                \/ /\ idempotency[k].id \in born
                                   /\ idempotency[k].body \in Bodies
                                   /\ text[idempotency[k].id] = idempotency[k].body

ClaimsApart == \A k, j \in Keys :
                  idempotency[k].id = idempotency[j].id /\ idempotency[k].id # NoId => k = j

RecordIsClaimed == \A r \in Ids : Exists(r) /\ records[r].key \in Keys
                                  => idempotency[records[r].key].id = r

UnbornHasNoText == \A r \in Ids \ born : text[r] = NoId

AnsweredIsClaim == \A k \in Keys : \A a \in answered[k] :
                      a = <<idempotency[k].id, idempotency[k].body>>

AnsweredIsClaimed == \A k \in Keys : answered[k] # {} => idempotency[k] # NoClaim

ReportInv ==
    /\ TypeOK
    /\ ReportHasBody
    /\ WorkingHasId
    /\ FreshApart
    /\ AnswerIsClaim
    /\ ClaimIsWhole
    /\ ClaimsApart
    /\ RecordIsClaimed
    /\ UnbornHasNoText
    /\ IdNamesOneText
    /\ AnsweredIsClaim
    /\ AnsweredIsClaimed

-----------------------------------------------------------------------------
(* Steps that only move one report forward.                                *)

\* What the invariant says of one report.
Sound(t) == /\ t.pc # "idle" => t.body \in Bodies
            /\ t.pc \in Working => t.id \in born /\ (Fresh(t) \/ Owns(t))
            /\ t.pc = "answer" /\ t.key \in Keys => Owns(t)

LEMMA ReportsSound ==
    ASSUME ReportInv, NEW s \in Servers
    PROVE  Sound(task[s])
BY DEF ReportInv, ReportHasBody, WorkingHasId, AnswerIsClaim, Sound

\* A step that leaves the tables alone and gives no report an id it had not.
LEMMA MoveKeeps ==
    ASSUME ReportInv, TypeOK', NEW s \in Servers, NEW t \in Task,
           task' = [task EXCEPT ![s] = t],
           Sound(t),
           t.pc \in Working => /\ task[s].pc \in Working
                               /\ t.id = task[s].id /\ t.key = task[s].key
                               /\ t.body = task[s].body,
           UNCHANGED <<records, idempotency, text, answered, born>>
    PROVE  ReportInv'
<1>1. \A x \in Servers : task'[x] = IF x = s THEN t ELSE task[x]
    BY DEF ReportInv, TypeOK
<1>2. \A x \in Servers : Sound(task'[x])
    BY <1>1, ReportsSound
<1>3. ReportHasBody' /\ WorkingHasId' /\ AnswerIsClaim'
    BY <1>2 DEF ReportHasBody, WorkingHasId, AnswerIsClaim, Sound, Fresh, Owns
<1>4. FreshApart'
    BY <1>1 DEF ReportInv, FreshApart, Owns
<1> QED
    BY <1>3, <1>4 DEF ReportInv, ClaimIsWhole, ClaimsApart, RecordIsClaimed, Exists,
       UnbornHasNoText, IdNamesOneText, AnsweredIsClaim, AnsweredIsClaimed

-----------------------------------------------------------------------------
(* Type correctness.                                                       *)

LEMMA CountIsNatural ==
    ASSUME NEW l
    PROVE  Cardinality(RowsOf(l)) \in Nat
<1>1. IsFiniteSet(RowsOf(l))
    BY ReportAssumption, FS_Subset DEF RowsOf
<1> QED
    BY <1>1, FS_CardinalityType

LEMMA LibraryIsKnown ==
    ASSUME ReportInv, NEW s \in Servers, task[s].pc # "idle"
    PROVE  Library(s) \in Libraries
BY ReportAssumption DEF ReportInv, ReportHasBody, Library

LEMMA IdleIsTask == Idle \in Task
BY ReportAssumption DEF Idle, Task, Labels

LEMMA GiveUpTyped ==
    ASSUME ReportInv, NEW s \in Servers, task[s].pc # "idle", GiveUp(s)
    PROVE  TypeOK'
BY LibraryIsKnown, IdleIsTask DEF ReportInv, TypeOK, GiveUp

LEMMA CommitTyped ==
    ASSUME ReportInv, NEW s \in Servers, task[s].pc = "claim",
           NEW stored \in BOOLEAN, NEW id \in Ids,
           Commit(s, stored, id), idempotency' \in [Keys -> Claimed]
    PROVE  TypeOK'
<1>1. task[s] \in Task /\ task[s].body \in Bodies /\ Library(s) \in Libraries
    BY LibraryIsKnown DEF ReportInv, TypeOK, ReportHasBody
<1>2. [key |-> task[s].key, body |-> task[s].body] \in Row
    BY <1>1 DEF Row, Task
<1>3. records' \in [Ids -> Row \cup {NoRow}]
    BY <1>2 DEF Commit, ReportInv, TypeOK
<1>4. task' \in [Servers -> Task]
    <2>1. [task[s] EXCEPT !.pc = "answer", !.id = id, !.stale = FALSE] \in Task
        BY <1>1 DEF Task, Labels
    <2> QED
        BY <2>1 DEF Commit, ReportInv, TypeOK
<1>5. counter' \in [Libraries -> Nat]
    BY <1>1 DEF Commit, ReportInv, TypeOK, Task
<1>6. text' \in [Ids -> Bodies \cup {NoId}]
    BY <1>1 DEF Commit, ReportInv, TypeOK
<1>7. lock' \in [Libraries -> Servers \cup {Nobody}] /\ drifted' \subseteq Libraries
    BY <1>1 DEF Commit, ReportInv, TypeOK
<1>8. UNCHANGED <<cases, reports, born, answered, boot>>
    BY DEF Commit
<1> QED
    BY <1>3, <1>4, <1>5, <1>6, <1>7, <1>8 DEF ReportInv, TypeOK

-----------------------------------------------------------------------------
(* One lemma for each kind of step.                                        *)

\* The steps that read, lock and count change nothing the invariant is about.
LEMMA ReportKeeps ==
    ASSUME ReportInv, NEW s \in Servers, NEW k \in Keys \cup {NoKey}, NEW b \in Bodies,
           Report(s, k, b)
    PROVE  ReportInv'
<1> DEFINE t == [Idle EXCEPT !.pc = "quota", !.key = k, !.body = b]
<1>1. t \in Task /\ t.pc = "quota" /\ t.body = b
    BY IdleIsTask DEF Task, Labels, Idle
<1>2. TypeOK'
    BY <1>1, ReportAssumption DEF Report, ReportInv, TypeOK, history
<1>3. Sound(t)
    BY <1>1 DEF Sound, Working
<1>4. t.pc \notin Working
    BY <1>1 DEF Working
<1> QED
    BY <1>1, <1>2, <1>3, <1>4, MoveKeeps DEF Report, history

LEMMA GiveUpKeeps ==
    ASSUME ReportInv, NEW s \in Servers, task[s].pc # "idle", GiveUp(s)
    PROVE  ReportInv'
<1>1. Idle.pc = "idle" /\ Idle.pc \notin Working
    BY DEF Idle, Working
<1>2. Sound(Idle)
    BY <1>1 DEF Sound
<1> QED
    BY <1>1, <1>2, IdleIsTask, GiveUpTyped, MoveKeeps DEF GiveUp

LEMMA CheckQuotaKeeps ==
    ASSUME ReportInv, NEW s \in Servers, CheckQuota(s)
    PROVE  ReportInv'
<1>1. task[s] \in Task /\ task[s].pc = "quota"
    BY DEF CheckQuota, ReportInv, TypeOK
<1>2. PICK u \in {[task[s] EXCEPT !.pc = "case"], Idle} : task' = [task EXCEPT ![s] = u]
    BY DEF CheckQuota
<1>3. u \in Task /\ u.pc \notin Working /\ u.pc # "answer"
    BY <1>1, <1>2, IdleIsTask DEF Task, Labels, Working, Idle
<1>4. u.pc # "idle" => u.body \in Bodies
    BY <1>1, <1>2 DEF ReportInv, ReportHasBody, Idle, Task
<1>5. Sound(u)
    BY <1>3, <1>4 DEF Sound
<1>6. TypeOK'
    BY <1>2, <1>3 DEF CheckQuota, rest, history, ReportInv, TypeOK
<1> QED
    BY <1>2, <1>3, <1>5, <1>6, MoveKeeps DEF CheckQuota, rest, history

LEMMA FindCaseKeeps ==
    ASSUME ReportInv, NEW s \in Servers, FindCase(s)
    PROVE  ReportInv'
<1>1. task[s] \in Task /\ task[s].body \in Bodies
    BY DEF FindCase, ReportInv, TypeOK, ReportHasBody
<1>2. PICK label \in {"key", "new_case"} : Goto(s, label)
    BY DEF FindCase
<1> DEFINE u == [task[s] EXCEPT !.pc = label]
<1>3. u \in Task /\ u.pc = label /\ u.body \in Bodies
    BY <1>1 DEF Task, Labels
<1>4. Sound(u) /\ u.pc \notin Working
    BY <1>3 DEF Sound, Working
<1>5. task' = [task EXCEPT ![s] = u]
    BY <1>2 DEF Goto
<1> HIDE DEF u
<1>6. TypeOK'
    BY <1>3, <1>5 DEF FindCase, rest, history, ReportInv, TypeOK
<1> QED
    BY <1>3, <1>4, <1>5, <1>6, MoveKeeps DEF FindCase, rest, history

LEMMA NewCaseKeeps ==
    ASSUME ReportInv, NEW s \in Servers, NewCase(s)
    PROVE  ReportInv'
<1>1. task[s] \in Task /\ task[s].body \in Bodies
    BY DEF NewCase, ReportInv, TypeOK, ReportHasBody
<1> DEFINE u == [task[s] EXCEPT !.pc = "key"]
<1>2. u \in Task /\ u.pc = "key" /\ u.body \in Bodies
    BY <1>1 DEF Task, Labels
<1>3. Sound(u) /\ u.pc \notin Working
    BY <1>2 DEF Sound, Working
<1>4. task' = [task EXCEPT ![s] = u]
    BY DEF NewCase, Goto
<1> HIDE DEF u
<1>5. TypeOK'
    BY <1>2, <1>4 DEF NewCase, history, ReportInv, TypeOK
<1> QED
    BY <1>2, <1>3, <1>4, <1>5, MoveKeeps DEF NewCase, history

\* A report answered by the first look-up is told what its key is claimed for.
LEMMA ReadKeyKeeps ==
    ASSUME ReportInv, NEW s \in Servers, ReadKey(s)
    PROVE  ReportInv'
<1> DEFINE known == IF task[s].key = NoKey THEN NoClaim ELSE idempotency[task[s].key]
           onwards == [task[s] EXCEPT !.pc = "lookup"]
           told    == [task[s] EXCEPT !.pc = "answer", !.id = known.id]
<1>1. task[s] \in Task /\ task[s].body \in Bodies
    BY DEF ReadKey, ReportInv, TypeOK, ReportHasBody
<1>2. \/ task' = [task EXCEPT ![s] = onwards]
      \/ task' = [task EXCEPT ![s] = Idle]
      \/ /\ task' = [task EXCEPT ![s] = told]
         /\ known # NoClaim /\ known.body = task[s].body
    BY DEF ReadKey
<1>3. UNCHANGED rest
    BY DEF ReadKey
<1>4. CASE task' = [task EXCEPT ![s] = onwards]
    <2>1. onwards \in Task /\ onwards.pc = "lookup" /\ onwards.body \in Bodies
        BY <1>1 DEF Task, Labels
    <2>2. Sound(onwards) /\ onwards.pc \notin Working
        BY <2>1 DEF Sound, Working
    <2> HIDE DEF onwards
    <2>3. TypeOK'
        BY <1>3, <1>4, <2>1 DEF rest, history, ReportInv, TypeOK
    <2> QED
        BY <1>3, <1>4, <2>1, <2>2, <2>3, MoveKeeps DEF rest, history
<1>5. CASE task' = [task EXCEPT ![s] = Idle]
    <2>1. Sound(Idle) /\ Idle.pc \notin Working
        BY DEF Sound, Working, Idle
    <2>2. TypeOK'
        BY <1>3, <1>5, IdleIsTask DEF rest, history, ReportInv, TypeOK
    <2> QED
        BY <1>3, <1>5, <2>1, <2>2, IdleIsTask, MoveKeeps DEF rest, history
<1>6. CASE /\ task' = [task EXCEPT ![s] = told]
           /\ known # NoClaim /\ known.body = task[s].body
    <2>1. task[s].key \in Keys /\ known = idempotency[task[s].key]
        BY <1>1, <1>6 DEF Task
    <2>2. known.id \in Ids
        BY <1>6, <2>1 DEF ReportInv, ClaimIsWhole, TypeOK
    <2>3. /\ told \in Task /\ told.pc = "answer" /\ told.body = task[s].body
          /\ told.id = known.id /\ told.key = task[s].key
        BY <1>1, <2>2 DEF Task, Labels
    <2>4. Owns(told)
        BY <1>6, <2>1, <2>3 DEF Owns
    <2>5. Sound(told) /\ told.pc \notin Working
        BY <1>1, <2>3, <2>4 DEF Sound, Working
    <2> HIDE DEF told, known
    <2>6. TypeOK'
        BY <1>3, <1>6, <2>3 DEF rest, history, ReportInv, TypeOK
    <2> QED
        BY <1>3, <1>6, <2>3, <2>5, <2>6, MoveKeeps DEF rest, history
<1> QED
    BY <1>2, <1>4, <1>5, <1>6

\* INSERT, the lock and the count: the report keeps its id.
LEMMA InsertKeeps ==
    ASSUME ReportInv, NEW s \in Servers, Insert(s)
    PROVE  ReportInv'
<1>1. task[s] \in Task /\ task[s].body \in Bodies /\ task[s].pc = "insert"
    BY DEF Insert, ReportInv, TypeOK, ReportHasBody
<1>2. CASE GiveUp(s)
    BY <1>1, <1>2, GiveUpKeeps
<1>3. CASE Goto(s, "lock") /\ UNCHANGED rest
    <2> DEFINE u == [task[s] EXCEPT !.pc = "lock"]
    <2>1. /\ u \in Task /\ u.pc = "lock" /\ u.body = task[s].body
          /\ u.id = task[s].id /\ u.key = task[s].key
        BY <1>1 DEF Task, Labels
    <2>2. Sound(u)
        BY <1>1, <2>1, ReportsSound DEF Sound, Working, Fresh, Owns
    <2>3. task' = [task EXCEPT ![s] = u]
        BY <1>3 DEF Goto
    <2> HIDE DEF u
    <2>4. TypeOK'
        BY <1>3, <2>1, <2>3 DEF rest, history, ReportInv, TypeOK
    <2>5. task[s].pc \in Working
        BY <1>1 DEF Working
    <2> QED
        BY <1>3, <2>1, <2>2, <2>3, <2>4, <2>5, MoveKeeps DEF rest, history
<1> QED
    BY <1>2, <1>3 DEF Insert

LEMMA LockKeeps ==
    ASSUME ReportInv, NEW s \in Servers, Lock(s)
    PROVE  ReportInv'
<1>1. task[s] \in Task /\ task[s].body \in Bodies /\ task[s].pc = "lock"
    BY DEF Lock, ReportInv, TypeOK, ReportHasBody
<1> DEFINE u == [task[s] EXCEPT !.pc = "recount"]
<1>2. /\ u \in Task /\ u.pc = "recount" /\ u.body = task[s].body
      /\ u.id = task[s].id /\ u.key = task[s].key
    BY <1>1 DEF Task, Labels
<1>3. Sound(u)
    BY <1>1, <1>2, ReportsSound DEF Sound, Working, Fresh, Owns
<1>4. task' = [task EXCEPT ![s] = u]
    BY DEF Lock, Goto
<1> HIDE DEF u
<1>5. TypeOK'
    BY <1>2, <1>4 DEF Lock, history, ReportInv, TypeOK
<1>6. task[s].pc \in Working
    BY <1>1 DEF Working
<1> QED
    BY <1>2, <1>3, <1>4, <1>5, <1>6, MoveKeeps DEF Lock, history

LEMMA RecountKeeps ==
    ASSUME ReportInv, NEW s \in Servers, Recount(s)
    PROVE  ReportInv'
<1>1. task[s] \in Task /\ task[s].body \in Bodies /\ task[s].pc = "recount"
    BY DEF Recount, ReportInv, TypeOK, ReportHasBody
<1> DEFINE n == Cardinality(RowsOf(Library(s))) + 1
           b == Library(s) \in drifted
           u == [task[s] EXCEPT !.pc = "claim", !.count = n, !.stale = b]
<1>2. n \in Nat /\ b \in BOOLEAN
    BY CountIsNatural
<1> HIDE DEF n, b
<1>3. /\ u \in Task /\ u.pc = "claim" /\ u.body = task[s].body
      /\ u.id = task[s].id /\ u.key = task[s].key
    BY <1>1, <1>2 DEF Task, Labels
<1>4. Sound(u)
    BY <1>1, <1>3, ReportsSound DEF Sound, Working, Fresh, Owns
<1>5. task' = [task EXCEPT ![s] = u]
    BY DEF Recount, n, b
<1> HIDE DEF u
<1>6. TypeOK'
    BY <1>3, <1>5 DEF Recount, ReportInv, TypeOK
<1>7. task[s].pc \in Working
    BY <1>1 DEF Working
<1> QED
    BY <1>3, <1>4, <1>5, <1>6, <1>7, MoveKeeps DEF Recount

\* The look-up in the transaction: a new id is nobody else's, a claimed one
\* belongs to the key.
LEMMA LookupKeeps ==
    ASSUME ReportInv, NEW s \in Servers, Lookup(s)
    PROVE  ReportInv'
<1> DEFINE known == IF task[s].key = NoKey THEN NoClaim ELSE idempotency[task[s].key]
<1>1. task[s] \in Task /\ task[s].body \in Bodies
    BY DEF Lookup, ReportInv, TypeOK, ReportHasBody
<1>2. PICK r \in Ids \ born :
        /\ task' = [task EXCEPT ![s] =
                     IF known = NoClaim THEN [@ EXCEPT !.pc = "insert", !.id = r]
                     ELSE IF known.body # task[s].body THEN Idle
                     ELSE IF Exists(known.id) THEN [@ EXCEPT !.pc = "answer", !.id = known.id]
                     ELSE [@ EXCEPT !.pc = "insert", !.id = known.id]]
        /\ born' = born \cup {r}
    BY DEF Lookup
<1> DEFINE fresh  == [task[s] EXCEPT !.pc = "insert", !.id = r]
           told   == [task[s] EXCEPT !.pc = "answer", !.id = known.id]
           again  == [task[s] EXCEPT !.pc = "insert", !.id = known.id]
<1>3. PICK t : /\ task' = [task EXCEPT ![s] = t]
               /\ \/ t = Idle
                  \/ t = fresh
                  \/ t \in {told, again} /\ known # NoClaim /\ known.body = task[s].body
    BY <1>2
<1>4. UNCHANGED <<records, idempotency, counter, cases, lock, reports, text, answered,
                  drifted, boot>>
    BY DEF Lookup
<1>5. \A k \in Keys : idempotency[k].id # NoId => idempotency[k].id \in born
    BY DEF ReportInv, ClaimIsWhole, NoClaim
<1>6. \A k \in Keys : idempotency[k].id # r
    BY <1>5, ReportAssumption
<1>7. /\ t \in Task
      /\ t.pc # "idle" => t.body \in Bodies
      /\ \/ t.pc = "idle"
         \/ t.pc = "insert" /\ t.id = r
         \/ t.pc \in {"insert", "answer"} /\ t.id \in born /\ Owns(t)
    <2>1. CASE t = Idle
        BY <2>1, IdleIsTask DEF Idle
    <2>2. CASE t = fresh
        BY <1>1, <2>2 DEF Task, Labels
    <2>3. CASE t \in {told, again} /\ known # NoClaim /\ known.body = task[s].body
        <3>1. task[s].key \in Keys /\ known = idempotency[task[s].key]
            BY <1>1, <2>3 DEF Task
        <3>2. known.id \in born /\ known.id \in Ids
            BY <2>3, <3>1 DEF ReportInv, ClaimIsWhole, TypeOK
        <3>3. /\ t \in Task /\ t.pc \in {"insert", "answer"} /\ t.body = task[s].body
              /\ t.id = known.id /\ t.key = task[s].key
            BY <1>1, <2>3, <3>2 DEF Task, Labels
        <3> QED
            BY <1>1, <2>3, <3>1, <3>2, <3>3 DEF Owns
    <2> QED
        BY <1>3, <2>1, <2>2, <2>3
<1> HIDE DEF known, fresh, told, again
<1>8. \A x \in Servers : task'[x] = IF x = s THEN t ELSE task[x]
    BY <1>3 DEF ReportInv, TypeOK
<1>9. TypeOK'
    BY <1>2, <1>3, <1>4, <1>7 DEF ReportInv, TypeOK
<1>10. ReportHasBody' /\ AnswerIsClaim'
    BY <1>4, <1>7, <1>8 DEF ReportInv, ReportHasBody, AnswerIsClaim, Owns
<1>11. text[r] = NoId
    BY DEF ReportInv, UnbornHasNoText
<1>12. WorkingHasId'
    <2> SUFFICES ASSUME NEW x \in Servers, task'[x].pc \in Working
                 PROVE  task'[x].id \in born' /\ (Fresh(task[x])' \/ Owns(task[x])')
        BY DEF WorkingHasId
    <2>1. CASE x # s
        BY <1>2, <1>4, <1>8, <2>1 DEF ReportInv, WorkingHasId, Fresh, Owns
    <2>2. CASE x = s
        <3>1. task'[x] = t /\ idempotency' = idempotency /\ text' = text /\ r \in born'
              /\ born \subseteq born'
            BY <1>2, <1>4, <1>8, <2>2
        <3>2. CASE t.id = r
            BY <1>6, <1>11, <3>1, <3>2 DEF Fresh
        <3>3. CASE t.id # r
            BY <1>7, <3>1, <3>3 DEF Working, Owns
        <3> QED
            BY <3>2, <3>3
    <2> QED
        BY <2>1, <2>2
<1>13. FreshApart'
    <2> SUFFICES ASSUME NEW x \in Servers, NEW y \in Servers, x # y,
                        task'[x].pc \in Working, task'[y].pc \in Working,
                        task'[x].id = task'[y].id
                 PROVE  Owns(task[x])'
        BY DEF FreshApart
    <2>1. CASE x # s /\ y # s
        BY <1>4, <1>8, <2>1 DEF ReportInv, FreshApart, Owns
    <2>2. CASE x = s
        BY <1>4, <1>7, <1>8, <2>2 DEF ReportInv, WorkingHasId, Working, Owns
    <2>3. CASE y = s
        <3>1. t.id # r
            BY <1>8, <2>3 DEF ReportInv, WorkingHasId
        <3>2. Owns(t)
            BY <1>7, <1>8, <2>3, <3>1 DEF Working
        <3> QED
            BY <1>4, <1>8, <2>3, <3>2 DEF ReportInv, WorkingHasId, Fresh, Owns
    <2> QED
        BY <2>1, <2>2, <2>3
<1> QED
    BY <1>2, <1>4, <1>9, <1>10, <1>12, <1>13
    DEF ReportInv, ClaimIsWhole, ClaimsApart, RecordIsClaimed, Exists,
        UnbornHasNoText, IdNamesOneText, AnsweredIsClaim, AnsweredIsClaimed

\* The report is stored: its key is claimed for it, now or before, or it has none.
LEMMA StoreKeeps ==
    ASSUME ReportInv, NEW s \in Servers, task[s].pc = "claim",
           Commit(s, TRUE, task[s].id),
           idempotency' \in [Keys -> Claimed],
           \A k \in Keys :
               \/ idempotency'[k] = idempotency[k]
               \/ /\ k = task[s].key /\ idempotency[k] = NoClaim
                  /\ idempotency'[k] = [id |-> task[s].id, body |-> task[s].body],
           task[s].key \in Keys => /\ idempotency'[task[s].key].id = task[s].id
                                   /\ idempotency'[task[s].key].body = task[s].body
    PROVE  ReportInv'
<1> DEFINE i == task[s].id
           b == task[s].body
<1>1. /\ task[s] \in Task /\ b \in Bodies /\ i \in born /\ i \in Ids
      /\ Fresh(task[s]) \/ Owns(task[s])
    BY DEF ReportInv, TypeOK, ReportHasBody, WorkingHasId, Working
<1>2. TypeOK'
    BY <1>1, CommitTyped
<1>3. \A r \in Ids : /\ r # i => records'[r] = records[r] /\ text'[r] = text[r]
                     /\ r = i => records'[r] = [key |-> task[s].key, body |-> b]
    BY <1>1 DEF Commit, ReportInv, TypeOK
<1>4. text'[i] = b
    <2>1. text'[i] = IF text[i] = NoId THEN b ELSE text[i]
        BY <1>1 DEF Commit, ReportInv, TypeOK
    <2>2. CASE Fresh(task[s])
        BY <2>1, <2>2 DEF Fresh
    <2>3. CASE Owns(task[s])
        <3>1. idempotency[task[s].key] # NoClaim
            BY <1>1, <2>3, ReportAssumption DEF Owns, NoClaim
        <3> QED
            BY <2>1, <2>3, <3>1 DEF Owns, ReportInv, ClaimIsWhole
    <2> QED
        BY <1>1, <2>2, <2>3
<1>5. /\ born' = born /\ answered' = answered
      /\ \A x \in Servers : x # s => task'[x] = task[x]
      /\ task'[s].pc = "answer" /\ task'[s].key = task[s].key
      /\ task'[s].id = i /\ task'[s].body = b
    BY <1>1 DEF Commit, ReportInv, TypeOK, Task
\* A claim stands; a new one is for an id no other key has.
<1>6. \A k \in Keys : idempotency[k] # NoClaim => idempotency'[k] = idempotency[k]
    OBVIOUS
<1>7. \A k \in Keys : idempotency'[k] # idempotency[k] =>
          /\ k = task[s].key /\ idempotency[k] = NoClaim
          /\ idempotency'[k].id = i /\ idempotency'[k].body = b
          /\ Fresh(task[s])
    BY <1>1, ReportAssumption DEF Owns, NoClaim
<1>8. \A k \in Keys : idempotency'[k].id = i => k = task[s].key \/ idempotency[k].id = i
    BY <1>7
<1> HIDE DEF i, b
<1>9. ReportHasBody' /\ AnswerIsClaim'
    <2> SUFFICES ASSUME NEW x \in Servers
                 PROVE  /\ task'[x].pc # "idle" => task'[x].body \in Bodies
                        /\ task'[x].pc = "answer" /\ task'[x].key \in Keys => Owns(task[x])'
        BY DEF ReportHasBody, AnswerIsClaim
    <2>1. CASE x = s
        BY <1>1, <1>5, <2>1 DEF Owns, i, b
    <2>2. CASE x # s
        <3>1. task[x].pc = "answer" /\ task[x].key \in Keys => idempotency[task[x].key] # NoClaim
            BY <1>5, <2>2, ReportAssumption DEF ReportInv, TypeOK, AnswerIsClaim, ReportHasBody,
               Owns, NoClaim, ClaimIsWhole
        <3> QED
            BY <1>5, <1>6, <2>2, <3>1 DEF ReportInv, ReportHasBody, AnswerIsClaim, Owns
    <2> QED
        BY <2>1, <2>2
<1>10. WorkingHasId'
    <2> SUFFICES ASSUME NEW x \in Servers, task'[x].pc \in Working
                 PROVE  task'[x].id \in born' /\ (Fresh(task[x])' \/ Owns(task[x])')
        BY DEF WorkingHasId
    <2>1. x # s /\ task'[x] = task[x] /\ task[x].pc \in Working
        BY <1>5 DEF Working
    <2>2. task[x].id \in born /\ task[x].id \in Ids /\ (Fresh(task[x]) \/ Owns(task[x]))
        BY <2>1 DEF ReportInv, WorkingHasId, TypeOK
    <2>3. CASE Owns(task[x])
        <3>1. idempotency[task[x].key] # NoClaim
            BY <2>2, <2>3, ReportAssumption DEF Owns, NoClaim
        <3> QED
            BY <1>5, <1>6, <2>1, <2>2, <2>3, <3>1 DEF Owns
    <2>4. CASE Fresh(task[x]) /\ ~Owns(task[x])
        <3>1. task[x].id # i
            BY <2>1, <2>4 DEF ReportInv, FreshApart, Working, i
        <3>2. text'[task[x].id] = NoId
            BY <1>3, <2>2, <2>4, <3>1 DEF Fresh
        <3>3. \A k \in Keys : idempotency'[k].id # task[x].id
            BY <1>7, <2>4, <3>1 DEF Fresh
        <3> QED
            BY <1>5, <2>1, <2>2, <3>2, <3>3 DEF Fresh
    <2> QED
        BY <2>2, <2>3, <2>4
<1>11. FreshApart'
    <2> SUFFICES ASSUME NEW x \in Servers, NEW y \in Servers, x # y,
                        task'[x].pc \in Working, task'[y].pc \in Working,
                        task'[x].id = task'[y].id
                 PROVE  Owns(task[x])'
        BY DEF FreshApart
    <2>1. x # s /\ y # s /\ task'[x] = task[x] /\ task'[y] = task[y]
        BY <1>5 DEF Working
    <2>2. Owns(task[x]) /\ task[x].id \in Ids
        BY <2>1 DEF ReportInv, FreshApart, WorkingHasId, TypeOK
    <2>3. idempotency[task[x].key] # NoClaim
        BY <2>2, ReportAssumption DEF Owns, NoClaim
    <2> QED
        BY <1>6, <2>1, <2>2, <2>3 DEF Owns
<1>12. ClaimIsWhole'
    <2> SUFFICES ASSUME NEW k \in Keys, idempotency'[k] # NoClaim
                 PROVE  /\ idempotency'[k].id \in born'
                        /\ idempotency'[k].body \in Bodies
                        /\ text'[idempotency'[k].id] = idempotency'[k].body
        BY DEF ClaimIsWhole, NoClaim
    <2>1. CASE idempotency'[k] # idempotency[k]
        BY <1>1, <1>4, <1>5, <1>7, <2>1 DEF i, b
    <2>2. CASE idempotency'[k] = idempotency[k] /\ idempotency[k].id # i
        BY <1>3, <1>5, <2>2 DEF ReportInv, ClaimIsWhole, TypeOK
    <2>3. CASE idempotency'[k] = idempotency[k] /\ idempotency[k].id = i
        <3>1. Owns(task[s])
            BY <1>1, <2>3 DEF Fresh, i
        <3>2. k = task[s].key
            BY <1>1, <2>3, <3>1, ReportAssumption DEF ReportInv, ClaimsApart, Owns, i
        <3> QED
            BY <1>1, <1>4, <1>5, <2>3, <3>1, <3>2 DEF Owns, i, b
    <2> QED
        BY <2>1, <2>2, <2>3
<1>13. ClaimsApart'
    <2> SUFFICES ASSUME NEW k \in Keys, NEW j \in Keys,
                        idempotency'[k].id = idempotency'[j].id, idempotency'[k].id # NoId
                 PROVE  k = j
        BY DEF ClaimsApart
    <2>1. CASE idempotency'[k] = idempotency[k] /\ idempotency'[j] = idempotency[j]
        BY <2>1 DEF ReportInv, ClaimsApart
    <2>2. CASE idempotency'[k] # idempotency[k]
        BY <1>7, <2>2 DEF Fresh, i
    <2>3. CASE idempotency'[j] # idempotency[j]
        BY <1>7, <2>3 DEF Fresh, i
    <2> QED
        BY <2>1, <2>2, <2>3
<1>14. RecordIsClaimed'
    <2> SUFFICES ASSUME NEW r \in Ids, records'[r] # NoRow, records'[r].key \in Keys
                 PROVE  idempotency'[records'[r].key].id = r
        BY DEF RecordIsClaimed, Exists
    <2>1. CASE r = i
        BY <1>3, <2>1 DEF i
    <2>2. CASE r # i
        <3>1. idempotency[records[r].key].id = r /\ records'[r] = records[r]
            BY <1>3, <2>2 DEF ReportInv, RecordIsClaimed, Exists
        <3>2. idempotency[records[r].key] # NoClaim
            BY <3>1, ReportAssumption DEF NoClaim
        <3> QED
            BY <1>6, <3>1, <3>2
    <2> QED
        BY <2>1, <2>2
<1>15. UnbornHasNoText' /\ IdNamesOneText'
    BY <1>1, <1>3, <1>4, <1>5 DEF ReportInv, UnbornHasNoText, IdNamesOneText, Exists, i
<1>16. AnsweredIsClaim' /\ AnsweredIsClaimed'
    <2> SUFFICES ASSUME NEW k \in Keys
                 PROVE  /\ \A a \in answered[k] : a = <<idempotency'[k].id, idempotency'[k].body>>
                        /\ answered[k] # {} => idempotency'[k] # NoClaim
        BY <1>5 DEF AnsweredIsClaim, AnsweredIsClaimed
    <2>1. CASE idempotency[k] = NoClaim
        BY <2>1 DEF ReportInv, AnsweredIsClaimed
    <2>2. CASE idempotency[k] # NoClaim
        BY <1>6, <2>2 DEF ReportInv, AnsweredIsClaim
    <2> QED
        BY <2>1, <2>2
<1> QED
    BY <1>2, <1>9, <1>10, <1>11, <1>12, <1>13, <1>14, <1>15, <1>16 DEF ReportInv

\* The report lost its key to one with the same body: it is told the winner's id.
LEMMA LostKeeps ==
    ASSUME ReportInv, NEW s \in Servers, task[s].pc = "claim", task[s].key \in Keys,
           idempotency[task[s].key] # NoClaim,
           idempotency[task[s].key].body = task[s].body,
           Commit(s, FALSE, idempotency[task[s].key].id),
           UNCHANGED idempotency
    PROVE  ReportInv'
<1> DEFINE i == idempotency[task[s].key].id
           u == [task[s] EXCEPT !.pc = "answer", !.id = i, !.stale = FALSE]
<1>1. task[s] \in Task /\ task[s].body \in Bodies /\ i \in Ids
    BY DEF ReportInv, TypeOK, ReportHasBody, ClaimIsWhole
<1>2. /\ u \in Task /\ u.pc = "answer" /\ u.id = i
      /\ u.key = task[s].key /\ u.body = task[s].body
    BY <1>1 DEF Task, Labels
<1>3. Sound(u) /\ u.pc \notin Working
    BY <1>1, <1>2 DEF Sound, Working, Owns
<1>4. TypeOK'
    BY <1>1, CommitTyped DEF ReportInv, TypeOK
<1>5. task' = [task EXCEPT ![s] = u]
    BY DEF Commit
<1> HIDE DEF u, i
<1>6. UNCHANGED <<records, idempotency, text, answered, born>>
    BY DEF Commit
<1> QED
    BY <1>2, <1>3, <1>4, <1>5, <1>6, MoveKeeps

LEMMA ClaimKeeps ==
    ASSUME ReportInv, NEW s \in Servers, Claim(s)
    PROVE  ReportInv'
<1> DEFINE k == task[s].key
           winner == idempotency[k]
<1>1. /\ task[s].pc = "claim" /\ task[s] \in Task /\ task[s].body \in Bodies
      /\ task[s].id \in born /\ task[s].id \in Ids
    BY DEF Claim, ReportInv, TypeOK, ReportHasBody, WorkingHasId, Working
<1>2. idempotency \in [Keys -> Claimed]
    BY DEF ReportInv, TypeOK
<1>3. CASE k = NoKey /\ Commit(s, TRUE, task[s].id) /\ UNCHANGED idempotency
    BY <1>1, <1>2, <1>3, ReportAssumption, StoreKeeps
<1>4. CASE /\ k # NoKey /\ winner = NoClaim /\ Commit(s, TRUE, task[s].id)
           /\ idempotency' = [idempotency EXCEPT ![k] =
                                 [id |-> task[s].id, body |-> task[s].body]]
    <2>1. k \in Keys
        BY <1>1, <1>4 DEF Task
    <2>2. [id |-> task[s].id, body |-> task[s].body] \in Claimed
        BY <1>1 DEF Claimed
    <2>3. idempotency' \in [Keys -> Claimed]
        BY <1>2, <1>4, <2>2
    <2>4. \A j \in Keys :
              \/ idempotency'[j] = idempotency[j]
              \/ /\ j = task[s].key /\ idempotency[j] = NoClaim
                 /\ idempotency'[j] = [id |-> task[s].id, body |-> task[s].body]
        BY <1>2, <1>4
    <2>5. /\ idempotency'[task[s].key].id = task[s].id
          /\ idempotency'[task[s].key].body = task[s].body
        BY <1>2, <1>4, <2>1
    <2> QED
        BY <1>1, <1>4, <2>3, <2>4, <2>5, StoreKeeps
<1>5. CASE k # NoKey /\ GiveUp(s)
    BY <1>1, <1>5, GiveUpKeeps
<1>6. CASE /\ k # NoKey /\ winner # NoClaim
           /\ winner.id = task[s].id \/ winner.body = task[s].body
           /\ Commit(s, winner.id = task[s].id, winner.id)
           /\ UNCHANGED idempotency
    <2>1. k \in Keys
        BY <1>1, <1>6 DEF Task
    <2>2. CASE winner.id = task[s].id
        <3>1. Owns(task[s])
            BY <1>1, <2>1, <2>2 DEF ReportInv, WorkingHasId, Working, Fresh
        <3>2. Commit(s, TRUE, task[s].id)
            BY <1>6, <2>2 DEF Commit
        <3> QED
            BY <1>1, <1>2, <1>6, <2>1, <3>1, <3>2, StoreKeeps DEF Owns
    <2>3. CASE winner.id # task[s].id
        <3>1. Commit(s, FALSE, winner.id)
            BY <1>6, <2>3 DEF Commit
        <3> QED
            BY <1>1, <1>6, <2>1, <2>3, <3>1, LostKeeps
    <2> QED
        BY <2>2, <2>3
<1> QED
    BY <1>3, <1>4, <1>5, <1>6 DEF Claim

LEMMA AnswerKeeps ==
    ASSUME ReportInv, NEW s \in Servers, Answer(s)
    PROVE  ReportInv'
<1>1. /\ task[s].pc = "answer" /\ task[s] \in Task /\ task[s].body \in Bodies
      /\ task[s].key \in Keys => Owns(task[s])
    BY DEF Answer, ReportInv, TypeOK, ReportHasBody, AnswerIsClaim
<1>2. /\ \A x \in Servers : task'[x] = IF x = s THEN Idle ELSE task[x]
      /\ task' = [task EXCEPT ![s] = Idle]
    BY DEF Answer, ReportInv, TypeOK
<1>3. UNCHANGED <<records, idempotency, counter, cases, lock, reports, born, text, drifted, boot>>
    BY DEF Answer
<1>4. \A k \in Keys : answered'[k] = IF k = task[s].key
                                    THEN answered[k] \cup {<<task[s].id, task[s].body>>}
                                    ELSE answered[k]
    BY ReportAssumption DEF Answer, ReportInv, TypeOK
<1>5. answered' \in [Keys -> SUBSET ((Ids \cup {NoId}) \X (Bodies \cup {NoId}))]
    BY <1>1 DEF Answer, ReportInv, TypeOK, Task
<1>6. TypeOK'
    BY <1>2, <1>3, <1>5, IdleIsTask DEF ReportInv, TypeOK
<1>7. AnsweredIsClaim' /\ AnsweredIsClaimed'
    <2> SUFFICES ASSUME NEW k \in Keys
                 PROVE  /\ \A a \in answered'[k] : a = <<idempotency[k].id, idempotency[k].body>>
                        /\ answered'[k] # {} => idempotency[k] # NoClaim
        BY <1>3 DEF AnsweredIsClaim, AnsweredIsClaimed
    <2>1. CASE k = task[s].key
        <3>1. idempotency[k].id = task[s].id /\ idempotency[k].body = task[s].body
            BY <1>1, <2>1 DEF Owns
        <3>2. idempotency[k] # NoClaim
            BY <1>1, <3>1, ReportAssumption DEF NoClaim
        <3>3. answered'[k] = answered[k] \cup {<<idempotency[k].id, idempotency[k].body>>}
            BY <1>4, <2>1, <3>1
        <3>4. \A a \in answered[k] : a = <<idempotency[k].id, idempotency[k].body>>
            BY DEF ReportInv, AnsweredIsClaim
        <3> QED
            BY <3>2, <3>3, <3>4
    <2>2. CASE k # task[s].key
        BY <1>4, <2>2 DEF ReportInv, AnsweredIsClaim, AnsweredIsClaimed
    <2> QED
        BY <2>1, <2>2
<1>8. Idle.pc = "idle" /\ Idle.pc \notin Working
    BY DEF Idle, Working
<1>9. ReportHasBody' /\ WorkingHasId' /\ AnswerIsClaim'
    BY <1>2, <1>3, <1>8 DEF ReportInv, ReportHasBody, WorkingHasId, AnswerIsClaim, Fresh, Owns
<1>10. FreshApart'
    BY <1>2, <1>3, <1>8 DEF ReportInv, FreshApart, Owns
<1> QED
    BY <1>3, <1>6, <1>7, <1>9, <1>10 DEF ReportInv, ClaimIsWhole, ClaimsApart, RecordIsClaimed,
       Exists, UnbornHasNoText, IdNamesOneText

LEMMA RemoveKeeps ==
    ASSUME ReportInv, NEW r \in Ids, Remove(r)
    PROVE  ReportInv'
<1>1. UNCHANGED <<idempotency, counter, cases, lock, task, reports, born, text, answered, boot>>
    BY DEF Remove
<1>2. \A x \in Ids : records'[x] = IF x = r THEN NoRow ELSE records[x]
    BY DEF Remove, ReportInv, TypeOK
<1>3. records[r].body \in Bodies
    BY DEF Remove, Exists, ReportInv, TypeOK, Row
<1>4. TypeOK'
    BY <1>1, <1>3, ReportAssumption DEF Remove, ReportInv, TypeOK
<1>5. RecordIsClaimed' /\ IdNamesOneText'
    BY <1>1, <1>2 DEF ReportInv, RecordIsClaimed, IdNamesOneText, Exists
<1> QED
    BY <1>1, <1>4, <1>5 DEF ReportInv, ReportHasBody, WorkingHasId, FreshApart, AnswerIsClaim,
       Fresh, Owns, ClaimIsWhole, ClaimsApart, UnbornHasNoText, AnsweredIsClaim, AnsweredIsClaimed

\* What neither reads nor writes a table of a report.
LEMMA StartupKeeps ==
    ASSUME ReportInv, StartupCount \/ StartupWrite
    PROVE  ReportInv'
<1>1. \A l : Cardinality(RowsOf(l)) \in Nat
    BY CountIsNatural
<1>2. TypeOK'
    BY <1>1 DEF StartupCount, StartupWrite, history, ReportInv, TypeOK
<1>3. UNCHANGED <<records, idempotency, task, born, text, answered>>
    BY DEF StartupCount, StartupWrite, history
<1> QED
    BY <1>2, <1>3 DEF ReportInv, ReportHasBody, WorkingHasId, FreshApart, AnswerIsClaim, Fresh,
       Owns, ClaimIsWhole, ClaimsApart, RecordIsClaimed, Exists, UnbornHasNoText,
       IdNamesOneText, AnsweredIsClaim, AnsweredIsClaimed

LEMMA InitReports == Init => ReportInv
<1> SUFFICES ASSUME Init PROVE ReportInv
    OBVIOUS
<1>1. TypeOK
    BY IdleIsTask, ReportAssumption DEF Init, TypeOK, NoClaim, Claimed, NotBooting
<1>2. \A s \in Servers : task[s].pc = "idle"
    BY DEF Init, Idle
<1>3. ReportHasBody /\ WorkingHasId /\ FreshApart /\ AnswerIsClaim
    BY <1>2 DEF ReportHasBody, WorkingHasId, FreshApart, AnswerIsClaim, Working
<1>4. ClaimIsWhole /\ ClaimsApart /\ AnsweredIsClaim /\ AnsweredIsClaimed
    BY DEF Init, ClaimIsWhole, ClaimsApart, AnsweredIsClaim, AnsweredIsClaimed, NoClaim
<1>5. RecordIsClaimed /\ UnbornHasNoText /\ IdNamesOneText
    BY DEF Init, RecordIsClaimed, UnbornHasNoText, IdNamesOneText, Exists
<1> QED
    BY <1>1, <1>3, <1>4, <1>5 DEF ReportInv

LEMMA NextKeepsReports == ReportInv /\ [Next]_vars => ReportInv'
<1> SUFFICES ASSUME ReportInv, [Next]_vars PROVE ReportInv'
    OBVIOUS
<1>1. ASSUME NEW s \in Servers, NEW k \in Keys \cup {NoKey}, NEW b \in Bodies, Report(s, k, b)
      PROVE  ReportInv'
    BY <1>1, ReportKeeps
<1>2. ASSUME NEW s \in Servers, Step(s)
      PROVE  ReportInv'
    BY <1>2, CheckQuotaKeeps, FindCaseKeeps, NewCaseKeeps, ReadKeyKeeps, LookupKeeps,
       InsertKeeps, LockKeeps, RecountKeeps, ClaimKeeps, AnswerKeeps DEF Step
<1>3. ASSUME NEW s \in Servers, Fail(s)
      PROVE  ReportInv'
    BY <1>3, GiveUpKeeps DEF Fail
<1>4. ASSUME NEW r \in Ids, Remove(r)
      PROVE  ReportInv'
    BY <1>4, RemoveKeeps
<1>5. CASE StartupCount \/ StartupWrite
    BY <1>5, StartupKeeps
<1>6. CASE UNCHANGED vars
    BY <1>6 DEF vars, rest, history, ReportInv, TypeOK, ReportHasBody, WorkingHasId, FreshApart,
       AnswerIsClaim, Fresh, Owns, ClaimIsWhole, ClaimsApart, RecordIsClaimed, Exists,
       UnbornHasNoText, IdNamesOneText, AnsweredIsClaim, AnsweredIsClaimed
<1> QED
    BY <1>1, <1>2, <1>3, <1>4, <1>5, <1>6 DEF Next

LEMMA ReportsInvariant == Spec => []ReportInv
BY InitReports, NextKeepsReports, PTL DEF Spec

-----------------------------------------------------------------------------
(* The counters.  A transaction that has counted holds the library's row,  *)
(* so no other has counted and not committed.                              *)

\* The report has inserted its row, and has locked its library's, and has not
\* committed.
Storing  == {"lock", "recount", "claim"}
Counting == {"recount", "claim"}

Uncommitted == \A s \in Servers : task[s].pc \in Storing => ~Exists(task[s].id)

InsertsApart ==
    \A s, x \in Servers :
        s # x /\ task[s].pc \in Storing /\ task[x].pc \in Storing => task[s].id # task[x].id

LockHeld ==
    /\ \A s \in Servers : task[s].pc \in Counting => lock[Library(s)] = s
    /\ \A s \in Servers, l \in Libraries : lock[l] = s =>
           task[s].pc \in Counting /\ Library(s) = l

Counts(s, l) == task[s].pc = "claim" /\ Library(s) = l

\* A library that has not drifted is counted right, or will be by the report
\* that counts it now.
Counted ==
    \A l \in Libraries \ drifted :
        /\ \A s \in Servers : Counts(s, l) => task[s].count = Cardinality(RowsOf(l)) + 1
        /\ \/ counter[l] = Cardinality(RowsOf(l))
           \/ \E s \in Servers : Counts(s, l) /\ task[s].stale

CountInv == Uncommitted /\ InsertsApart /\ LockHeld /\ Counted

\* A report moves on before it inserts its row, or after it has committed.
LEMMA MoveCounts ==
    ASSUME ReportInv, CountInv, NEW s \in Servers,
           \A x \in Servers : x # s => task'[x] = task[x],
           task[s].pc \notin Storing, task'[s].pc \notin Storing,
           UNCHANGED <<records, counter, lock, drifted>>
    PROVE  CountInv'
<1>1. \A x \in Servers : x # s => task'[x] = task[x]
    OBVIOUS
<1>2. \A l : RowsOf(l)' = RowsOf(l)
    BY DEF RowsOf, Exists
<1>3. \A l \in Libraries : lock[l] \in Servers \cup {Nobody}
    BY DEF ReportInv, TypeOK
<1>4. Uncommitted' /\ InsertsApart' /\ LockHeld'
    BY <1>1, <1>3 DEF CountInv, Uncommitted, InsertsApart, LockHeld, Exists, Storing, Counting,
                      Library
<1>5. \A x \in Servers : \A l : Counts(x, l)' => x # s /\ Counts(x, l)
    BY <1>1 DEF Counts, Storing, Library
<1>6. \A x \in Servers : \A l : Counts(x, l) => x # s /\ Counts(x, l)'
    BY <1>1 DEF Counts, Storing, Library
<1>7. Counted'
    BY <1>1, <1>2, <1>5, <1>6 DEF CountInv, Counted
<1> QED
    BY <1>4, <1>7 DEF CountInv

LEMMA GiveUpCounts ==
    ASSUME ReportInv, CountInv, NEW s \in Servers, task[s].pc # "idle", GiveUp(s)
    PROVE  CountInv'
<1>1. \A x \in Servers : task'[x] = IF x = s THEN Idle ELSE task[x]
    BY DEF GiveUp, ReportInv, TypeOK
<1>2. /\ \A l : RowsOf(l)' = RowsOf(l)
      /\ counter' = counter /\ records' = records
    BY DEF GiveUp, RowsOf, Exists
<1>3. \A l \in Libraries : /\ lock[l] \in Servers \cup {Nobody}
                           /\ lock'[l] = IF lock[l] = s THEN Nobody ELSE lock[l]
    BY DEF GiveUp, ReportInv, TypeOK
<1>4. Idle.pc = "idle"
    BY DEF Idle
<1>5. \A x \in Servers : task[x].pc # "idle" => Library(x) \in Libraries
    BY LibraryIsKnown
<1>6. Uncommitted' /\ InsertsApart' /\ LockHeld'
    BY <1>1, <1>2, <1>3, <1>4, <1>5, ReportAssumption
       DEF CountInv, Uncommitted, InsertsApart, LockHeld, Exists, Storing, Counting, Library
<1>7. \A x \in Servers : \A l : Counts(x, l)' <=> x # s /\ Counts(x, l)
    BY <1>1, <1>4 DEF Counts, Library
<1>8. /\ drifted \subseteq drifted'
      /\ task[s].stale => Library(s) \in drifted'
    BY DEF GiveUp
<1>9. \A l \in Libraries \ drifted' : Counts(s, l) => ~task[s].stale
    BY <1>8 DEF Counts
<1>10. Counted'
    <2>1. SUFFICES ASSUME NEW l \in Libraries \ drifted'
                   PROVE  /\ \A x \in Servers : Counts(x, l)'
                                => task'[x].count = Cardinality(RowsOf(l)) + 1
                          /\ \/ counter[l] = Cardinality(RowsOf(l))
                             \/ \E x \in Servers : Counts(x, l)' /\ task'[x].stale
        BY <1>2 DEF Counted
    <2>2. l \in Libraries \ drifted
        BY <1>8
    <2> QED
        BY <1>1, <1>7, <1>9, <2>2 DEF CountInv, Counted
<1> QED
    BY <1>6, <1>10 DEF CountInv

LEMMA InsertCounts ==
    ASSUME ReportInv, CountInv, NEW s \in Servers, Insert(s)
    PROVE  CountInv'
<1>1. task[s].pc = "insert" /\ task[s] \in Task
    BY DEF Insert, ReportInv, TypeOK
<1>2. CASE GiveUp(s)
    BY <1>1, <1>2, GiveUpCounts
<1>3. CASE Goto(s, "lock") /\ UNCHANGED rest
    <2> DEFINE t == [task[s] EXCEPT !.pc = "lock"]
    <2>1. t.pc = "lock" /\ t.id = task[s].id /\ t.body = task[s].body
        BY <1>1 DEF Task
    <2>2. \A x \in Servers : task'[x] = IF x = s THEN t ELSE task[x]
        BY <1>3 DEF Goto, ReportInv, TypeOK
    <2> HIDE DEF t
    <2>3. UNCHANGED <<records, counter, lock, drifted>>
        BY <1>3 DEF rest, history
    <2>4. \A l : RowsOf(l)' = RowsOf(l)
        BY <2>3 DEF RowsOf, Exists
    <2>5. ~Exists(task[s].id) /\ \A x \in Servers : task[x].pc \in Storing => task[x].id # task[s].id
        <3>1. Inserting(task[s].id) = {} /\ \A x \in Servers : task'[x].pc # "idle" \/ x # s
            BY <1>1, <2>1, <2>2 DEF Insert
        <3>2. task'[s].pc # task[s].pc /\ Idle.pc = "idle"
            BY <1>1, <2>1, <2>2 DEF Idle
        <3>3. ~GiveUp(s)
            BY <2>1, <2>2, <3>2 DEF GiveUp, ReportInv, TypeOK
        <3> QED
            BY <3>1, <3>3 DEF Insert, Inserting, Storing
    <2>6. Uncommitted' /\ InsertsApart'
        BY <2>1, <2>2, <2>3, <2>5 DEF CountInv, Uncommitted, InsertsApart, Exists
    <2>7. LockHeld'
        <3>1. \A l \in Libraries : lock[l] \in Servers \cup {Nobody}
            BY DEF ReportInv, TypeOK
        <3> QED
            BY <1>1, <2>1, <2>2, <2>3, <3>1 DEF CountInv, LockHeld, Counting, Library
    <2>8. \A x \in Servers : \A l : Counts(x, l)' <=> x # s /\ Counts(x, l)
        BY <2>1, <2>2 DEF Counts, Library
    <2>9. \A l : ~Counts(s, l)
        BY <1>1 DEF Counts
    <2>10. Counted'
        BY <2>2, <2>3, <2>4, <2>8, <2>9 DEF CountInv, Counted
    <2> QED
        BY <2>6, <2>7, <2>10 DEF CountInv
<1> QED
    BY <1>2, <1>3 DEF Insert

LEMMA LockCounts ==
    ASSUME ReportInv, CountInv, NEW s \in Servers, Lock(s)
    PROVE  CountInv'
<1>1. task[s].pc = "lock" /\ task[s] \in Task /\ Library(s) \in Libraries
    BY LibraryIsKnown DEF Lock, ReportInv, TypeOK
<1> DEFINE t == [task[s] EXCEPT !.pc = "recount"]
<1>2. t.pc = "recount" /\ t.id = task[s].id /\ t.body = task[s].body
    BY <1>1 DEF Task
<1>3. \A x \in Servers : task'[x] = IF x = s THEN t ELSE task[x]
    BY DEF Lock, Goto, ReportInv, TypeOK
<1> HIDE DEF t
<1>4. UNCHANGED <<records, counter, drifted>> /\ lock[Library(s)] = Nobody
    BY DEF Lock, history
<1>5. \A l : RowsOf(l)' = RowsOf(l)
    BY <1>4 DEF RowsOf, Exists
<1>6. Uncommitted' /\ InsertsApart'
    BY <1>1, <1>2, <1>3, <1>4 DEF CountInv, Uncommitted, InsertsApart, Exists, Storing
<1>7. \A l \in Libraries : /\ lock[l] \in Servers \cup {Nobody}
                           /\ lock'[l] = IF l = Library(s) THEN s ELSE lock[l]
    BY DEF Lock, ReportInv, TypeOK
<1>8. \A x \in Servers : task[x].pc # "idle" => Library(x) \in Libraries
    BY LibraryIsKnown
<1>9. \A x \in Servers : Library(x)' = Library(x)
    BY <1>2, <1>3 DEF Library
<1>10. \A x \in Servers : task[x].pc \in Counting => Library(x) # Library(s)
    BY <1>4, ReportAssumption DEF CountInv, LockHeld
<1>11. LockHeld'
    <2>1. \A x \in Servers : task'[x].pc \in Counting => lock'[Library(x)] = x
        BY <1>1, <1>2, <1>3, <1>7, <1>8, <1>10 DEF CountInv, LockHeld, Counting
    <2>2. \A x \in Servers, l \in Libraries : lock'[l] = x =>
              task'[x].pc \in Counting /\ Library(x) = l
        BY <1>1, <1>2, <1>3, <1>7 DEF CountInv, LockHeld, Counting
    <2> QED
        BY <1>9, <2>1, <2>2 DEF LockHeld
<1>12. \A x \in Servers : \A l : Counts(x, l)' <=> Counts(x, l)
    BY <1>1, <1>2, <1>3, <1>9 DEF Counts
<1>13. \A x \in Servers : \A l : Counts(x, l) => x # s
    BY <1>1 DEF Counts
<1>14. Counted'
    BY <1>3, <1>4, <1>5, <1>12, <1>13 DEF CountInv, Counted
<1> QED
    BY <1>6, <1>11, <1>14 DEF CountInv

\* Nobody else has counted the library.
LEMMA OneCounts ==
    ASSUME CountInv, NEW s \in Servers, task[s].pc \in Counting,
           NEW x \in Servers, Counts(x, Library(s))
    PROVE  x = s
BY DEF CountInv, LockHeld, Counts, Counting

LEMMA RecountCounts ==
    ASSUME ReportInv, CountInv, NEW s \in Servers, Recount(s)
    PROVE  CountInv'
<1>1. task[s].pc = "recount" /\ task[s] \in Task /\ Library(s) \in Libraries
    BY LibraryIsKnown DEF Recount, ReportInv, TypeOK
<1> DEFINE n == Cardinality(RowsOf(Library(s))) + 1
           b == Library(s) \in drifted
           t == [task[s] EXCEPT !.pc = "claim", !.count = n, !.stale = b]
<1>2. /\ t.pc = "claim" /\ t.id = task[s].id /\ t.body = task[s].body
      /\ t.count = n /\ t.stale = b
    BY <1>1 DEF Task
<1>3. \A x \in Servers : task'[x] = IF x = s THEN t ELSE task[x]
    BY DEF Recount, ReportInv, TypeOK
<1> HIDE DEF t
<1>4. UNCHANGED <<records, counter, lock>> /\ drifted' = drifted \ {Library(s)}
    BY DEF Recount
<1>5. \A l : RowsOf(l)' = RowsOf(l)
    BY <1>4 DEF RowsOf, Exists
<1>6. Uncommitted' /\ InsertsApart'
    BY <1>1, <1>2, <1>3, <1>4 DEF CountInv, Uncommitted, InsertsApart, Exists, Storing
<1>7. \A x \in Servers : Library(x)' = Library(x)
    BY <1>2, <1>3 DEF Library
<1>8. LockHeld'
    BY <1>1, <1>2, <1>3, <1>4, <1>7 DEF CountInv, LockHeld, Counting
<1>9. \A x \in Servers : \A l : x # s => (Counts(x, l)' <=> Counts(x, l))
    BY <1>3, <1>7 DEF Counts
<1>10. \A l : l = Library(s) => Counts(s, l)'
    BY <1>2, <1>3, <1>7 DEF Counts
<1>11. \A l : Counts(s, l)' => l = Library(s)
    BY <1>7 DEF Counts
<1>12. \A x \in Servers : ~Counts(x, Library(s)) \/ x = s
    BY <1>1, OneCounts DEF Counting
<1>13. \A l : ~Counts(s, l)
    BY <1>1 DEF Counts
<1>14. ASSUME NEW l \in Libraries \ drifted'
       PROVE  /\ \A x \in Servers : Counts(x, l)' => task'[x].count = Cardinality(RowsOf(l)) + 1
              /\ \/ counter[l] = Cardinality(RowsOf(l))
                 \/ \E x \in Servers : Counts(x, l)' /\ task'[x].stale
    <2>1. CASE l = Library(s)
        <3>1. \A x \in Servers : Counts(x, l)' => x = s
            BY <1>9, <1>12, <2>1
        <3>2. task'[s].count = Cardinality(RowsOf(l)) + 1
            BY <1>2, <1>3, <2>1
        <3>3. CASE b
            <4>1. Counts(s, l)' /\ task'[s].stale
                BY <1>2, <1>3, <1>10, <2>1, <3>3
            <4> QED
                BY <3>1, <3>2, <4>1
        <3>4. CASE ~b
            <4>1. l \in Libraries \ drifted /\ \A x \in Servers : ~Counts(x, l)
                BY <1>12, <1>13, <2>1, <3>4
            <4> QED
                BY <3>1, <3>2, <4>1 DEF CountInv, Counted
        <3> QED
            BY <3>3, <3>4
    <2>2. CASE l # Library(s)
        <3>1. l \in Libraries \ drifted
            BY <1>4, <2>2
        <3>2. \A x \in Servers : Counts(x, l)' <=> x # s /\ Counts(x, l)
            BY <1>9, <1>11, <2>2
        <3>3. \A x \in Servers : x # s => task'[x] = task[x]
            BY <1>3
        <3> QED
            BY <1>13, <3>1, <3>2, <3>3 DEF CountInv, Counted
    <2> QED
        BY <2>1, <2>2
<1>15. Counted'
    BY <1>4, <1>5, <1>14 DEF Counted
<1> QED
    BY <1>6, <1>8, <1>15 DEF CountInv

\* The commit releases the library's row, and leaves the other libraries alone.
LEMMA CommitCounts ==
    ASSUME ReportInv, CountInv, NEW s \in Servers, task[s].pc = "claim",
           NEW stored \in BOOLEAN, NEW id \in Ids, Commit(s, stored, id),
           stored => id = task[s].id
    PROVE  /\ Uncommitted' /\ InsertsApart' /\ LockHeld'
           /\ \A x \in Servers : \A l : Counts(x, l)' <=>
                  l # Library(s) /\ Counts(x, l) /\ task'[x] = task[x]
<1>1. task[s] \in Task /\ Library(s) \in Libraries
    BY LibraryIsKnown DEF ReportInv, TypeOK
<1> DEFINE t == [task[s] EXCEPT !.pc = "answer", !.id = id, !.stale = FALSE]
<1>2. t.pc = "answer"
    BY <1>1 DEF Task
<1>3. \A x \in Servers : task'[x] = IF x = s THEN t ELSE task[x]
    BY DEF Commit, ReportInv, TypeOK
<1> HIDE DEF t
<1>4. \A r \in Ids : records'[r] # records[r] => stored /\ r = id
    BY DEF Commit, ReportInv, TypeOK
<1>5. \A l \in Libraries : lock'[l] = IF lock[l] = s THEN Nobody ELSE lock[l]
    BY DEF Commit
<1>6. \A x \in Servers : task[x].pc \in Storing => task[x].id \in Ids
    BY ReportAssumption DEF ReportInv, TypeOK, WorkingHasId, Working, Storing
<1>7. \A x \in Servers : task[x].pc # "idle" => Library(x) \in Libraries
    BY LibraryIsKnown
<1>8. \A x \in Servers : x # s => Library(x)' = Library(x)
    BY <1>3 DEF Library
<1>9. Uncommitted'
    <2> SUFFICES ASSUME NEW x \in Servers, task'[x].pc \in Storing
                 PROVE  records'[task'[x].id] = NoRow
        BY DEF Uncommitted, Exists
    <2>1. x # s /\ task'[x] = task[x]
        BY <1>2, <1>3 DEF Storing
    <2>2. task[x].id # task[s].id /\ records[task[x].id] = NoRow
        BY <2>1 DEF CountInv, Uncommitted, InsertsApart, Storing, Exists
    <2> QED
        BY <1>4, <1>6, <2>1, <2>2
<1>10. InsertsApart'
    BY <1>2, <1>3 DEF CountInv, InsertsApart, Storing
<1>11. \A x \in Servers : task[x].pc \in Counting /\ x # s => Library(x) # Library(s)
    BY DEF CountInv, LockHeld, Counting
<1>12. LockHeld'
    <2>1. \A x \in Servers : task'[x].pc \in Counting => x # s /\ task[x].pc \in Counting
        BY <1>2, <1>3 DEF Counting
    <2>2. \A x \in Servers : task'[x].pc \in Counting => lock'[Library(x)] = x
        BY <1>5, <1>7, <2>1 DEF CountInv, LockHeld, Counting
    <2>3. \A x \in Servers, l \in Libraries : lock'[l] = x => x # s /\ lock[l] = x
        BY <1>5, ReportAssumption
    <2> QED
        BY <1>3, <1>8, <2>1, <2>2, <2>3 DEF CountInv, LockHeld
<1>13. \A x \in Servers : \A l : Counts(x, l)' <=>
            l # Library(s) /\ Counts(x, l) /\ task'[x] = task[x]
    BY <1>2, <1>3, <1>8, <1>11 DEF Counts, Counting
<1> QED
    BY <1>9, <1>10, <1>12, <1>13

\* A record is stored: the library has one row more, as the transaction counted.
LEMMA StoreCounts ==
    ASSUME ReportInv, CountInv, NEW s \in Servers, task[s].pc = "claim",
           Commit(s, TRUE, task[s].id)
    PROVE  CountInv'
<1>a. Library(s) \in Libraries /\ task[s].id \in Ids
    BY LibraryIsKnown DEF ReportInv, TypeOK, WorkingHasId, Working
<1>b. PICK L \in Libraries : L = Library(s)
    BY <1>a
<1>c. PICK r \in Ids : r = task[s].id
    BY <1>a
<1>1. task[s] \in Task /\ task[s].body \in Bodies /\ ~Exists(r)
    BY <1>c DEF ReportInv, TypeOK, ReportHasBody, CountInv, Uncommitted, Storing
<1>2. /\ Uncommitted' /\ InsertsApart' /\ LockHeld'
      /\ \A x \in Servers : \A l : Counts(x, l)' <=> l # L /\ Counts(x, l) /\ task'[x] = task[x]
    BY <1>a, <1>b, CommitCounts
<1>3. \A x \in Ids : records'[x] = IF x = r THEN [key |-> task[s].key, body |-> task[s].body]
                                   ELSE records[x]
    BY <1>c DEF Commit, ReportInv, TypeOK
<1>4. Exists(r)' /\ LibraryOf[records'[r].body] = L
    BY <1>1, <1>3, <1>b, ReportAssumption DEF Exists, NoRow, Library
<1>5. RowsOf(L)' = RowsOf(L) \cup {r} /\ r \notin RowsOf(L)
    BY <1>1, <1>3, <1>4, <1>b DEF RowsOf, Exists, Library
<1>6. \A l : l # L => RowsOf(l)' = RowsOf(l)
    <2> SUFFICES ASSUME NEW l, l # L PROVE RowsOf(l)' = RowsOf(l)
        OBVIOUS
    <2>1. r \notin RowsOf(l) /\ r \notin RowsOf(l)'
        BY <1>1, <1>4 DEF RowsOf
    <2> QED
        BY <1>3, <2>1 DEF RowsOf, Exists
<1>7. Cardinality(RowsOf(L)') = Cardinality(RowsOf(L)) + 1
    <2>1. IsFiniteSet(RowsOf(L))
        BY ReportAssumption, FS_Subset DEF RowsOf
    <2> QED
        BY <1>5, <2>1, FS_AddElement
<1>8. /\ \A l \in Libraries : counter'[l] = IF l = L THEN task[s].count ELSE counter[l]
      /\ drifted' = drifted
    BY <1>b DEF Commit, ReportInv, TypeOK
<1>9. Counts(s, L)
    BY <1>b DEF Counts
<1>10. ASSUME NEW l \in Libraries \ drifted
       PROVE  /\ \A x \in Servers : Counts(x, l)' => task'[x].count = Cardinality(RowsOf(l)') + 1
              /\ \/ counter'[l] = Cardinality(RowsOf(l)')
                 \/ \E x \in Servers : Counts(x, l)' /\ task'[x].stale
    <2>1. CASE l = L
        BY <1>2, <1>7, <1>8, <1>9, <2>1 DEF CountInv, Counted
    <2>2. CASE l # L
        <3>1. RowsOf(l)' = RowsOf(l) /\ counter'[l] = counter[l]
            BY <1>6, <1>8, <2>2
        <3>2. \A x \in Servers : Counts(x, l) => task'[x] = task[x]
            BY <1>b, <2>2 DEF Counts, Commit, ReportInv, TypeOK
        <3> QED
            BY <1>2, <2>2, <3>1, <3>2 DEF CountInv, Counted
    <2> QED
        BY <2>1, <2>2
<1>11. Counted'
    BY <1>8, <1>10 DEF Counted
<1> QED
    BY <1>2, <1>11 DEF CountInv

\* The key was taken: no row is stored, and the counter is one too high.
LEMMA LostCounts ==
    ASSUME ReportInv, CountInv, NEW s \in Servers, task[s].pc = "claim",
           NEW id \in Ids, Commit(s, FALSE, id)
    PROVE  CountInv'
<1> DEFINE L == Library(s)
<1>1. L \in Libraries
    BY LibraryIsKnown
<1>2. /\ Uncommitted' /\ InsertsApart' /\ LockHeld'
      /\ \A x \in Servers : \A l : Counts(x, l)' <=> l # L /\ Counts(x, l) /\ task'[x] = task[x]
    BY CommitCounts
<1>3. records' = records /\ drifted' = drifted \cup {L}
    BY DEF Commit
<1>4. \A l : RowsOf(l)' = RowsOf(l)
    BY <1>3 DEF RowsOf, Exists
<1>5. \A l \in Libraries \ drifted' : l # L /\ counter'[l] = counter[l] /\ l \in Libraries \ drifted
    BY <1>1, <1>3 DEF Commit, ReportInv, TypeOK
<1>6. \A x \in Servers : \A l : l # L /\ Counts(x, l) => task'[x] = task[x]
    BY DEF Counts, Commit, ReportInv, TypeOK
<1>7. Counted'
    BY <1>2, <1>4, <1>5, <1>6 DEF CountInv, Counted
<1> QED
    BY <1>2, <1>7 DEF CountInv

LEMMA ClaimCounts ==
    ASSUME ReportInv, CountInv, NEW s \in Servers, Claim(s)
    PROVE  CountInv'
<1>1. task[s].pc = "claim" /\ task[s].id \in Ids
    BY DEF Claim, ReportInv, TypeOK, WorkingHasId, Working
<1>2. task[s].key # NoKey => task[s].key \in Keys
    BY DEF ReportInv, TypeOK, Task
<1>3. \/ GiveUp(s)
      \/ Commit(s, TRUE, task[s].id)
      \/ \E k \in Keys : /\ idempotency[k] # NoClaim
                         /\ Commit(s, idempotency[k].id = task[s].id, idempotency[k].id)
    BY <1>2 DEF Claim
<1>4. CASE GiveUp(s)
    BY <1>1, <1>4, GiveUpCounts
<1>5. CASE Commit(s, TRUE, task[s].id)
    BY <1>1, <1>5, StoreCounts
<1>6. ASSUME NEW k \in Keys, idempotency[k] # NoClaim,
             Commit(s, idempotency[k].id = task[s].id, idempotency[k].id)
      PROVE  CountInv'
    <2>1. idempotency[k].id \in Ids
        BY <1>6 DEF ReportInv, TypeOK, ClaimIsWhole
    <2>2. PICK id \in Ids : id = idempotency[k].id
        BY <2>1
    <2>3. CASE id = task[s].id
        BY <1>1, <1>5, <1>6, <2>2, <2>3, StoreCounts
    <2>4. CASE id # task[s].id
        <3>1. (id = task[s].id) = FALSE
            BY <2>4
        <3>2. Commit(s, FALSE, id)
            BY <1>6, <2>2, <3>1
        <3> QED
            BY <1>1, <3>2, LostCounts
    <2> QED
        BY <2>3, <2>4
<1> QED
    BY <1>3, <1>4, <1>5, <1>6

\* A removal makes the library drift.
LEMMA RemoveCounts ==
    ASSUME ReportInv, CountInv, NEW r \in Ids, Remove(r)
    PROVE  CountInv'
<1> DEFINE L == LibraryOf[records[r].body]
<1>1. UNCHANGED <<counter, lock, task>> /\ drifted' = drifted \cup {L}
    BY DEF Remove
<1>2. \A x \in Ids : records'[x] = IF x = r THEN NoRow ELSE records[x]
    BY DEF Remove, ReportInv, TypeOK
<1>3. ASSUME NEW l, l # L PROVE RowsOf(l)' = RowsOf(l)
    <2>1. r \notin RowsOf(l) /\ r \notin RowsOf(l)'
        BY <1>2, <1>3 DEF RowsOf, Exists
    <2> QED
        BY <1>2, <2>1 DEF RowsOf, Exists
<1>4. \A x \in Servers : task[x].pc \in Storing => task[x].id \in Ids
    BY DEF ReportInv, TypeOK, WorkingHasId, Working, Storing
<1>5. Uncommitted' /\ InsertsApart' /\ LockHeld'
    BY <1>1, <1>2, <1>4 DEF CountInv, Uncommitted, InsertsApart, LockHeld, Exists, Library
<1>6. \A x \in Servers : \A l : Counts(x, l)' <=> Counts(x, l)
    BY <1>1 DEF Counts, Library
<1>7. Counted'
    BY <1>1, <1>3, <1>6 DEF CountInv, Counted
<1> QED
    BY <1>5, <1>7 DEF CountInv

\* A starting process writes while nobody has counted, and all that it counted
\* wrong has drifted.
LEMMA StartupCounts ==
    ASSUME ReportInv, CountInv, StartupCount \/ StartupWrite
    PROVE  CountInv'
<1>1. UNCHANGED <<records, lock, task>>
    BY DEF StartupCount, StartupWrite, history
<1>2. \A l : RowsOf(l)' = RowsOf(l)
    BY <1>1 DEF RowsOf, Exists
<1>3. Uncommitted' /\ InsertsApart' /\ LockHeld'
    BY <1>1 DEF CountInv, Uncommitted, InsertsApart, LockHeld, Exists, Library
<1>4. \A x \in Servers : \A l : Counts(x, l)' <=> Counts(x, l)
    BY <1>1 DEF Counts, Library
<1>5. CASE StartupCount
    <2>1. UNCHANGED <<counter, drifted>>
        BY <1>5 DEF StartupCount, history
    <2> QED
        BY <1>1, <1>2, <1>3, <1>4, <2>1 DEF CountInv, Counted
<1>6. CASE StartupWrite
    <2>1. \A l \in Libraries \ drifted' : counter'[l] = Cardinality(RowsOf(l))
        BY <1>6 DEF StartupWrite
    <2>2. \A x \in Servers, l \in Libraries : ~Counts(x, l)
        BY <1>6, ReportAssumption DEF StartupWrite, CountInv, LockHeld, Counts, Counting
    <2> QED
        BY <1>2, <1>3, <1>4, <2>1, <2>2 DEF CountInv, Counted
<1> QED
    BY <1>5, <1>6

\* Where a step takes a report.
LEMMA StepMoves ==
    ASSUME ReportInv, NEW s \in Servers,
           \/ Step(s) \/ Fail(s)
           \/ \E k \in Keys \cup {NoKey}, b \in Bodies : Report(s, k, b)
    PROVE  /\ \A x \in Servers : x # s => task'[x] = task[x]
           /\ task'[s].pc \in Storing => task[s].pc \in {"insert", "lock", "recount"}
           /\ task'[s].pc = "new_case" => FindCase(s)
<1>1. task \in [Servers -> Task] /\ task[s] \in Task
    BY DEF ReportInv, TypeOK
<1>2. \A x \in Servers : x # s => task'[x] = task[x]
    BY <1>1 DEF Step, Fail, GiveUp, Report, CheckQuota, FindCase, NewCase, ReadKey, Lookup,
       Insert, Lock, Recount, Claim, Commit, Answer, Goto
<1>3. Idle.pc = "idle"
    BY DEF Idle
<1>4. ASSUME NEW k \in Keys \cup {NoKey}, NEW b \in Bodies, Report(s, k, b)
      PROVE  task'[s].pc = "quota"
    BY <1>1, <1>4 DEF Report, Idle
<1>5. CASE Fail(s) \/ Answer(s)
    BY <1>1, <1>2, <1>3, <1>5 DEF Fail, GiveUp, Answer, Storing
<1>6. CASE CheckQuota(s)
    <2>1. task'[s].pc \in {"case", "idle"}
        BY <1>1, <1>3, <1>6 DEF CheckQuota, Task
    <2> QED
        BY <1>2, <2>1 DEF Storing
<1>7. CASE FindCase(s)
    <2>1. task'[s].pc \in {"key", "new_case"}
        BY <1>1, <1>7 DEF FindCase, Goto, Task
    <2> QED
        BY <1>2, <1>7, <2>1 DEF Storing
<1>8. CASE NewCase(s)
    <2>1. task'[s].pc = "key"
        BY <1>1, <1>8 DEF NewCase, Goto, Task
    <2> QED
        BY <1>2, <2>1 DEF Storing
<1>9. CASE ReadKey(s)
    <2>1. task'[s].pc \in {"lookup", "idle", "answer"}
        BY <1>1, <1>3, <1>9 DEF ReadKey, Task
    <2> QED
        BY <1>2, <2>1 DEF Storing
<1>10. CASE Lookup(s)
    <2>1. task'[s].pc \in {"insert", "idle", "answer"}
        BY <1>1, <1>3, <1>10 DEF Lookup, Task
    <2> QED
        BY <1>2, <2>1 DEF Storing
<1>11. CASE Insert(s)
    <2>1. task[s].pc = "insert" /\ task'[s].pc \in {"idle", "lock"}
        BY <1>1, <1>3, <1>11 DEF Insert, GiveUp, Goto, Task
    <2> QED
        BY <1>2, <2>1
<1>12. CASE Lock(s)
    <2>1. task[s].pc = "lock" /\ task'[s].pc = "recount"
        BY <1>1, <1>12 DEF Lock, Goto, Task
    <2> QED
        BY <1>2, <2>1
<1>13. CASE Recount(s)
    <2>1. task[s].pc = "recount" /\ task'[s].pc = "claim"
        BY <1>1, <1>13 DEF Recount, Task
    <2> QED
        BY <1>2, <2>1
<1>14. CASE Claim(s)
    <2>1. GiveUp(s) \/ \E stored \in BOOLEAN : \E id : Commit(s, stored, id)
        BY <1>14 DEF Claim
    <2>2. GiveUp(s) => task'[s].pc = "idle"
        BY <1>1, <1>3 DEF GiveUp
    <2>3. ASSUME NEW stored \in BOOLEAN, NEW id, Commit(s, stored, id)
          PROVE  task'[s].pc = "answer"
        BY <1>1, <2>3 DEF Commit, Task
    <2> QED
        BY <1>2, <2>1, <2>2, <2>3 DEF Storing
<1> QED
    BY <1>2, <1>4, <1>5, <1>6, <1>7, <1>8, <1>9, <1>10, <1>11, <1>12, <1>13, <1>14
       DEF Step, Storing

\* The steps before the transaction, and the answer.
LEMMA BesideCounts ==
    ASSUME ReportInv, CountInv, NEW s \in Servers,
           \/ \E k \in Keys \cup {NoKey}, b \in Bodies : Report(s, k, b)
           \/ CheckQuota(s) \/ FindCase(s) \/ NewCase(s) \/ ReadKey(s) \/ Lookup(s) \/ Answer(s)
    PROVE  CountInv'
<1>1. UNCHANGED <<records, counter, lock, drifted>>
    BY DEF Report, CheckQuota, FindCase, NewCase, ReadKey, Lookup, Answer, rest, history
<1>2. task[s].pc \notin Storing \cup {"insert"}
    BY DEF Report, CheckQuota, FindCase, NewCase, ReadKey, Lookup, Answer, Storing
<1>3. (\A x \in Servers : x # s => task'[x] = task[x]) /\ task'[s].pc \notin Storing
    BY <1>2, StepMoves DEF Step, Storing
<1> QED
    BY <1>1, <1>2, <1>3, MoveCounts

LEMMA InitCounts == Init => CountInv
<1> SUFFICES ASSUME Init PROVE CountInv
    OBVIOUS
<1>1. \A s \in Servers : task[s].pc = "idle"
    BY DEF Init, Idle
<1>2. \A l : RowsOf(l) = {}
    BY DEF Init, RowsOf, Exists
<1>3. \A l \in Libraries : counter[l] = 0 /\ lock[l] = Nobody
    BY DEF Init
<1>4. Uncommitted /\ InsertsApart /\ LockHeld
    BY <1>1, <1>3, ReportAssumption DEF Uncommitted, InsertsApart, LockHeld, Storing, Counting
<1>5. Counted
    BY <1>1, <1>2, <1>3, FS_EmptySet DEF Counted, Counts
<1> QED
    BY <1>4, <1>5 DEF CountInv

LEMMA NextCounts == ReportInv /\ CountInv /\ [Next]_vars => CountInv'
<1> SUFFICES ASSUME ReportInv, CountInv, [Next]_vars PROVE CountInv'
    OBVIOUS
<1>1. ASSUME NEW s \in Servers, NEW k \in Keys \cup {NoKey}, NEW b \in Bodies, Report(s, k, b)
      PROVE  CountInv'
    BY <1>1, BesideCounts
<1>2. ASSUME NEW s \in Servers, Step(s)
      PROVE  CountInv'
    BY <1>2, BesideCounts, InsertCounts, LockCounts, RecountCounts, ClaimCounts DEF Step
<1>3. ASSUME NEW s \in Servers, Fail(s)
      PROVE  CountInv'
    BY <1>3, GiveUpCounts DEF Fail
<1>4. ASSUME NEW r \in Ids, Remove(r)
      PROVE  CountInv'
    BY <1>4, RemoveCounts
<1>5. CASE StartupCount \/ StartupWrite
    BY <1>5, StartupCounts
<1>6. CASE UNCHANGED vars
    <2>1. UNCHANGED <<records, counter, lock, task, drifted>>
        BY <1>6 DEF vars, rest, history
    <2>2. \A l : RowsOf(l)' = RowsOf(l)
        BY <2>1 DEF RowsOf, Exists
    <2>3. Uncommitted' /\ InsertsApart' /\ LockHeld'
        BY <2>1 DEF CountInv, Uncommitted, InsertsApart, LockHeld, Exists, Library
    <2>4. Counted'
        BY <2>1, <2>2 DEF CountInv, Counted, Counts, Library
    <2> QED
        BY <2>3, <2>4 DEF CountInv
<1> QED
    BY <1>1, <1>2, <1>3, <1>4, <1>5, <1>6 DEF Next

LEMMA CountsInvariant == Spec => []CountInv
BY InitCounts, NextCounts, ReportsInvariant, PTL DEF Spec

-----------------------------------------------------------------------------
(* The cases.  Who has found no case may still make one; once there is a   *)
(* case, nobody more comes to find none.                                   *)

NewCases == {s \in Servers : task[s].pc = "new_case"}

CasesInv == cases > 0 => cases + Cardinality(NewCases) <= Cardinality(Servers)

LEMMA NewCasesFinite ==
    /\ IsFiniteSet(NewCases) /\ Cardinality(NewCases) \in Nat
    /\ Cardinality(NewCases) <= Cardinality(Servers) /\ Cardinality(Servers) \in Nat
<1>1. NewCases \subseteq Servers
    BY DEF NewCases
<1> QED
    BY <1>1, ReportAssumption, FS_Subset, FS_CardinalityType

\* Nobody has found that there is no case who had not before.
LEMMA FewerNewCases ==
    ASSUME TypeOK, CasesInv, cases' = cases, NewCases' \subseteq NewCases
    PROVE  CasesInv'
<1>1. Cardinality(NewCases') <= Cardinality(NewCases) /\ Cardinality(NewCases') \in Nat
    BY NewCasesFinite, FS_Subset, FS_CardinalityType
<1>2. cases \in Nat
    BY DEF TypeOK
<1> QED
    BY <1>1, <1>2, NewCasesFinite DEF CasesInv

\* A report that goes to new_case has found no case.
LEMMA StepCases ==
    ASSUME ReportInv, CasesInv, NEW s \in Servers,
           \/ Step(s) \/ Fail(s)
           \/ \E k \in Keys \cup {NoKey}, b \in Bodies : Report(s, k, b)
    PROVE  CasesInv'
<1>1. task \in [Servers -> Task] /\ task[s] \in Task /\ cases \in Nat
    BY DEF ReportInv, TypeOK
<1>2. CASE FindCase(s)
    <2>1. cases' = cases
        BY <1>2 DEF FindCase, rest
    <2>2. CASE cases > 0
        <3>1. task' = [task EXCEPT ![s].pc = "key"]
            BY <1>2, <2>2 DEF FindCase, Goto
        <3>2. NewCases' \subseteq NewCases
            BY <1>1, <3>1 DEF NewCases, Task
        <3> QED
            BY <2>1, <3>2, FewerNewCases DEF ReportInv
    <2> QED
        BY <2>1, <2>2 DEF CasesInv
<1>3. CASE NewCase(s)
    <2>1. cases' = cases + 1 /\ task' = [task EXCEPT ![s].pc = "key"] /\ s \in NewCases
        BY <1>3 DEF NewCase, Goto, NewCases
    <2>2. NewCases' = NewCases \ {s}
        BY <1>1, <2>1 DEF NewCases, Task
    <2>3. Cardinality(NewCases') = Cardinality(NewCases) - 1
        BY <2>1, <2>2, NewCasesFinite, FS_RemoveElement
    <2>4. cases = 0 \/ cases > 0
        BY <1>1
    <2> QED
        BY <1>1, <2>1, <2>3, <2>4, NewCasesFinite DEF CasesInv
<1>4. CASE ~FindCase(s) /\ ~NewCase(s)
    <2>1. cases' = cases
        BY <1>4 DEF Step, Fail, GiveUp, Report, CheckQuota, ReadKey, Lookup, Insert, Lock, Recount,
           Claim, Commit, Answer, rest
    <2>2. (\A x \in Servers : x # s => task'[x] = task[x]) /\ task'[s].pc # "new_case"
        BY <1>4, StepMoves
    <2>3. NewCases' \subseteq NewCases
        BY <2>2 DEF NewCases
    <2> QED
        BY <2>1, <2>3, FewerNewCases DEF ReportInv
<1> QED
    BY <1>2, <1>3, <1>4

LEMMA NextCases == ReportInv /\ CasesInv /\ [Next]_vars => CasesInv'
<1> SUFFICES ASSUME ReportInv, CasesInv, [Next]_vars PROVE CasesInv'
    OBVIOUS
<1>1. ASSUME NEW s \in Servers, NEW k \in Keys \cup {NoKey}, NEW b \in Bodies, Report(s, k, b)
      PROVE  CasesInv'
    BY <1>1, StepCases
<1>2. ASSUME NEW s \in Servers, Step(s) \/ Fail(s)
      PROVE  CasesInv'
    BY <1>2, StepCases
<1>3. CASE (\E r \in Ids : Remove(r)) \/ StartupCount \/ StartupWrite \/ UNCHANGED vars
    <2>1. UNCHANGED <<cases, task>>
        BY <1>3 DEF Remove, StartupCount, StartupWrite, vars, rest
    <2> QED
        BY <2>1 DEF CasesInv, NewCases
<1> QED
    BY <1>1, <1>2, <1>3 DEF Next

-----------------------------------------------------------------------------
(* Sums over the records.  BytesOf folds over the rows in an order it      *)
(* chooses; induction on the parts of the ids shows that the order is no   *)
(* matter.                                                                 *)

LEMMA NatMin ==
    ASSUME NEW S \in SUBSET Nat, S # {}
    PROVE  Min(S) \in S /\ \A y \in S : Min(S) <= y
<1>1. PICK x \in S : \A y \in S : ~(<<y, x>> \in OpToRel(<, Nat))
    BY NatLessThanWellFounded, WFMin
<1>2. x \in Nat /\ \A y \in S : y \in Nat
    OBVIOUS
<1>3. \A y \in S : ~(y < x)
    BY <1>1, <1>2 DEF OpToRel
<1>4. \A y \in S : x <= y
    BY <1>2, <1>3
<1> QED
    BY <1>4 DEF Min

\* In a set of parts of a finite set there is one from which no element can be taken away.
LEMMA SmallestPart ==
    ASSUME NEW D, IsFiniteSet(D), NEW Q \in SUBSET SUBSET D, Q # {}
    PROVE  \E s \in Q : \A x \in s : s \ {x} \notin Q
<1> DEFINE sizes == {Cardinality(s) : s \in Q}
<1>1. \A s \in SUBSET D : IsFiniteSet(s) /\ Cardinality(s) \in Nat
    BY FS_Subset, FS_CardinalityType
<1>2. sizes \in SUBSET Nat /\ sizes # {}
    BY <1>1
<1>3. PICK n \in sizes : \A m \in sizes : n <= m
    <2> HIDE DEF sizes
    <2> QED
        BY <1>2, NatMin
<1>4. PICK s \in Q : n = Cardinality(s)
    BY <1>3
<1>5. ASSUME NEW x \in s, s \ {x} \in Q
      PROVE  FALSE
    <2>1. Cardinality(s \ {x}) = Cardinality(s) - 1
        BY <1>1, FS_RemoveElement
    <2>2. Cardinality(s) <= Cardinality(s \ {x})
        BY <1>3, <1>4, <1>5
    <2>3. Cardinality(s) \in Nat /\ Cardinality(s \ {x}) \in Nat
        BY <1>1
    <2> QED
        BY <2>1, <2>2, <2>3
<1> QED
    BY <1>5

\* The sums of the parts of a function, each in the order of the fold.
Parts(f) ==
    CHOOSE g : g = [s \in SUBSET DOMAIN f |->
                      IF s = {} THEN 0
                      ELSE LET x == CHOOSE x \in s : TRUE IN f[x] + g[s \ {x}]]

OneOf(s) == CHOOSE x \in s : TRUE

\* g adds up f on the parts that have at most n elements.
AddsUp(g, f, D, n) ==
    \A s \in SUBSET D :
        Cardinality(s) <= n =>
            g[s] = IF s = {} THEN 0 ELSE f[OneOf(s)] + g[s \ {OneOf(s)}]

LEMMA PartsThere ==
    ASSUME NEW D, IsFiniteSet(D), NEW f \in [D -> Nat], NEW n \in Nat
    PROVE  \E g \in [SUBSET D -> Nat] : AddsUp(g, f, D, n)
<1> DEFINE missing == {m \in Nat : ~ \E g \in [SUBSET D -> Nat] : AddsUp(g, f, D, m)}
<1>0. \A s \in SUBSET D : IsFiniteSet(s) /\ Cardinality(s) \in Nat /\ (Cardinality(s) = 0 <=> s = {})
    BY FS_Subset, FS_CardinalityType, FS_EmptySet
<1>s. \A s \in SUBSET D : s # {} => OneOf(s) \in s
    BY DEF OneOf
<1>1. SUFFICES missing = {}
    OBVIOUS
<1>2. SUFFICES ASSUME missing # {} PROVE FALSE
    OBVIOUS
<1>3. PICK m \in missing : \A k \in missing : m <= k
    <2>1. missing \in SUBSET Nat
        OBVIOUS
    <2> HIDE DEF missing
    <2> QED
        BY <1>2, <2>1, NatMin
<1>4. m # 0
    <2>1. SUFFICES ASSUME m = 0 PROVE FALSE
        OBVIOUS
    <2>2. [s \in SUBSET D |-> 0] \in [SUBSET D -> Nat] /\ AddsUp([s \in SUBSET D |-> 0], f, D, 0)
        BY <1>0 DEF AddsUp
    <2> QED
        BY <1>3, <2>1, <2>2
<1>5. m - 1 \in Nat /\ m - 1 \notin missing
    <2>1. m \in Nat
        BY <1>3
    <2>2. m - 1 \in Nat /\ ~(m <= m - 1)
        BY <1>4, <2>1
    <2> HIDE DEF missing
    <2> QED
        BY <1>3, <2>2
<1>6. PICK g \in [SUBSET D -> Nat] : AddsUp(g, f, D, m - 1)
    BY <1>5
<1> DEFINE h == [s \in SUBSET D |-> IF Cardinality(s) <= m - 1 THEN g[s]
                                    ELSE f[OneOf(s)] + g[s \ {OneOf(s)}]]
<1>7. h \in [SUBSET D -> Nat]
    <2>1. ASSUME NEW s \in SUBSET D PROVE h[s] \in Nat
        <3>1. CASE Cardinality(s) <= m - 1
            BY <3>1
        <3>2. CASE ~(Cardinality(s) <= m - 1)
            <4>1. s # {}
                BY <1>0, <1>5, <3>2
            <4>2. OneOf(s) \in D
                BY <1>s, <4>1
            <4> QED
                BY <3>2, <4>2
        <3> QED
            BY <3>1, <3>2
    <2> QED
        BY <2>1
<1>8. ASSUME NEW s \in SUBSET D, Cardinality(s) <= m
      PROVE  h[s] = IF s = {} THEN 0 ELSE f[OneOf(s)] + h[s \ {OneOf(s)}]
    <2>1. CASE s = {}
        <3>0. Cardinality(s) <= m - 1
            <4>1. Cardinality(s) = 0 /\ m - 1 >= 0
                BY <1>0, <1>5, <2>1
            <4> QED
                BY <1>5, <4>1
        <3>1. g[s] = 0
            BY <1>6, <2>1, <3>0 DEF AddsUp
        <3> QED
            BY <1>0, <1>5, <2>1, <3>1
    <2>2. CASE s # {}
        <3>1. OneOf(s) \in s /\ s \ {OneOf(s)} \in SUBSET D
            BY <1>s, <2>2
        <3>2. Cardinality(s \ {OneOf(s)}) = Cardinality(s) - 1
            BY <1>0, <3>1, FS_RemoveElement
        <3>3. h[s \ {OneOf(s)}] = g[s \ {OneOf(s)}]
            BY <1>0, <1>8, <3>1, <3>2
        <3>4. h[s] = f[OneOf(s)] + g[s \ {OneOf(s)}]
            <4>1. CASE Cardinality(s) <= m - 1
                <5>1. g[s] = f[OneOf(s)] + g[s \ {OneOf(s)}]
                    BY <1>6, <2>2, <4>1 DEF AddsUp
                <5> QED
                    BY <4>1, <5>1
            <4>2. CASE ~(Cardinality(s) <= m - 1)
                BY <4>2
            <4> QED
                BY <4>1, <4>2
        <3> QED
            BY <2>2, <3>3, <3>4
    <2> QED
        BY <2>1, <2>2
<1>9. AddsUp(h, f, D, m)
    <2> HIDE DEF h
    <2> QED
        BY <1>8 DEF AddsUp
<1> QED
    BY <1>3, <1>7, <1>9

\* The sums of the parts of f are numbers, each made of the sums of smaller parts.
LEMMA PartsAddUp ==
    ASSUME NEW D, IsFiniteSet(D), NEW f \in [D -> Nat]
    PROVE  /\ Parts(f) \in [SUBSET D -> Nat]
           /\ \A s \in SUBSET D :
                Parts(f)[s] = IF s = {} THEN 0
                              ELSE f[OneOf(s)] + Parts(f)[s \ {OneOf(s)}]
<1>1. PICK g \in [SUBSET D -> Nat] : AddsUp(g, f, D, Cardinality(D))
    BY PartsThere, FS_CardinalityType
<1>2. \A s \in SUBSET D : Cardinality(s) <= Cardinality(D)
    BY FS_Subset
<1>3. g = [s \in SUBSET DOMAIN f |->
             IF s = {} THEN 0
             ELSE LET x == CHOOSE x \in s : TRUE IN f[x] + g[s \ {x}]]
    BY <1>1, <1>2 DEF AddsUp, OneOf
<1>4. Parts(f) = [s \in SUBSET DOMAIN f |->
             IF s = {} THEN 0
             ELSE LET x == CHOOSE x \in s : TRUE IN f[x] + Parts(f)[s \ {x}]]
    BY <1>3 DEF Parts
<1>5. PICK h : h = Parts(f)
    OBVIOUS
<1>6. h = [s \in SUBSET D |-> IF s = {} THEN 0 ELSE f[OneOf(s)] + h[s \ {OneOf(s)}]]
    BY <1>4, <1>5 DEF OneOf
<1>7. \A s \in SUBSET D : h[s] = IF s = {} THEN 0 ELSE f[OneOf(s)] + h[s \ {OneOf(s)}]
    BY <1>6
<1> DEFINE odd == {s \in SUBSET D : h[s] \notin Nat}
<1>8. odd = {}
    <2>1. SUFFICES ASSUME odd # {} PROVE FALSE
        OBVIOUS
    <2>2. PICK s \in odd : \A x \in s : s \ {x} \notin odd
        <3>1. odd \in SUBSET SUBSET D
            OBVIOUS
        <3> HIDE DEF odd
        <3> QED
            BY <2>1, <3>1, SmallestPart
    <2>0. s \in SUBSET D /\ h[s] \notin Nat /\ \A x \in s : h[s \ {x}] \in Nat
        <3>1. \A x \in s : s \ {x} \in SUBSET D
            BY <2>2
        <3> QED
            BY <2>2, <3>1
    <2>3. s # {}
        <3>1. s = {} => h[s] = 0
            BY <1>7, <2>0
        <3> QED
            BY <2>0, <3>1
    <2>4. OneOf(s) \in s
        BY <2>3 DEF OneOf
    <2>5. h[s \ {OneOf(s)}] \in Nat /\ f[OneOf(s)] \in Nat
        BY <2>0, <2>4
    <2>6. h[s] = f[OneOf(s)] + h[s \ {OneOf(s)}]
        BY <1>7, <2>0, <2>3
    <2> QED
        BY <2>0, <2>5, <2>6
<1>9. h \in [SUBSET D -> Nat]
    <2>1. \A s \in SUBSET D : h[s] \in Nat
        BY <1>8
    <2> QED
        BY <1>6, <2>1
<1> QED
    BY <1>5, <1>7, <1>9

\* Any element may be added first.
LEMMA PartsTakeAny ==
    ASSUME NEW D, IsFiniteSet(D), NEW f \in [D -> Nat], NEW t \in SUBSET D, NEW y \in t
    PROVE  Parts(f)[t] = f[y] + Parts(f)[t \ {y}]
<1>1. PICK g : g = Parts(f)
    OBVIOUS
<1>2. /\ g \in [SUBSET D -> Nat]
      /\ \A s \in SUBSET D : g[s] = IF s = {} THEN 0 ELSE f[OneOf(s)] + g[s \ {OneOf(s)}]
    BY <1>1, PartsAddUp, ZenonT(30)
<1> DEFINE odd == {s \in SUBSET D : \E x \in s : g[s] # f[x] + g[s \ {x}]}
<1>3. odd = {}
    <2>1. SUFFICES ASSUME odd # {} PROVE FALSE
        OBVIOUS
    <2>2. PICK s \in odd : \A x \in s : s \ {x} \notin odd
        <3>1. odd \in SUBSET SUBSET D
            OBVIOUS
        <3> HIDE DEF odd
        <3> QED
            BY <2>1, <3>1, SmallestPart
    <2>3. PICK x \in s : g[s] # f[x] + g[s \ {x}]
        BY <2>2
    <2>4. PICK z : z = OneOf(s)
        OBVIOUS
    <2>5. z \in s /\ s \in SUBSET D
        BY <2>2, <2>3, <2>4 DEF OneOf
    <2>6. g[s] = f[z] + g[s \ {z}]
        BY <1>2, <2>3, <2>4, <2>5
    <2>7. x # z
        BY <2>3, <2>6
    <2>8. PICK a, b, c : a = s \ {z} /\ b = s \ {x} /\ c = s \ {x, z}
        OBVIOUS
    <2>9. a \in SUBSET D /\ b \in SUBSET D /\ c \in SUBSET D /\ x \in a /\ z \in b
          /\ a \ {x} = c /\ b \ {z} = c
        BY <2>3, <2>5, <2>7, <2>8
    <2>10. a \notin odd /\ b \notin odd
        BY <2>2, <2>3, <2>5, <2>8
    <2>11. g[a] = f[x] + g[c]
        BY <2>9, <2>10
    <2>12. g[b] = f[z] + g[c]
        BY <2>9, <2>10
    <2>13. f[x] \in Nat /\ f[z] \in Nat /\ g[c] \in Nat
        BY <1>2, <2>3, <2>5, <2>9
    <2>14. g[s] = f[x] + g[b]
        BY <2>6, <2>8, <2>11, <2>12, <2>13
    <2> QED
        BY <2>3, <2>8, <2>14
<1>4. t \notin odd
    BY <1>3
<1> QED
    BY <1>1, <1>4

\* The bytes of the rows S, when R is the table.
Bytes(R, S) == MapThenSumSet(LAMBDA r : Size[R[r].body], S)

\* The same by their parts.
AreRowParts(g, R, S) ==
    g = [s \in SUBSET S |->
           IF s = {} THEN 0
           ELSE LET x == CHOOSE x \in s : TRUE IN Size[R[x].body] + g[s \ {x}]]

RowParts(R, S) == CHOOSE g : AreRowParts(g, R, S)

LEMMA BytesAreParts == ASSUME NEW R, NEW S PROVE Bytes(R, S) = RowParts(R, S)[S]
BY DEF Bytes, MapThenSumSet, MapThenFoldSet, RowParts, AreRowParts

\* f weighs the rows S of the table R.
Weighs(f, R, S) == \A r \in S : f[r] = Size[R[r].body]

LEMMA BytesAddUp ==
    ASSUME NEW D, IsFiniteSet(D), NEW R, NEW S \in SUBSET D, NEW f \in [D -> Nat],
           Weighs(f, R, S)
    PROVE  Bytes(R, S) = Parts(f)[S]
<1>1. PICK g : g = Parts(f)
    OBVIOUS
<1>2. /\ g \in [SUBSET D -> Nat]
      /\ \A s \in SUBSET D : g[s] = IF s = {} THEN 0 ELSE f[OneOf(s)] + g[s \ {OneOf(s)}]
    BY <1>1, PartsAddUp, ZenonT(30)
<1>3. PICK h : h = [s \in SUBSET S |-> g[s]]
    OBVIOUS
<1>4. ASSUME NEW s \in SUBSET S
      PROVE  h[s] = IF s = {} THEN 0
                    ELSE LET x == CHOOSE x \in s : TRUE IN Size[R[x].body] + h[s \ {x}]
    <2>1. s # {} => OneOf(s) \in s
        BY DEF OneOf
    <2>2. s \in SUBSET D /\ h[s] = g[s] /\ h[s \ {OneOf(s)}] = g[s \ {OneOf(s)}]
        BY <1>3
    <2>3. s # {} => f[OneOf(s)] = Size[R[OneOf(s)].body]
        BY <2>1 DEF Weighs
    <2> QED
        BY <1>2, <2>2, <2>3 DEF OneOf
<1>5. AreRowParts(h, R, S)
    BY <1>3, <1>4 DEF AreRowParts
<1>6. AreRowParts(RowParts(R, S), R, S)
    BY <1>5 DEF RowParts
<1>7. PICK k : k = RowParts(R, S)
    OBVIOUS
<1>8. \A s \in SUBSET S : k[s] = IF s = {} THEN 0 ELSE Size[R[OneOf(s)].body] + k[s \ {OneOf(s)}]
    BY <1>6, <1>7 DEF AreRowParts, OneOf
<1> DEFINE odd == {s \in SUBSET S : k[s] # g[s]}
<1>9. odd = {}
    <2>1. SUFFICES ASSUME odd # {} PROVE FALSE
        OBVIOUS
    <2>2. PICK s \in odd : \A x \in s : s \ {x} \notin odd
        <3>1. odd \in SUBSET SUBSET S /\ IsFiniteSet(S)
            BY FS_Subset
        <3> HIDE DEF odd
        <3> QED
            BY <2>1, <3>1, SmallestPart
    <2>3. s \in SUBSET S /\ k[s] # g[s] /\ \A x \in s : k[s \ {x}] = g[s \ {x}]
        <3>1. \A x \in s : s \ {x} \in SUBSET S
            BY <2>2
        <3> QED
            BY <2>2, <3>1
    <2>4. s # {}
        BY <1>2, <1>8, <2>3
    <2>5. PICK x : x = OneOf(s)
        OBVIOUS
    <2>6. x \in s
        BY <2>4, <2>5 DEF OneOf
    <2>7. k[s] = Size[R[x].body] + k[s \ {x}] /\ g[s] = f[x] + g[s \ {x}]
        BY <1>2, <1>8, <2>3, <2>4, <2>5
    <2>8. f[x] = Size[R[x].body] /\ k[s \ {x}] = g[s \ {x}]
        BY <2>3, <2>6 DEF Weighs
    <2> QED
        BY <2>3, <2>7, <2>8
<1>10. k[S] = g[S]
    BY <1>9
<1> QED
    BY <1>1, <1>7, <1>10, BytesAreParts

Weights(R, S) == [r \in Ids |-> IF r \in S THEN Size[R[r].body] ELSE 0]

LEMMA WeightsWeigh ==
    ASSUME NEW R, NEW S \in SUBSET Ids, \A r \in S : R[r].body \in Bodies
    PROVE  Weights(R, S) \in [Ids -> Nat] /\ Weighs(Weights(R, S), R, S)
BY ReportAssumption DEF Weights, Weighs

LEMMA IdsFinite == IsFiniteSet(Ids)
BY ReportAssumption

LEMMA BytesAreNatural ==
    ASSUME NEW R, NEW S \in SUBSET Ids, \A r \in S : R[r].body \in Bodies
    PROVE  Bytes(R, S) \in Nat
<1>1. PICK f : f = Weights(R, S)
    OBVIOUS
<1>2. f \in [Ids -> Nat] /\ Weighs(f, R, S)
    BY <1>1, WeightsWeigh
<1>3. Bytes(R, S) = Parts(f)[S]
    BY <1>2, BytesAddUp, IdsFinite
<1>4. Parts(f) \in [SUBSET Ids -> Nat]
    BY <1>2, PartsAddUp, IdsFinite
<1> QED
    BY <1>3, <1>4

\* Rows of the same bodies have the same bytes.
LEMMA SameBodies ==
    ASSUME NEW R, NEW Q, NEW S \in SUBSET Ids,
           \A r \in S : R[r].body \in Bodies /\ Q[r].body = R[r].body
    PROVE  Bytes(Q, S) = Bytes(R, S)
<1>1. PICK f : f = Weights(R, S)
    OBVIOUS
<1>2. f \in [Ids -> Nat] /\ Weighs(f, R, S)
    BY <1>1, WeightsWeigh
<1>3. Weighs(f, Q, S)
    BY <1>2 DEF Weighs
<1>4. Bytes(R, S) = Parts(f)[S]
    BY <1>2, BytesAddUp, IdsFinite
<1>5. Bytes(Q, S) = Parts(f)[S]
    BY <1>2, <1>3, BytesAddUp, IdsFinite
<1> QED
    BY <1>4, <1>5

\* One row more, and its bytes are added.
LEMMA OneRowMore ==
    ASSUME NEW R, NEW Q, NEW S \in SUBSET Ids, NEW x \in Ids \ S,
           \A r \in S : R[r].body \in Bodies /\ Q[r].body = R[r].body,
           Q[x].body \in Bodies
    PROVE  Bytes(Q, S \cup {x}) = Bytes(R, S) + Size[Q[x].body]
<1>1. PICK T \in SUBSET Ids : T = S \cup {x}
    OBVIOUS
<1>2. \A r \in T : Q[r].body \in Bodies
    BY <1>1
<1>3. PICK f : f = Weights(Q, T)
    OBVIOUS
<1>4. f \in [Ids -> Nat] /\ Weighs(f, Q, T)
    BY <1>2, <1>3, WeightsWeigh
<1>5. Bytes(Q, T) = Parts(f)[T]
    BY <1>4, BytesAddUp, IdsFinite
<1>6. T \ {x} = S /\ x \in T
    BY <1>1
<1>7. Parts(f)[T] = f[x] + Parts(f)[S]
    BY <1>4, <1>6, PartsTakeAny, IdsFinite
<1>8. Weighs(f, R, S)
    BY <1>1, <1>4 DEF Weighs
<1>9. Bytes(R, S) = Parts(f)[S]
    BY <1>4, <1>8, BytesAddUp, IdsFinite
<1>10. f[x] = Size[Q[x].body] /\ f[x] \in Nat
    BY <1>4, <1>6 DEF Weighs
<1>11. Parts(f) \in [SUBSET Ids -> Nat]
    BY <1>4, PartsAddUp, IdsFinite
<1>12. Parts(f)[S] \in Nat
    BY <1>11
<1> QED
    BY <1>1, <1>5, <1>7, <1>9, <1>10, <1>12

-----------------------------------------------------------------------------
(* The quota.                                                              *)

LEMMA LargestThere ==
    /\ LargestReport \in Nat
    /\ \A b \in Bodies : Size[b] \in Nat /\ Size[b] <= LargestReport
<1> DEFINE odd == {s \in SUBSET Bodies : s # {} /\ ~\E x \in s : \A y \in s : Size[y] <= Size[x]}
<1>0. \A b \in Bodies : Size[b] \in Nat
    BY ReportAssumption
<1>1. odd = {}
    <2>1. SUFFICES ASSUME odd # {} PROVE FALSE
        OBVIOUS
    <2>2. PICK s \in odd : \A x \in s : s \ {x} \notin odd
        <3>1. odd \in SUBSET SUBSET Bodies /\ IsFiniteSet(Bodies)
            BY ReportAssumption
        <3> HIDE DEF odd
        <3> QED
            BY <2>1, <3>1, SmallestPart
    <2>3. s \in SUBSET Bodies /\ s # {} /\ ~\E x \in s : \A y \in s : Size[y] <= Size[x]
        BY <2>2
    <2>4. PICK x : x \in s
        BY <2>3
    <2>5. PICK t : t = s \ {x}
        OBVIOUS
    <2>6. t \in SUBSET Bodies /\ t \notin odd /\ \A y \in s : y = x \/ y \in t
        BY <2>2, <2>3, <2>4, <2>5
    <2>7. CASE t = {}
        <3>1. \A y \in s : Size[y] <= Size[x]
            BY <1>0, <2>3, <2>6, <2>7
        <3> QED
            BY <2>3, <2>4, <3>1
    <2>8. CASE t # {}
        <3>1. PICK z \in t : \A y \in t : Size[y] <= Size[z]
            BY <2>6, <2>8
        <3>2. z \in s /\ Size[z] \in Nat /\ Size[x] \in Nat /\ \A y \in t : Size[y] \in Nat
            BY <1>0, <2>3, <2>4, <2>5, <2>6
        <3>3. CASE Size[x] <= Size[z]
            BY <2>3, <2>6, <3>1, <3>2, <3>3
        <3>4. CASE ~(Size[x] <= Size[z])
            <4>1. \A y \in s : Size[y] <= Size[x]
                BY <2>6, <3>1, <3>2, <3>4
            <4> QED
                BY <2>3, <2>4, <4>1
        <3> QED
            BY <3>3, <3>4
    <2> QED
        BY <2>7, <2>8
<1>2. PICK z \in Bodies : \A y \in Bodies : Size[y] <= Size[z]
    <2>1. Bodies \notin odd /\ Bodies # {}
        BY <1>1, ReportAssumption
    <2> QED
        BY <2>1
<1>3. PICK S : S = {Size[b] : b \in Bodies}
    OBVIOUS
<1>4. \E x \in S : \A y \in S : x >= y
    BY <1>0, <1>2, <1>3
<1>5. Max(S) \in S /\ \A y \in S : Max(S) >= y
    BY <1>4 DEF Max
<1>6. LargestReport = Max(S)
    BY <1>3 DEF LargestReport
<1>7. LargestReport \in Nat
    BY <1>0, <1>3, <1>5, <1>6
<1>8. \A b \in Bodies : Size[b] <= LargestReport
    BY <1>0, <1>3, <1>5, <1>6, <1>7
<1> QED
    BY <1>0, <1>7, <1>8

\* What may still come into a library of b bytes: the reports C, of the sizes z.
\* One of them was let in when there was room for it; for each of the others the
\* ceiling c has room for a report as large as can be.
WithRoom(b, c, C, z) ==
    /\ b <= c
    /\ C # {} => \E s \in C : b + z[s] + (Cardinality(C) - 1) * LargestReport <= c

LEMMA TimesGrow == \A m, n, d \in Nat : m <= n => m * d <= n * d
OBVIOUS

LEMMA TimesOneLess == \A n, d \in Nat : n > 0 => (n - 1) * d + d = n * d
OBVIOUS

\* One of the reports ends, with its bytes in the library or without.
LEMMA OneLeaves ==
    ASSUME NEW b \in Nat, NEW c \in Nat, NEW C, IsFiniteSet(C), NEW z, NEW s \in C,
           \A x \in C : z[x] \in 0..LargestReport,
           WithRoom(b, c, C, z), NEW d \in {0, z[s]}
    PROVE  WithRoom(b + d, c, C \ {s}, z)
<1>1. PICK M \in Nat : M = LargestReport
    BY LargestThere
<1>2. \A x \in C : z[x] \in Nat /\ z[x] <= M
    BY <1>1
<1>3. PICK n \in Nat : n = Cardinality(C)
    BY FS_CardinalityType
<1>4. Cardinality(C \ {s}) = n - 1 /\ n - 1 \in Nat
    <2>1. C \ {s} \subseteq C /\ Cardinality(C \ {s}) = n - 1
        BY <1>3, FS_RemoveElement
    <2>2. Cardinality(C \ {s}) \in Nat
        BY <2>1, FS_Subset, FS_CardinalityType
    <2> QED
        BY <2>1, <2>2
<1>5. PICK t \in C : b + z[t] + (n - 1) * M <= c
    BY <1>1, <1>3 DEF WithRoom
<1>6. z[s] \in Nat /\ z[s] <= M /\ z[t] \in Nat /\ z[t] <= M /\ d \in Nat /\ d <= z[s]
    BY <1>2, <1>5
<1>7. PICK p \in Nat : p = (n - 1) * M
    BY <1>4
<1>8. b + z[t] + p <= c
    BY <1>5, <1>7
<1>9. CASE C \ {s} = {}
    <2>1. t = s
        BY <1>5, <1>9
    <2>2. b + d <= c
        BY <1>6, <1>8, <2>1
    <2> QED
        BY <1>9, <2>2 DEF WithRoom
<1>10. CASE C \ {s} # {}
    <2>1. n - 1 > 0
        <3>1. IsFiniteSet(C \ {s}) /\ Cardinality(C \ {s}) # 0
            BY <1>10, FS_Subset, FS_EmptySet
        <3> QED
            BY <1>4, <3>1
    <2>2. PICK q \in Nat : q = ((n - 1) - 1) * M
        BY <2>1
    <2>3. p = q + M
        BY <1>4, <1>7, <2>1, <2>2, TimesOneLess
    <2>4. PICK u \in C \ {s} : u = t \/ t = s
        BY <1>5, <1>10
    <2>5. z[u] \in Nat /\ z[u] <= M
        BY <1>2
    <2>6. (b + d) + z[u] + q <= c
        <3>1. CASE u = t
            BY <1>6, <1>8, <2>3, <3>1
        <3>2. CASE t = s
            BY <1>6, <1>8, <2>3, <2>5, <3>2
        <3> QED
            BY <2>4, <3>1, <3>2
    <2>7. b + d <= c
        BY <1>6, <2>5, <2>6
    <2> QED
        BY <1>1, <1>4, <2>2, <2>4, <2>6, <2>7 DEF WithRoom
<1> QED
    BY <1>9, <1>10

\* A report is let in: its bytes and those there are fit into the quota q.
LEMMA OneJoins ==
    ASSUME NEW b \in Nat, NEW q \in Nat, NEW C \in SUBSET Servers, NEW z, NEW s \in Servers \ C,
           z[s] \in Nat, b + z[s] <= q
    PROVE  WithRoom(b, q + (Cardinality(Servers) - 1) * LargestReport, C \cup {s}, z)
<1>1. PICK M \in Nat : M = LargestReport
    BY LargestThere
<1>2. PICK D \in SUBSET Servers : D = C \cup {s}
    OBVIOUS
<1>3. PICK N \in Nat : N = Cardinality(Servers)
    BY ReportAssumption, FS_CardinalityType
<1>4. IsFiniteSet(D) /\ Cardinality(D) <= N
    BY <1>3, ReportAssumption, FS_Subset
<1>5. PICK n \in Nat : n = Cardinality(D)
    BY <1>4, FS_CardinalityType
<1>6. n # 0
    BY <1>2, <1>4, <1>5, FS_EmptySet
<1>7. n - 1 \in Nat /\ N - 1 \in Nat /\ n - 1 <= N - 1
    BY <1>4, <1>5, <1>6
<1>8. (n - 1) * M <= (N - 1) * M /\ (n - 1) * M \in Nat /\ (N - 1) * M \in Nat
    BY <1>7, TimesGrow
<1>9. PICK p, r \in Nat : p = (n - 1) * M /\ r = (N - 1) * M
    BY <1>8
<1>10. b + z[s] + p <= q + r /\ b <= q + r
    BY <1>8, <1>9
<1>11. s \in D
    BY <1>2
<1> QED
    BY <1>1, <1>2, <1>3, <1>5, <1>9, <1>10, <1>11 DEF WithRoom

\* Fewer bytes, and the same reports.
LEMMA LessFits ==
    ASSUME NEW a \in Nat, NEW b \in Nat, NEW c \in Nat, a <= b, NEW C, IsFiniteSet(C), NEW z, NEW y,
           \A x \in C : z[x] \in Nat /\ y[x] = z[x],
           WithRoom(b, c, C, z)
    PROVE  WithRoom(a, c, C, y)
<1>1. PICK M \in Nat : M = LargestReport
    BY LargestThere
<1>2. PICK n \in Nat : n = Cardinality(C)
    BY FS_CardinalityType
<1>3. a <= c
    BY DEF WithRoom
<1>4. CASE C = {}
    BY <1>3, <1>4 DEF WithRoom
<1>5. CASE C # {}
    <2>1. PICK t \in C : b + z[t] + (n - 1) * M <= c
        BY <1>1, <1>2, <1>5 DEF WithRoom
    <2>2. PICK p \in Int : p = (n - 1) * M
        OBVIOUS
    <2>3. a + y[t] + p <= c
        BY <2>1, <2>2
    <2> QED
        BY <1>1, <1>2, <1>3, <2>2, <2>3 DEF WithRoom
<1> QED
    BY <1>4, <1>5

\* Let in by the quota, and not stored yet.
Passed == {"case", "new_case", "key", "lookup", "insert", "lock", "recount", "claim"}

Coming(l) == {s \in Servers : task[s].pc \in Passed /\ Library(s) = l}

Ceiling(l) == Quota[l] + (Cardinality(Servers) - 1) * LargestReport

Sizes == [s \in Servers |-> Size[task[s].body]]

RoomLeft(l) == WithRoom(BytesOf(l), Ceiling(l), Coming(l), Sizes)

QuotaInv == \A l \in Libraries : RoomLeft(l)

LEMMA CeilingIsNatural == \A l \in Libraries : Ceiling(l) \in Nat
<1>1. PICK N \in Nat : N = Cardinality(Servers)
    BY ReportAssumption, FS_CardinalityType
<1>2. N # 0
    BY <1>1, ReportAssumption, FS_EmptySet
<1>3. PICK M \in Nat : M = LargestReport
    BY LargestThere
<1>4. (N - 1) * M \in Nat
    BY <1>2, TimesGrow
<1>5. \A l \in Libraries : Quota[l] \in Nat
    BY ReportAssumption
<1> QED
    BY <1>1, <1>3, <1>4, <1>5 DEF Ceiling

LEMMA ComingAreSized ==
    ASSUME ReportInv, NEW l
    PROVE  /\ IsFiniteSet(Coming(l)) /\ Coming(l) \in SUBSET Servers
           /\ \A s \in Coming(l) : /\ Sizes[s] = Size[task[s].body]
                                   /\ Sizes[s] \in 0..LargestReport
<1>1. Coming(l) \in SUBSET Servers
    BY DEF Coming
<1>2. IsFiniteSet(Coming(l))
    BY <1>1, ReportAssumption, FS_Subset
<1>3. \A s \in Coming(l) : task[s].body \in Bodies
    BY DEF Coming, Passed, ReportInv, ReportHasBody
<1>4. \A s \in Coming(l) : Sizes[s] = Size[task[s].body]
    BY <1>1 DEF Sizes
<1>5. \A s \in Coming(l) : Size[task[s].body] \in 0..LargestReport
    BY <1>3, LargestThere
<1> QED
    BY <1>1, <1>2, <1>4, <1>5

LEMMA RowsHaveBodies ==
    ASSUME TypeOK
    PROVE  \A l : /\ RowsOf(l) \in SUBSET Ids
                  /\ \A r \in RowsOf(l) : records[r].body \in Bodies
BY DEF TypeOK, RowsOf, Exists, Row

LEMMA BytesOfRows ==
    ASSUME NEW l
    PROVE  BytesOf(l) = Bytes(records, RowsOf(l)) /\ BytesOf(l)' = Bytes(records', RowsOf(l)')
<1>1. BytesOf(l) = Bytes(records, RowsOf(l))
    BY DEF BytesOf, Bytes
<1>2. BytesOf(l)' = Bytes(records', RowsOf(l)')
    BY DEF BytesOf, Bytes, MapThenSumSet, MapThenFoldSet
<1> QED
    BY <1>1, <1>2

LEMMA BytesOfIsNatural ==
    ASSUME TypeOK, NEW l
    PROVE  BytesOf(l) \in Nat
BY RowsHaveBodies, BytesOfRows, BytesAreNatural

\* The same rows, the same bytes.
LEMMA BytesStay ==
    ASSUME records' = records, NEW l
    PROVE  BytesOf(l)' = BytesOf(l)
<1>1. RowsOf(l)' = RowsOf(l)
    BY DEF RowsOf, Exists
<1>2. BytesOf(l)' = Bytes(records', RowsOf(l)') /\ BytesOf(l) = Bytes(records, RowsOf(l))
    BY BytesOfRows
<1> QED
    BY <1>1, <1>2

LEMMA StoreBytes ==
    ASSUME ReportInv, ReportInv', CountInv, NEW s \in Servers, task[s].pc = "claim",
           Commit(s, TRUE, task[s].id), NEW l
    PROVE  BytesOf(l)' = IF l = Library(s) THEN BytesOf(l) + Size[task[s].body] ELSE BytesOf(l)
<1>1. PICK x \in Ids : x = task[s].id
    BY DEF ReportInv, TypeOK, WorkingHasId, Working
<1>2. PICK b \in Bodies : b = task[s].body
    BY DEF ReportInv, ReportHasBody
<1>3. ~Exists(x)
    BY <1>1 DEF CountInv, Uncommitted, Storing
<1>4. PICK row : row = [key |-> task[s].key, body |-> b]
    OBVIOUS
<1>5. records' = [records EXCEPT ![x] = row]
    BY <1>1, <1>2, <1>4 DEF Commit
<1>6. records'[x] = row /\ \A r \in Ids \ {x} : records'[r] = records[r]
    BY <1>5 DEF ReportInv, TypeOK
<1>7. row.body = b /\ row # NoRow
    BY <1>2, <1>4, ReportAssumption DEF NoRow
<1>8. BytesOf(l)' = Bytes(records', RowsOf(l)') /\ BytesOf(l) = Bytes(records, RowsOf(l))
    BY BytesOfRows
<1>9. PICK R, Q, S, T : R = records /\ Q = records' /\ S = RowsOf(l) /\ T = RowsOf(l)'
    OBVIOUS
<1>10. S \in SUBSET Ids /\ x \notin S /\ \A r \in S : R[r].body \in Bodies
    BY <1>3, <1>9, RowsHaveBodies DEF ReportInv, RowsOf
<1>11. \A r \in S : Q[r].body = R[r].body
    BY <1>6, <1>9, <1>10
<1>12. Library(s) = LibraryOf[b]
    BY <1>2 DEF Library
<1>13. T = {r \in Ids : Q[r] # NoRow /\ LibraryOf[Q[r].body] = l}
    BY <1>9 DEF RowsOf, Exists
<1>14. S = {r \in Ids : R[r] # NoRow /\ LibraryOf[R[r].body] = l}
    BY <1>9 DEF RowsOf, Exists
<1>15. Q[x] = row /\ \A r \in Ids \ {x} : Q[r] = R[r]
    BY <1>6, <1>9
<1>16. CASE l = Library(s)
    <2>1. T = S \cup {x}
        BY <1>7, <1>10, <1>12, <1>13, <1>14, <1>15, <1>16
    <2>2. Q[x].body \in Bodies /\ Q[x].body = b
        BY <1>7, <1>15
    <2>3. Bytes(Q, S \cup {x}) = Bytes(R, S) + Size[Q[x].body]
        BY <1>10, <1>11, <2>2, OneRowMore
    <2> QED
        BY <1>2, <1>8, <1>9, <1>16, <2>1, <2>2, <2>3
<1>17. CASE l # Library(s)
    <2>1. T = S
        BY <1>7, <1>10, <1>12, <1>13, <1>14, <1>15, <1>17
    <2>2. Bytes(Q, S) = Bytes(R, S)
        BY <1>10, <1>11, SameBodies
    <2> QED
        BY <1>8, <1>9, <1>17, <2>1, <2>2
<1> QED
    BY <1>16, <1>17

LEMMA RemoveBytes ==
    ASSUME ReportInv, ReportInv', NEW x \in Ids, Remove(x), NEW l
    PROVE  BytesOf(l)' <= BytesOf(l)
<1>1. records'[x] = NoRow /\ \A r \in Ids \ {x} : records'[r] = records[r]
    BY DEF Remove, ReportInv, TypeOK
<1>2. PICK R, Q, S, T : R = records /\ Q = records' /\ S = RowsOf(l) /\ T = RowsOf(l)'
    OBVIOUS
<1>3. BytesOf(l)' = Bytes(Q, T) /\ BytesOf(l) = Bytes(R, S)
    BY <1>2, BytesOfRows
<1>4. S \in SUBSET Ids /\ \A r \in S : R[r].body \in Bodies
    BY <1>2, RowsHaveBodies DEF ReportInv
<1>5. T = {r \in Ids : Q[r] # NoRow /\ LibraryOf[Q[r].body] = l}
    BY <1>2 DEF RowsOf, Exists
<1>6. S = {r \in Ids : R[r] # NoRow /\ LibraryOf[R[r].body] = l}
    BY <1>2 DEF RowsOf, Exists
<1>7. T = S \ {x} /\ \A r \in T : Q[r].body = R[r].body /\ Q[r].body \in Bodies
    BY <1>1, <1>2, <1>4, <1>5, <1>6
<1>8. Bytes(Q, T) \in Nat
    BY <1>4, <1>7, BytesAreNatural
<1>9. CASE x \notin S
    <2>1. T = S
        BY <1>7, <1>9
    <2>2. Bytes(Q, S) = Bytes(R, S)
        BY <1>4, <1>7, <2>1, SameBodies
    <2> QED
        BY <1>3, <1>8, <2>1, <2>2
<1>10. CASE x \in S
    <2>1. S = T \cup {x} /\ T \in SUBSET Ids /\ x \in Ids \ T
        BY <1>4, <1>7, <1>10
    <2>2. \A r \in T : Q[r].body \in Bodies /\ R[r].body = Q[r].body
        BY <1>7
    <2>3. R[x].body \in Bodies
        BY <1>4, <1>10
    <2>4. Bytes(R, T \cup {x}) = Bytes(Q, T) + Size[R[x].body]
        BY <2>1, <2>2, <2>3, OneRowMore
    <2>5. Size[R[x].body] \in Nat
        BY <2>3, ReportAssumption
    <2> QED
        BY <1>3, <1>8, <2>1, <2>4, <2>5
<1> QED
    BY <1>9, <1>10

\* One server's step: its report comes no nearer, or ends, or is let in.
LEMMA StepRoom ==
    ASSUME ReportInv, ReportInv', QuotaInv, NEW s \in Servers, NEW l \in Libraries,
           \A x \in Servers : x # s => task'[x] = task[x],
           \/ /\ BytesOf(l)' = BytesOf(l)
              /\ s \in Coming(l)' => s \in Coming(l) /\ task'[s].body = task[s].body
           \/ /\ s \in Coming(l) /\ s \notin Coming(l)'
              /\ BytesOf(l)' = BytesOf(l) + Size[task[s].body]
           \/ /\ s \notin Coming(l) /\ s \in Coming(l)' /\ BytesOf(l)' = BytesOf(l)
              /\ BytesOf(l) + Size[task'[s].body] <= Quota[l]
    PROVE  RoomLeft(l)'
<1>1. PICK b, a, c, C, D, y, z : /\ b = BytesOf(l) /\ a = BytesOf(l)' /\ c = Ceiling(l)
                                 /\ C = Coming(l) /\ D = Coming(l)' /\ z = Sizes /\ y = Sizes'
    OBVIOUS
<1>2. b \in Nat /\ c \in Nat /\ IsFiniteSet(C) /\ C \in SUBSET Servers
    BY <1>1, BytesOfIsNatural, CeilingIsNatural, ComingAreSized DEF ReportInv
<1>3. \A x \in C : z[x] = Size[task[x].body] /\ z[x] \in 0..LargestReport
    BY <1>1, ComingAreSized
<1>4. WithRoom(b, c, C, z)
    BY <1>1 DEF QuotaInv, RoomLeft
<1>5. D \in SUBSET Servers /\ \A x \in D : y[x] = Size[task'[x].body]
    BY <1>1 DEF Coming, Sizes
<1>6. \A x \in D : task'[x].body \in Bodies
    BY <1>1 DEF Coming, Passed, ReportInv, ReportHasBody
<1>7. \A x \in D : y[x] \in Nat
    BY <1>5, <1>6, LargestThere
<1>8. \A x \in Servers \ {s} : x \in D <=> x \in C
    BY <1>1 DEF Coming, Library
<1>9. \A x \in D \ {s} : x \in C /\ y[x] = z[x]
    BY <1>3, <1>5, <1>8
<1>10. SUFFICES WithRoom(a, c, D, y)
    BY <1>1 DEF RoomLeft, Ceiling
<1>11. LargestReport \in Nat
    BY LargestThere
<1>12. CASE s \in D /\ s \in C /\ task'[s].body = task[s].body /\ a = b
    <2>1. D = C
        <3>1. \A x \in Servers : x \in D <=> x \in C
            BY <1>8, <1>12
        <3> QED
            BY <1>2, <1>5, <3>1
    <2>2. \A x \in D : z[x] \in Nat /\ y[x] = z[x]
        BY <1>3, <1>5, <1>7, <1>9, <1>12
    <2> QED
        BY <1>2, <1>4, <1>12, <2>1, <2>2, LessFits
<1>13. CASE s \notin D /\ s \notin C /\ a = b
    <2>1. D = C
        <3>1. \A x \in Servers : x \in D <=> x \in C
            BY <1>8, <1>13
        <3> QED
            BY <1>2, <1>5, <3>1
    <2>2. \A x \in D : z[x] \in Nat /\ y[x] = z[x]
        BY <1>7, <1>9, <1>13
    <2> QED
        BY <1>2, <1>4, <1>13, <2>1, <2>2, LessFits
<1>14. CASE s \notin D /\ s \in C /\ a \in {b, b + z[s]}
    <2>1. D = C \ {s}
        BY <1>2, <1>5, <1>8, <1>14
    <2>2. PICK d \in {0, z[s]} : a = b + d
        BY <1>2, <1>14
    <2>3. WithRoom(b + d, c, C \ {s}, z)
        BY <1>2, <1>3, <1>4, <1>14, OneLeaves
    <2>4. a \in Nat /\ IsFiniteSet(D)
        <3>1. z[s] \in Nat
            BY <1>3, <1>11, <1>14
        <3> QED
            BY <1>2, <2>1, <2>2, <3>1, FS_Subset
    <2>5. \A x \in D : z[x] \in Nat /\ y[x] = z[x]
        BY <1>7, <1>9, <1>14
    <2>6. WithRoom(a, c, D, z)
        BY <2>1, <2>2, <2>3
    <2> QED
        BY <1>2, <2>4, <2>5, <2>6, LessFits
<1>15. CASE s \in D /\ s \notin C /\ a = b /\ b + y[s] <= Quota[l]
    <2>1. D = C \cup {s}
        BY <1>2, <1>5, <1>8, <1>15
    <2>2. Quota[l] \in Nat /\ y[s] \in Nat
        BY <1>7, <1>15, ReportAssumption
    <2>3. WithRoom(b, Quota[l] + (Cardinality(Servers) - 1) * LargestReport, C \cup {s}, y)
        BY <1>2, <1>15, <2>2, OneJoins
    <2> QED
        BY <1>1, <1>15, <2>1, <2>3 DEF Ceiling
<1>16. \/ a = b /\ (s \in D => s \in C /\ task'[s].body = task[s].body)
       \/ s \in C /\ s \notin D /\ a = b + z[s]
       \/ s \notin C /\ s \in D /\ a = b /\ b + y[s] <= Quota[l]
    BY <1>1, <1>3, <1>5
<1> QED
    BY <1>12, <1>13, <1>14, <1>15, <1>16

\* A report that is let in or stays so.
LEMMA PassMoves ==
    ASSUME ReportInv, NEW s \in Servers,
           \/ Step(s) \/ Fail(s)
           \/ \E k \in Keys \cup {NoKey}, b \in Bodies : Report(s, k, b)
    PROVE  task'[s].pc \in Passed =>
               /\ task'[s].body = task[s].body
               /\ task[s].pc \notin Passed =>
                     /\ CheckQuota(s)
                     /\ BytesOf(Library(s)) + Size[task[s].body] <= Quota[Library(s)]
<1>1. task \in [Servers -> Task] /\ task[s] \in Task
    BY DEF ReportInv, TypeOK
<1>2. Idle.pc \notin Passed
    BY DEF Idle, Passed
<1>3. ASSUME NEW k \in Keys \cup {NoKey}, NEW b \in Bodies, Report(s, k, b)
      PROVE  task'[s].pc \notin Passed
    <2>1. task'[s].pc = "quota"
        BY <1>1, <1>3 DEF Report, Idle
    <2> QED
        BY <2>1 DEF Passed
<1>4. CASE Fail(s) \/ Answer(s)
    BY <1>1, <1>2, <1>4 DEF Fail, GiveUp, Answer
<1>5. CASE CheckQuota(s)
    <2>1. CASE BytesOf(Library(s)) + Size[task[s].body] <= Quota[Library(s)]
        <3>1. task' = [task EXCEPT ![s] = [@ EXCEPT !.pc = "case"]]
            BY <1>5, <2>1 DEF CheckQuota
        <3>2. task'[s].body = task[s].body
            BY <1>1, <3>1 DEF Task
        <3> QED
            BY <1>5, <2>1, <3>2
    <2>2. CASE ~(BytesOf(Library(s)) + Size[task[s].body] <= Quota[Library(s)])
        <3>1. task'[s] = Idle
            BY <1>1, <1>5, <2>2 DEF CheckQuota
        <3> QED
            BY <1>2, <3>1
    <2> QED
        BY <2>1, <2>2
<1>6. CASE FindCase(s) \/ NewCase(s) \/ ReadKey(s) \/ Lookup(s) \/ Insert(s) \/ Lock(s) \/ Recount(s)
    <2>1. task[s].pc \in Passed
        BY <1>6 DEF FindCase, NewCase, ReadKey, Lookup, Insert, Lock, Recount, Passed
    <2>2. task'[s] = Idle \/ task'[s].body = task[s].body
        <3>1. CASE FindCase(s) \/ NewCase(s) \/ Lock(s) \/ Recount(s)
            BY <1>1, <3>1 DEF FindCase, NewCase, Lock, Recount, Goto, Task
        <3>2. CASE ReadKey(s)
            BY <1>1, <3>2 DEF ReadKey, Task
        <3>3. CASE Lookup(s)
            BY <1>1, <3>3 DEF Lookup, Task
        <3>4. CASE Insert(s)
            BY <1>1, <3>4 DEF Insert, GiveUp, Goto, Task
        <3> QED
            BY <1>6, <3>1, <3>2, <3>3, <3>4
    <2> QED
        BY <1>2, <2>1, <2>2
<1>7. CASE Claim(s)
    <2>1. GiveUp(s) \/ \E stored \in BOOLEAN : \E id : Commit(s, stored, id)
        BY <1>7 DEF Claim
    <2>2. GiveUp(s) => task'[s] = Idle
        BY <1>1 DEF GiveUp
    <2>3. ASSUME NEW stored \in BOOLEAN, NEW id, Commit(s, stored, id)
          PROVE  task'[s].pc = "answer"
        BY <1>1, <2>3 DEF Commit, Task
    <2> QED
        BY <1>2, <2>1, <2>2, <2>3 DEF Passed
<1> QED
    BY <1>3, <1>4, <1>5, <1>6, <1>7 DEF Step

LEMMA StepQuota ==
    ASSUME ReportInv, ReportInv', CountInv, QuotaInv, NEW s \in Servers,
           \/ Step(s) \/ Fail(s)
           \/ \E k \in Keys \cup {NoKey}, b \in Bodies : Report(s, k, b)
    PROVE  QuotaInv'
<1>0. SUFFICES ASSUME NEW l \in Libraries PROVE RoomLeft(l)'
    BY DEF QuotaInv
<1>1. \A x \in Servers : x # s => task'[x] = task[x]
    BY StepMoves
<1>2. CASE records' = records
    <2>1. BytesOf(l)' = BytesOf(l)
        BY <1>2, BytesStay
    <2>2. CASE s \in Coming(l)' /\ s \notin Coming(l)
        <3>1. task'[s].pc \in Passed /\ LibraryOf[task'[s].body] = l
            BY <2>2 DEF Coming, Library
        <3>2. task'[s].body = task[s].body
            BY <3>1, PassMoves
        <3>3. Library(s) = l
            BY <3>1, <3>2 DEF Library
        <3>4. task[s].pc \notin Passed
            BY <2>2, <3>3 DEF Coming
        <3>5. BytesOf(l) + Size[task'[s].body] <= Quota[l]
            BY <3>1, <3>2, <3>3, <3>4, PassMoves
        <3> QED
            BY <1>1, <2>1, <2>2, <3>5, StepRoom
    <2>3. CASE s \in Coming(l)' => s \in Coming(l)
        <3>1. s \in Coming(l)' => task'[s].pc \in Passed
            BY DEF Coming
        <3>2. s \in Coming(l)' => s \in Coming(l) /\ task'[s].body = task[s].body
            BY <2>3, <3>1, PassMoves
        <3> QED
            BY <1>1, <2>1, <3>2, StepRoom
    <2> QED
        BY <2>2, <2>3
<1>3. CASE records' # records
    <2>1. Claim(s)
        BY <1>3 DEF Step, Fail, GiveUp, Report, CheckQuota, FindCase, NewCase, ReadKey, Lookup,
           Insert, Lock, Recount, Answer, rest
    <2>2. task[s].pc = "claim"
        BY <2>1 DEF Claim
    <2>3. Commit(s, TRUE, task[s].id)
        <3>1. ASSUME NEW k \in Keys,
                     Commit(s, idempotency[k].id = task[s].id, idempotency[k].id)
              PROVE  Commit(s, TRUE, task[s].id)
            <4>1. idempotency[k].id = task[s].id
                BY <1>3, <3>1 DEF Commit
            <4>2. (idempotency[k].id = task[s].id) = TRUE
                BY <4>1
            <4> QED
                BY <3>1, <4>1, <4>2
        <3>2. task[s].key # NoKey => task[s].key \in Keys
            BY DEF ReportInv, TypeOK, Task
        <3>3. GiveUp(s) => records' = records
            BY DEF GiveUp
        <3> QED
            BY <1>3, <2>1, <3>1, <3>2, <3>3 DEF Claim
    <2>4. task'[s].pc \notin Passed
        BY <2>3 DEF Commit, Passed, ReportInv, TypeOK, Task
    <2>5. s \notin Coming(l)'
        BY <2>4 DEF Coming
    <2>6. BytesOf(l)' = IF l = Library(s) THEN BytesOf(l) + Size[task[s].body] ELSE BytesOf(l)
        BY <2>2, <2>3, StoreBytes
    <2>7. l = Library(s) => s \in Coming(l)
        BY <2>2 DEF Coming, Passed
    <2> QED
        BY <1>1, <2>5, <2>6, <2>7, StepRoom
<1> QED
    BY <1>2, <1>3

\* Less is there, or as much, and nobody has moved.
LEMMA BesideQuota ==
    ASSUME ReportInv, ReportInv', QuotaInv, task' = task,
           \A l : BytesOf(l)' <= BytesOf(l)
    PROVE  QuotaInv'
<1>0. SUFFICES ASSUME NEW l \in Libraries PROVE RoomLeft(l)'
    BY DEF QuotaInv
<1>1. Coming(l)' = Coming(l) /\ Sizes' = Sizes /\ Ceiling(l)' = Ceiling(l)
    BY DEF Coming, Sizes, Ceiling, Library
<1>2. PICK b, a, c, C, z : /\ b = BytesOf(l) /\ a = BytesOf(l)' /\ c = Ceiling(l)
                           /\ C = Coming(l) /\ z = Sizes
    OBVIOUS
<1>3. b \in Nat /\ c \in Nat /\ IsFiniteSet(C) /\ \A x \in C : z[x] \in 0..LargestReport
    BY <1>2, BytesOfIsNatural, CeilingIsNatural, ComingAreSized DEF ReportInv
<1>4. a \in Nat
    <2>1. BytesOf(l)' = Bytes(records', RowsOf(l)')
        BY BytesOfRows
    <2>2. RowsOf(l)' \in SUBSET Ids /\ \A r \in RowsOf(l)' : records'[r].body \in Bodies
        BY DEF ReportInv, TypeOK, RowsOf, Exists, Row
    <2> QED
        BY <1>2, <2>1, <2>2, BytesAreNatural
<1>5. WithRoom(b, c, C, z) /\ a <= b
    BY <1>2 DEF QuotaInv, RoomLeft
<1>6. WithRoom(a, c, C, z)
    BY <1>3, <1>4, <1>5, LessFits
<1> QED
    BY <1>1, <1>2, <1>6 DEF RoomLeft

LEMMA InitQuota == Init => QuotaInv
<1> SUFFICES ASSUME Init, NEW l \in Libraries PROVE RoomLeft(l)
    BY DEF QuotaInv
<1>1. RowsOf(l) = {}
    BY DEF Init, RowsOf, Exists
<1>2. Coming(l) = {}
    BY DEF Init, Coming, Passed, Idle
<1>3. BytesOf(l) = 0
    BY <1>1 DEF BytesOf, MapThenSumSet, MapThenFoldSet
<1> QED
    BY <1>2, <1>3, CeilingIsNatural DEF RoomLeft, WithRoom

LEMMA NextQuota == ReportInv /\ ReportInv' /\ CountInv /\ QuotaInv /\ [Next]_vars => QuotaInv'
<1> SUFFICES ASSUME ReportInv, ReportInv', CountInv, QuotaInv, [Next]_vars PROVE QuotaInv'
    OBVIOUS
<1>1. ASSUME NEW s \in Servers, NEW k \in Keys \cup {NoKey}, NEW b \in Bodies, Report(s, k, b)
      PROVE  QuotaInv'
    BY <1>1, StepQuota
<1>2. ASSUME NEW s \in Servers, Step(s) \/ Fail(s)
      PROVE  QuotaInv'
    BY <1>2, StepQuota
<1>3. ASSUME NEW r \in Ids, Remove(r)
      PROVE  QuotaInv'
    <2>1. task' = task
        BY <1>3 DEF Remove
    <2> QED
        BY <1>3, <2>1, RemoveBytes, BesideQuota
<1>4. CASE StartupCount \/ StartupWrite \/ UNCHANGED vars
    <2>1. records' = records /\ task' = task
        BY <1>4 DEF StartupCount, StartupWrite, vars, rest
    <2>2. \A l : BytesOf(l)' <= BytesOf(l)
        <3>1. \A l : BytesOf(l)' = BytesOf(l) /\ BytesOf(l) \in Nat
            BY <2>1, BytesStay, BytesOfIsNatural DEF ReportInv
        <3> QED
            BY <3>1
    <2> QED
        BY <2>1, <2>2, BesideQuota
<1> QED
    BY <1>1, <1>2, <1>3, <1>4 DEF Next

LEMMA QuotaInvariant == Spec => []QuotaInv
BY InitQuota, NextQuota, ReportsInvariant, CountsInvariant, PTL DEF Spec

-----------------------------------------------------------------------------
(* The theorems.                                                           *)

\* The state of one report and its repetitions has its type.
THEOREM ReportsTypeCorrect == Spec => []TypeOK
<1>1. ReportInv => TypeOK
    BY DEF ReportInv
<1> QED
    BY <1>1, ReportsInvariant, PTL

\* At most one record is stored under a key (db.py:1342-1378), however many
\* processes report it at once and whatever fails or is deleted meanwhile.
THEOREM OneRecord == Spec => []OneRecordPerKey
<1>1. ReportInv => OneRecordPerKey
    <2> SUFFICES ASSUME ReportInv, NEW r \in Ids, NEW x \in Ids, Exists(r), Exists(x),
                        records[r].key = records[x].key, records[r].key # NoKey
                 PROVE  r = x
        BY DEF OneRecordPerKey
    <2>1. records[r].key \in Keys
        BY DEF ReportInv, TypeOK, Exists, Row
    <2> QED
        BY <2>1 DEF ReportInv, RecordIsClaimed
<1> QED
    BY <1>1, ReportsInvariant, PTL

\* All who repeat a report are told one record (mcp_tool_service.py:761-786,
\* db.py:1361-1378).
THEOREM OneAnswer == Spec => []AnswersAgree
<1>1. ReportInv => AnswersAgree
    BY DEF ReportInv, AnsweredIsClaim, AnswersAgree
<1> QED
    BY <1>1, ReportsInvariant, PTL

\* An id never comes to name another text, although a deleted record's id is
\* stored again (db.py:1271-1275).
THEOREM OneText == Spec => []IdNamesOneText
<1>1. ReportInv => IdNamesOneText
    BY DEF ReportInv
<1> QED
    BY <1>1, ReportsInvariant, PTL

\* The counter of a library that nobody writes and that has not drifted is the
\* number of its rows (db.py:1342-1352): the lock on the library's row makes what
\* a transaction has counted true until it commits.
THEOREM CountersFollow == Spec => []CounterFollows
<1>1. ReportInv /\ CountInv => CounterFollows
    <2> SUFFICES ASSUME ReportInv, CountInv, NEW l \in Libraries, lock[l] = Nobody,
                        l \notin drifted
                 PROVE  counter[l] = Cardinality(RowsOf(l))
        BY DEF CounterFollows
    <2>1. \A s \in Servers : ~Counts(s, l)
        BY ReportAssumption DEF CountInv, LockHeld, Counts, Counting
    <2> QED
        BY <2>1 DEF CountInv, Counted
<1> QED
    BY <1>1, ReportsInvariant, CountsInvariant, PTL

\* A title never has more cases than there are server processes, although the
\* look-up and the INSERT are two transactions (db.py:1673).
THEOREM CasesAreBounded == Spec => []CasesBounded
<1>1. Init => CasesInv
    BY DEF Init, CasesInv
<1>2. ReportInv /\ CasesInv => CasesBounded
    BY NewCasesFinite DEF ReportInv, TypeOK, CasesInv, CasesBounded
<1> QED
    BY <1>1, <1>2, NextCases, ReportsInvariant, PTL DEF Spec

\* A library never holds more than its quota and one largest report of each other
\* process, although the rows are summed in one transaction and the record is
\* stored in another (storage_quota_service.py:165); nor a title more cases than
\* there are processes.
THEOREM OvershootIsBounded == Spec => []OvershootBounded
<1>1. ASSUME QuotaInv
      PROVE  QuotaOvershoot
    BY <1>1 DEF QuotaInv, RoomLeft, WithRoom, Ceiling, QuotaOvershoot
<1>2. QuotaInv /\ CasesBounded => OvershootBounded
    BY <1>1 DEF OvershootBounded
<1> QED
    BY <1>2, QuotaInvariant, CasesAreBounded, PTL

=============================================================================
