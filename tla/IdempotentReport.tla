-------------------------- MODULE IdempotentReport --------------------------
(***************************************************************************)
(* One report and its repetitions: the quota check, the case, the look-up  *)
(* of the idempotency key and the transaction of db.insert_record, while   *)
(* the same or another report runs in the other server process and records *)
(* are deleted.                                                            *)
(*                                                                         *)
(* A process runs one report at a time (mcp_post calls the tool on its     *)
(* event loop), so reports race across processes.  PostgreSQL runs the     *)
(* transaction under READ COMMITTED: each statement sees what is committed *)
(* when it starts, and the transaction's own rows; what it writes is in    *)
(* task until it commits.  The first UPDATE of the library's row makes the *)
(* reports of one library wait for one another.  What a library holds is   *)
(* abstracted to a size for each body of a report; all reports come from   *)
(* one principal, who owns the libraries, and ask for one case title.  A   *)
(* deletion is final: the trash is in RecordLifecycle.                     *)
(***************************************************************************)
EXTENDS Integers, FiniteSets, FiniteSetsExt

CONSTANTS
    Servers,    \* server processes
    Ids,        \* the record ids new_id("vk") may generate
    NoId,       \* no record, no body
    Keys,       \* idempotency keys
    NoKey,      \* a report without a key
    Bodies,     \* payloads, told apart by their hash
    Libraries,
    LibraryOf,  \* the library a payload is written to
    Size,       \* record_content_bytes of a payload
    Quota,      \* personal_library_quota_bytes of a library
    Nobody,     \* no server
    MaxReports  \* bound on the calls of ma3_report

ASSUME ReportAssumption ==
    /\ NoId \notin Ids \cup Bodies
    /\ NoKey \notin Keys
    /\ Nobody \notin Servers
    /\ LibraryOf \in [Bodies -> Libraries]
    /\ Size \in [Bodies -> Nat]
    /\ Quota \in [Libraries -> Nat]
    /\ MaxReports \in Nat
    /\ Servers # {} /\ IsFiniteSet(Servers) /\ IsFiniteSet(Ids)
    /\ Bodies # {} /\ IsFiniteSet(Bodies)      \* they have max_record_bytes at most

VARIABLES
    records,    \* table records: NoRow, or the key and the body reported
    idempotency,\* table report_idempotency: the record and the body of a key
    counter,    \* libraries.active_record_count
    cases,      \* how many rows table cases has for the title
    lock,       \* who has an uncommitted UPDATE of a library's row
    task,       \* what each server does
    reports,    \* calls so far
    boot,       \* what a starting process has counted and not written yet
    born,       \* history: the ids generated so far
    text,       \* history: the body first stored under an id
    answered,   \* history: the <<record, body>> pairs answered for a key
    drifted     \* history: the libraries whose rows changed since they were counted

history == <<born, text, answered, drifted>>
rest    == <<records, idempotency, counter, cases, lock, reports, boot, history>>
vars    == <<task, rest>>

-----------------------------------------------------------------------------

Row   == [key : Keys \cup {NoKey}, body : Bodies]
NoRow == [key |-> NoKey, body |-> NoId]

Exists(r) == records[r] # NoRow

\* The rows of a library that count (active, buffered, draft), and their bytes.
RowsOf(l)  == {r \in Ids : Exists(r) /\ LibraryOf[records[r].body] = l}
BytesOf(l) == MapThenSumSet(LAMBDA r : Size[records[r].body], RowsOf(l))

Claimed == [id : Ids \cup {NoId}, body : Bodies \cup {NoId}]
NoClaim == [id |-> NoId, body |-> NoId]

NotBooting == <<>>

Labels == {"idle", "quota", "case", "new_case", "key", "lookup", "insert", "lock",
           "recount", "claim", "answer"}

\* key, body: the call.  id: the record inserted, or answered.  count: what the
\* transaction wrote into active_record_count.  stale: the library had drifted
\* before that.
Task == [pc : Labels, key : Keys \cup {NoKey}, body : Bodies \cup {NoId},
         id : Ids \cup {NoId}, count : Nat, stale : BOOLEAN]

Idle == [pc |-> "idle", key |-> NoKey, body |-> NoId, id |-> NoId, count |-> 0,
         stale |-> FALSE]

Init ==
    /\ records = [r \in Ids |-> NoRow]
    /\ idempotency = [k \in Keys |-> NoClaim]
    /\ counter = [l \in Libraries |-> 0]
    /\ cases = 0
    /\ lock = [l \in Libraries |-> Nobody]
    /\ task = [s \in Servers |-> Idle]
    /\ reports = 0
    /\ boot = NotBooting
    /\ born = {}
    /\ text = [r \in Ids |-> NoId]
    /\ answered = [k \in Keys |-> {}]
    /\ drifted = {}

\* The library the report of s is for.
Library(s) == LibraryOf[task[s].body]

Goto(s, label) == task' = [task EXCEPT ![s].pc = label]

\* The transaction ends without a commit, or the request with an error.
GiveUp(s) ==
    /\ task' = [task EXCEPT ![s] = Idle]
    /\ lock' = [l \in Libraries |-> IF lock[l] = s THEN Nobody ELSE lock[l]]
    /\ drifted' = IF task[s].stale THEN drifted \cup {Library(s)} ELSE drifted
    /\ UNCHANGED <<records, idempotency, counter, cases, reports, born, text, answered, boot>>

-----------------------------------------------------------------------------
(* ma3_report up to insert_record.                                         *)

Report(s, k, b) ==
    /\ task[s].pc = "idle"
    /\ reports < MaxReports
    /\ reports' = reports + 1
    /\ task' = [task EXCEPT ![s] = [Idle EXCEPT !.pc = "quota", !.key = k, !.body = b]]
    /\ UNCHANGED <<records, idempotency, counter, cases, lock, boot, history>>

\* Mistake: the new record's own bytes are not counted.
CheckQuotaWithoutNew(s) ==
    /\ task[s].pc = "quota"
    /\ LET fits == BytesOf(Library(s)) <= Quota[Library(s)] IN
       task' = [task EXCEPT ![s] = IF fits THEN [@ EXCEPT !.pc = "case"] ELSE Idle]
    /\ UNCHANGED rest

\* assert_personal_library_write_allowed sums the rows in a transaction of its own.
CheckQuota(s) ==
    /\ task[s].pc = "quota"
    /\ LET fits == BytesOf(Library(s)) + Size[task[s].body] <= Quota[Library(s)] IN
       task' = [task EXCEPT ![s] = IF fits THEN [@ EXCEPT !.pc = "case"] ELSE Idle]
    /\ UNCHANGED rest

\* Mistake: the title is not looked up.
FindCaseNever(s) ==
    /\ task[s].pc = "case"
    /\ Goto(s, "new_case")
    /\ UNCHANGED rest

\* get_or_create_case: the SELECT.
FindCase(s) ==
    /\ task[s].pc = "case"
    /\ Goto(s, IF cases > 0 THEN "key" ELSE "new_case")
    /\ UNCHANGED rest

\* get_or_create_case: the INSERT; no key of the table forbids a second title.
NewCase(s) ==
    /\ task[s].pc = "new_case"
    /\ cases' = cases + 1
    /\ Goto(s, "key")
    /\ UNCHANGED <<records, idempotency, counter, lock, reports, boot, history>>

\* get_idempotent_report: a key known with another payload is refused, a known
\* report is answered whether its record is still there or not.
ReadKey(s) ==
    /\ task[s].pc = "key"
    /\ LET known == IF task[s].key = NoKey THEN NoClaim ELSE idempotency[task[s].key] IN
       task' = [task EXCEPT ![s] =
                  IF known = NoClaim THEN [@ EXCEPT !.pc = "lookup"]
                  ELSE IF known.body # task[s].body THEN Idle
                  ELSE [@ EXCEPT !.pc = "answer", !.id = known.id]]
    /\ UNCHANGED rest

-----------------------------------------------------------------------------
(* The transaction of insert_record.                                       *)

\* The look-up of the key.  When its record is gone, the new one takes its id.
Lookup(s) ==
    /\ task[s].pc = "lookup"
    /\ \E r \in Ids \ born :
          LET known == IF task[s].key = NoKey THEN NoClaim ELSE idempotency[task[s].key] IN
          /\ task' = [task EXCEPT ![s] =
                       IF known = NoClaim THEN [@ EXCEPT !.pc = "insert", !.id = r]
                       ELSE IF known.body # task[s].body THEN Idle
                       ELSE IF Exists(known.id) THEN [@ EXCEPT !.pc = "answer", !.id = known.id]
                       ELSE [@ EXCEPT !.pc = "insert", !.id = known.id]]
          /\ born' = born \cup {r}
    /\ UNCHANGED <<records, idempotency, counter, cases, lock, reports, text, answered,
                   drifted, boot>>

\* Who has inserted the row with id r and not committed.
Inserting(r) ==
    {s \in Servers : task[s].id = r /\ task[s].pc \in {"lock", "recount", "claim"}}

\* INSERT INTO records: the primary key makes a second INSERT of an id wait for
\* the first, and fail if that committed.
Insert(s) ==
    /\ task[s].pc = "insert"
    /\ Inserting(task[s].id) = {}
    /\ IF Exists(task[s].id)
       THEN GiveUp(s)
       ELSE /\ Goto(s, "lock")
            /\ UNCHANGED rest

\* Mistake: the row is not locked before the rows are counted.
LockNothing(s) ==
    /\ task[s].pc = "lock"
    /\ Goto(s, "recount")
    /\ UNCHANGED rest

\* UPDATE libraries SET active_record_count = active_record_count + 1: the value
\* is overwritten by the next statement, but the row is locked from here on.
Lock(s) ==
    /\ task[s].pc = "lock"
    /\ lock[Library(s)] = Nobody
    /\ lock' = [lock EXCEPT ![Library(s)] = s]
    /\ Goto(s, "recount")
    /\ UNCHANGED <<records, idempotency, counter, cases, reports, boot, history>>

\* UPDATE libraries SET active_record_count = (SELECT COUNT(*) ...): the rows
\* committed so far and its own.
Recount(s) ==
    /\ task[s].pc = "recount"
    /\ task' = [task EXCEPT ![s].pc = "claim",
                            ![s].count = Cardinality(RowsOf(Library(s))) + 1,
                            ![s].stale = Library(s) \in drifted]
    /\ drifted' = drifted \ {Library(s)}
    /\ UNCHANGED <<records, idempotency, counter, cases, lock, reports, born, text, answered, boot>>

\* The commit: the record, unless another report has won the key, and the
\* counter, which the DELETE of a losing record does not correct.
Commit(s, stored, id) ==
    /\ records' = IF stored
                  THEN [records EXCEPT ![id] = [key |-> task[s].key, body |-> task[s].body]]
                  ELSE records
    /\ text' = IF stored /\ text[id] = NoId THEN [text EXCEPT ![id] = task[s].body] ELSE text
    /\ counter' = [counter EXCEPT ![Library(s)] = task[s].count]
    /\ drifted' = IF stored THEN drifted ELSE drifted \cup {Library(s)}
    /\ lock' = [l \in Libraries |-> IF lock[l] = s THEN Nobody ELSE lock[l]]
    /\ task' = [task EXCEPT ![s].pc = "answer", ![s].id = id, ![s].stale = FALSE]
    /\ UNCHANGED <<cases, reports, born, answered, boot>>

\* Mistake: the key is written and nobody looks who was first.
ClaimBlind(s) ==
    /\ task[s].pc = "claim"
    /\ Commit(s, TRUE, task[s].id)
    /\ idempotency' = IF task[s].key # NoKey /\ idempotency[task[s].key] = NoClaim
                      THEN [idempotency EXCEPT ![task[s].key] =
                               [id |-> task[s].id, body |-> task[s].body]]
                      ELSE idempotency

\* Mistake: a report that loses the key answers with its own record's id.
ClaimOwnAnswer(s) ==
    /\ task[s].pc = "claim"
    /\ IF task[s].key = NoKey
       THEN Commit(s, TRUE, task[s].id) /\ UNCHANGED idempotency
       ELSE LET winner == idempotency[task[s].key] IN
            \/ /\ winner = NoClaim
               /\ Commit(s, TRUE, task[s].id)
               /\ idempotency' = [idempotency EXCEPT ![task[s].key] =
                                     [id |-> task[s].id, body |-> task[s].body]]
            \/ /\ winner # NoClaim
               /\ Commit(s, winner.id = task[s].id, task[s].id)
               /\ UNCHANGED idempotency

\* INSERT INTO report_idempotency ... ON CONFLICT DO NOTHING, the SELECT of the
\* winner, and what follows from it.  The INSERT waits for an uncommitted row of
\* the key; the three and the commit are one step, because nothing they read
\* changes under them.
Claim(s) ==
    /\ task[s].pc = "claim"
    /\ IF task[s].key = NoKey
       THEN Commit(s, TRUE, task[s].id) /\ UNCHANGED idempotency
       ELSE LET winner == idempotency[task[s].key] IN
            \/ /\ winner = NoClaim
               /\ Commit(s, TRUE, task[s].id)
               /\ idempotency' = [idempotency EXCEPT ![task[s].key] =
                                     [id |-> task[s].id, body |-> task[s].body]]
            \/ /\ winner # NoClaim
               /\ winner.id # task[s].id /\ winner.body # task[s].body
               /\ GiveUp(s)
            \/ /\ winner # NoClaim
               /\ winner.id = task[s].id \/ winner.body = task[s].body
               /\ Commit(s, winner.id = task[s].id, winner.id)
               /\ UNCHANGED idempotency

\* The answer of ma3_report, after the search tables have been written.
Answer(s) ==
    /\ task[s].pc = "answer"
    /\ answered' = IF task[s].key = NoKey THEN answered
                   ELSE [answered EXCEPT ![task[s].key] =
                            @ \cup {<<task[s].id, task[s].body>>}]
    /\ task' = [task EXCEPT ![s] = Idle]
    /\ UNCHANGED <<records, idempotency, counter, cases, lock, reports, born, text, drifted, boot>>

-----------------------------------------------------------------------------
(* Beside the reports.                                                     *)

\* hard_delete_record, or a rejection: the counters are not corrected.
Remove(r) ==
    /\ Exists(r)
    /\ records' = [records EXCEPT ![r] = NoRow]
    /\ drifted' = drifted \cup {LibraryOf[records[r].body]}
    /\ UNCHANGED <<idempotency, counter, cases, lock, task, reports, born, text, answered, boot>>

\* A process dies, or a request of an exception: its transaction rolls back.
Fail(s) ==
    /\ task[s].pc # "idle"
    /\ GiveUp(s)

\* initialize_database counts the rows of every library in one UPDATE.  Where
\* it has to wait for a report that holds a library's row it writes what it
\* counted when the statement began.
StartupCount ==
    /\ boot = NotBooting
    /\ boot' = [l \in Libraries |-> Cardinality(RowsOf(l))]
    /\ UNCHANGED <<records, idempotency, counter, cases, lock, task, reports, history>>

StartupWrite ==
    /\ boot # NotBooting
    /\ \A l \in Libraries : lock[l] = Nobody
    /\ counter' = boot
    /\ drifted' = {l \in Libraries : boot[l] # Cardinality(RowsOf(l))}
    /\ boot' = NotBooting
    /\ UNCHANGED <<records, idempotency, cases, lock, task, reports, born, text, answered>>

-----------------------------------------------------------------------------

Step(s) ==
    \/ CheckQuota(s) \/ FindCase(s) \/ NewCase(s) \/ ReadKey(s)
    \/ Lookup(s) \/ Insert(s) \/ Lock(s) \/ Recount(s) \/ Claim(s) \/ Answer(s)

Next ==
    \/ \E s \in Servers, k \in Keys \cup {NoKey}, b \in Bodies : Report(s, k, b)
    \/ \E s \in Servers : Step(s) \/ Fail(s)
    \/ \E r \in Ids : Remove(r)
    \/ StartupCount \/ StartupWrite

Spec == Init /\ [][Next]_vars

-----------------------------------------------------------------------------
(* Properties.                                                             *)

TypeOK ==
    /\ records \in [Ids -> Row \cup {NoRow}]
    /\ idempotency \in [Keys -> Claimed]
    /\ counter \in [Libraries -> Nat]
    /\ cases \in Nat
    /\ lock \in [Libraries -> Servers \cup {Nobody}]
    /\ task \in [Servers -> Task]
    /\ reports \in 0..MaxReports
    /\ boot \in [Libraries -> Nat] \cup {NotBooting}
    /\ born \subseteq Ids
    /\ text \in [Ids -> Bodies \cup {NoId}]
    /\ answered \in [Keys -> SUBSET ((Ids \cup {NoId}) \X (Bodies \cup {NoId}))]
    /\ drifted \subseteq Libraries

\* One key, one record: however many times a report is sent, by a client that
\* lost the answer or by two at once, and whatever fails between two of the
\* statements (db.py:1342-1378).
OneRecordPerKey ==
    \A r, x \in Ids : /\ Exists(r) /\ Exists(x)
                      /\ records[r].key = records[x].key /\ records[r].key # NoKey
                      => r = x

\* Everybody who repeats a report is told the same record, and nobody who sends
\* something else under the key is told that it was stored.
AnswersAgree == \A k \in Keys : \A a, b \in answered[k] : a = b

\* An id names one text for ever, although a report that finds its key taken by
\* a deleted record stores its own text under the deleted record's id
\* (db.py:1271-1275).
IdNamesOneText == \A r \in Ids : Exists(r) => records[r].body = text[r]

\* When no report is on its way into a library, and none of its records was
\* removed and no report lost its key since it was counted, the counter is the
\* number of its rows: the reports of one library count one after another.
CounterFollows ==
    \A l \in Libraries :
        /\ lock[l] = Nobody
        /\ l \notin drifted
        => counter[l] = Cardinality(RowsOf(l))

\* A quota is exceeded by what the other processes had on the way at most.
LargestReport == Max({Size[b] : b \in Bodies})

QuotaOvershoot ==
    \A l \in Libraries :
        BytesOf(l) <= Quota[l] + (Cardinality(Servers) - 1) * LargestReport

\* A title has no more cases than there are processes (db.py:1673).
CasesBounded == cases <= Cardinality(Servers)

\* What is looked up in one transaction and inserted in another, the bytes of a
\* library and a title's case, goes beyond its bound by what the other processes
\* had on the way, and by no more (storage_quota_service.py:165, db.py:1673).
OvershootBounded == QuotaOvershoot /\ CasesBounded
=============================================================================
