------------------------ MODULE RecordLifecycleProofs ------------------------
(***************************************************************************)
(* Safety of RecordLifecycle, for every set of ids, processes and threads, *)
(* every retention, every clock and any number of faults: first of the     *)
(* transactions of RecordTables, then of the requests made of them; and    *)
(* that RecordLifecycle implements RecordPromise: every transaction that   *)
(* writes table records is a change the promise allows, and no other step  *)
(* of any request, process or fault shows in a record's life.  The last    *)
(* part is about the tables at rest, when every request is over.           *)
(*                                                                         *)
(* An id may be stored a second time, after its row was deleted: the sets  *)
(* reborn and wentPublic tell its rows apart where a fact is about one.    *)
(***************************************************************************)
EXTENDS RecordLifecycle, TLAPS

-----------------------------------------------------------------------------
(* The transactions.                                                       *)

\* UPDATE records SET ... WHERE id IN ...: rows stay rows.
LEMMA UpdateRowsType ==
    ASSUME TablesTypeOK, NEW S, NEW rows \in [Ids -> Row], UpdateRows(S, rows),
           awaitingReview' \subseteq Ids
    PROVE  TablesTypeOK'
<1>1. records' \in [Ids -> Row]
    BY DEF TablesTypeOK, UpdateRows
<1>2. everActive' \subseteq Ids /\ wentPublic' \subseteq Ids
    BY DEF TablesTypeOK, UpdateRows, RememberActive
<1> QED
    BY <1>1, <1>2 DEF TablesTypeOK, UpdateRows, lookupVars, trailVars, worldVars

LEMMA InsertRecordType ==
    ASSUME TablesTypeOK, NEW r \in Ids, NEW status \in Statuses, NEW at \in Times,
           NEW based_on \in SUBSET Ids, InsertRecord(r, status, at, based_on)
    PROVE  TablesTypeOK'
<1>1. records' \in [Ids -> Row] /\ cites' \in [Ids -> SUBSET Ids]
    BY DEF TablesTypeOK, InsertRecord, Row, Times
<1>2. /\ born' \subseteq Ids /\ reborn' \subseteq Ids /\ awaitingReview' \subseteq Ids
      /\ everActive' \subseteq Ids /\ wentPublic' \subseteq Ids
    BY DEF TablesTypeOK, InsertRecord, RememberActive
<1> QED
    BY <1>1, <1>2 DEF TablesTypeOK, InsertRecord, lookupVars, trailVars, worldVars

LEMMA PublishRowsType ==
    ASSUME TablesTypeOK, NEW S, PublishRows(S)
    PROVE  TablesTypeOK'
<1> DEFINE rows == [x \in Ids |-> [records[x] EXCEPT !.status = "active", !.publishAt = Never]]
<1>1. rows \in [Ids -> Row]
    BY DEF TablesTypeOK, Row, Statuses, Times
<1>2. UpdateRows({x \in S : IsBuffered(x)}, rows) /\ awaitingReview' \subseteq Ids
    BY DEF PublishRows, TablesTypeOK
<1> HIDE DEF rows
<1> QED
    BY <1>1, <1>2, UpdateRowsType

LEMMA EditRowType ==
    ASSUME TablesTypeOK, NEW r, NEW at \in Times, EditRow(r, at)
    PROVE  TablesTypeOK'
<1> DEFINE rows == [x \in Ids |-> [records[x] EXCEPT !.version = @ + 1, !.publishAt = at]]
<1>1. rows \in [Ids -> Row]
    <2>1. ASSUME NEW x \in Ids
          PROVE  [records[x] EXCEPT !.version = @ + 1, !.publishAt = at] \in Row
        <3>1. records[x] \in Row /\ records[x].version + 1 \in Nat
            BY DEF TablesTypeOK, Row
        <3> QED
            BY <3>1 DEF Row
    <2> QED
        BY <2>1
<1>2. UpdateRows({x \in {r} : IsBuffered(x)}, rows) /\ awaitingReview' \subseteq Ids
    BY DEF EditRow, TablesTypeOK
<1> HIDE DEF rows
<1> QED
    BY <1>1, <1>2, UpdateRowsType

LEMMA TrashRowType ==
    ASSUME TablesTypeOK, NEW r, TrashRow(r)
    PROVE  TablesTypeOK'
<1> DEFINE rows == [x \in Ids |-> [records[x] EXCEPT !.status = "trashed", !.trashedAt = now]]
<1>1. rows \in [Ids -> Row]
    BY DEF TablesTypeOK, Row, Statuses, Times
<1>2. UpdateRows({r}, rows) /\ awaitingReview' \subseteq Ids
    BY DEF TrashRow, TablesTypeOK
<1> HIDE DEF rows
<1> QED
    BY <1>1, <1>2, UpdateRowsType

LEMMA RestoreRowType ==
    ASSUME TablesTypeOK, NEW r, RestoreRow(r)
    PROVE  TablesTypeOK'
<1> DEFINE rows == [x \in Ids |-> [records[x] EXCEPT !.status = "active", !.trashedAt = Never]]
<1>1. rows \in [Ids -> Row]
    BY DEF TablesTypeOK, Row, Statuses, Times
<1>2. UpdateRows({r}, rows) /\ awaitingReview' \subseteq Ids
    BY DEF RestoreRow, TablesTypeOK
<1> HIDE DEF rows
<1> QED
    BY <1>1, <1>2, UpdateRowsType

LEMMA SetStatusType ==
    ASSUME TablesTypeOK, NEW r, NEW status \in Statuses, SetStatus(r, status)
    PROVE  TablesTypeOK'
<1> DEFINE rows == [x \in Ids |-> [records[x] EXCEPT !.status = status]]
<1>1. rows \in [Ids -> Row]
    BY DEF TablesTypeOK, Row, Statuses, Times
<1>2. UpdateRows({r}, rows) /\ awaitingReview' \subseteq Ids
    BY DEF SetStatus, TablesTypeOK
<1> HIDE DEF rows
<1> QED
    BY <1>1, <1>2, UpdateRowsType

LEMMA EraseRowType ==
    ASSUME TablesTypeOK, NEW r, EraseRow(r)
    PROVE  TablesTypeOK'
<1>1. records' \in [Ids -> Row]
    BY DEF TablesTypeOK, EraseRow, NoRow, Row, Times
<1>2. everActive' \subseteq Ids /\ wentPublic' \subseteq Ids
    BY DEF TablesTypeOK, EraseRow, RememberActive
<1> QED
    BY <1>1, <1>2 DEF TablesTypeOK, EraseRow, lookupVars, trailVars, worldVars

-----------------------------------------------------------------------------
(* The search tables.                                                      *)

LEMMA UpsertIndexType ==
    ASSUME TablesTypeOK, NEW r, NEW entry \in Entry, UpsertIndex(r, entry)
    PROVE  TablesTypeOK'
BY DEF TablesTypeOK, UpsertIndex, rowVars, trailVars, worldVars

LEMMA UpsertEmbeddingType ==
    ASSUME TablesTypeOK, NEW r, NEW entry \in Entry, UpsertEmbedding(r, entry)
    PROVE  TablesTypeOK'
<1>1. NoEntry \in Entry
    BY DEF NoEntry, Entry
<1>2. embeddings' \in [Ids -> Entry]
    BY <1>1 DEF TablesTypeOK, UpsertEmbedding
<1> QED
    BY <1>2 DEF TablesTypeOK, UpsertEmbedding, rowVars, trailVars, worldVars

LEMMA EraseLookupType ==
    ASSUME TablesTypeOK, NEW r, EraseEmbedding(r) \/ EraseIndex(r)
    PROVE  TablesTypeOK'
<1>1. NoEntry \in Entry
    BY DEF NoEntry, Entry
<1> QED
    BY <1>1 DEF TablesTypeOK, EraseEmbedding, EraseIndex, rowVars, trailVars, worldVars

\* sync_record_search_index reads what the search tables can hold.
LEMMA EntryOfType ==
    ASSUME TablesTypeOK, NEW r \in Ids
    PROVE  EntryOf(r) \in Entry
BY DEF TablesTypeOK, EntryOf, Entry, Row

-----------------------------------------------------------------------------
(* Relations, the audit log and the tombstones.                            *)

LEMMA RelationsType ==
    ASSUME TablesTypeOK, NEW r,
           InsertRelations(r) \/ EraseRelations(r) \/ MarkRelations(r)
    PROVE  TablesTypeOK'
<1>1. relations' \in [Ids \X Ids -> {"absent", "linked", "source_deleted"}]
    BY DEF TablesTypeOK, InsertRelations, EraseRelations, MarkRelations
<1> QED
    BY <1>1 DEF TablesTypeOK, InsertRelations, EraseRelations, MarkRelations,
                rowVars, lookupVars, worldVars

LEMMA AuditType ==
    ASSUME TablesTypeOK, NEW r, AppendAudit(r) \/ BackfillAudit
    PROVE  TablesTypeOK'
<1>1. audit' \in [Ids -> Nat]
    BY DEF TablesTypeOK, AppendAudit, BackfillAudit
<1> QED
    BY <1>1 DEF TablesTypeOK, AppendAudit, BackfillAudit, rowVars, lookupVars, worldVars

LEMMA InsertTombstoneType ==
    ASSUME TablesTypeOK, NEW r \in Ids, InsertTombstone(r)
    PROVE  TablesTypeOK'
BY DEF TablesTypeOK, InsertTombstone, rowVars, lookupVars, worldVars

LEMMA WorldType ==
    ASSUME TablesTypeOK, NEW hours \in Nat, Tick \/ SetBufferHours(hours)
    PROVE  TablesTypeOK'
BY DEF TablesTypeOK, Tick, SetBufferHours, rowVars, lookupVars, trailVars

\* compute_publish_at gives a time, or NULL.
LEMMA PublishTimeType ==
    ASSUME TablesTypeOK
    PROVE  PublishTime \in Times
BY DEF TablesTypeOK, PublishTime, Times

-----------------------------------------------------------------------------
(* Workers.                                                                *)

LEMMA NothingType ==
    /\ NoEntry \in Entry
    /\ Never \in Times
    /\ IdleWorker \in WorkerState
BY LifecycleAssumption
   DEF NoEntry, Entry, Times, IdleWorker, WorkerState, WorkerRecord, Labels, Ops,
       Updating, Rechecking, Jobs

LEMMA AssignType ==
    ASSUME worker \in [Workers -> WorkerState], NEW w \in Workers, NEW x \in WorkerState,
           worker' = [worker EXCEPT ![w] = x]
    PROVE  worker' \in [Workers -> WorkerState]
OBVIOUS

\* A worker that starts a request.
LEMMA StartType ==
    ASSUME worker \in [Workers -> WorkerState], NEW w \in Workers,
           NEW op \in Ops, NEW label \in Labels, NEW r \in Ids, Start(w, op, label, r),
           label = "recheck" => op \in Rechecking,
           label = "update" => op \in Updating,
           op = "restore" => Protected
    PROVE  worker' \in [Workers -> WorkerState]
<1> DEFINE x == [IdleWorker EXCEPT !.pc = label, !.op = op, !.id = r]
<1>1. x \in WorkerState
    BY NothingType, LifecycleAssumption DEF IdleWorker, WorkerState, WorkerRecord
<1>2. worker' = [worker EXCEPT ![w] = x]
    BY DEF Start
<1> HIDE DEF x
<1> QED
    BY <1>1, <1>2, AssignType

\* A worker that goes on with its request.
LEMMA GotoType ==
    ASSUME worker \in [Workers -> WorkerState], NEW w \in Workers,
           NEW label \in Labels, Goto(w, label),
           Id(w) # Nobody \/ label \in {"idle", "next", "insert", "boot_select", "boot_index"},
           label = "recheck" => worker[w].op \in Rechecking,
           label = "update" => worker[w].op \in Updating
    PROVE  worker' \in [Workers -> WorkerState]
<1> DEFINE x == [worker[w] EXCEPT !.pc = label]
<1>1. x \in WorkerState
    BY DEF WorkerState, WorkerRecord, Id
<1>2. worker' = [worker EXCEPT ![w] = IF label = "idle" THEN IdleWorker ELSE x]
    BY DEF Goto
<1> HIDE DEF x
<1> QED
    BY <1>1, <1>2, AssignType, NothingType

\* Only between two records, and on its way to a batch, is a worker without one.
LEMMA BusyHasRecord ==
    ASSUME worker \in [Workers -> WorkerState], NEW w \in Workers,
           worker[w].pc \notin {"idle", "next", "insert", "update", "boot_audit",
                                "boot_select", "boot_index"}
    PROVE  Id(w) \in Ids
BY DEF WorkerState, WorkerRecord, Id

\* A start that leaves the tables alone.
LEMMA StillTypeOK ==
    ASSUME TypeOK, UNCHANGED <<tableVars, forms, faults>>, worker' \in [Workers -> WorkerState]
    PROVE  TypeOK'
BY DEF TypeOK, TablesTypeOK, tableVars, rowVars, lookupVars, trailVars, worldVars

-----------------------------------------------------------------------------
(* Type correctness: requests.                                             *)

LEMMA ReportType ==
    ASSUME TypeOK, NEW s \in Servers, Report(s)
    PROVE  TypeOK'
<1> DEFINE x == [IdleWorker EXCEPT !.pc = "next", !.op = "report_job", !.todo = Due,
                                   !.at = PublishTime]
<1>1. x \in WorkerState
    BY NothingType, PublishTimeType, LifecycleAssumption
       DEF IdleWorker, WorkerState, WorkerRecord, Labels, Ops, Due, TypeOK
<1>2. worker' \in [Workers -> WorkerState]
    <2>1. worker' = [worker EXCEPT ![s] = x]
        BY DEF Report
    <2> HIDE DEF x
    <2> QED
        BY <1>1, <2>1, AssignType DEF TypeOK, Workers
<1> QED
    BY <1>2, StillTypeOK DEF Report

LEMMA BatchType ==
    ASSUME TypeOK, NEW s \in Servers, BatchPublish(s) \/ BatchDelete(s)
    PROVE  TypeOK'
<1>1. PICK chosen \in SUBSET Ids, op \in {"batch_publish", "batch_delete"} :
        worker' = [worker EXCEPT ![s] =
            [IdleWorker EXCEPT !.pc = IF op = "batch_publish" THEN "update" ELSE "next",
                               !.op = op, !.todo = chosen]]
    BY DEF BatchPublish, BatchDelete, OwnBuffered
<1> DEFINE x == [IdleWorker EXCEPT !.pc = IF op = "batch_publish" THEN "update" ELSE "next",
                                   !.op = op, !.todo = chosen]
<1>2. x \in WorkerState
    BY NothingType, LifecycleAssumption
       DEF IdleWorker, WorkerState, WorkerRecord, Labels, Ops, Updating
<1>3. worker' \in [Workers -> WorkerState]
    <2>1. worker' = [worker EXCEPT ![s] = x]
        BY <1>1
    <2> HIDE DEF x
    <2> QED
        BY <1>2, <2>1, AssignType DEF TypeOK, Workers
<1> QED
    BY <1>3, StillTypeOK DEF BatchPublish, BatchDelete

LEMMA PatchType ==
    ASSUME TypeOK, NEW s \in Servers, NEW r \in Ids, PatchMcp(s, r) \/ EditPortal(s, r)
    PROVE  TypeOK'
<1>1. PICK op \in {"patch_mcp", "patch_portal"} :
        worker' = [worker EXCEPT ![s] = [IdleWorker EXCEPT
                      !.pc = "recheck", !.op = op, !.id = r, !.at = PublishTime]]
    BY DEF PatchMcp, EditPortal
<1> DEFINE x == [IdleWorker EXCEPT !.pc = "recheck", !.op = op, !.id = r, !.at = PublishTime]
<1>2. x \in WorkerState
    BY NothingType, PublishTimeType, LifecycleAssumption
       DEF IdleWorker, WorkerState, WorkerRecord, Labels, Ops, Rechecking, TypeOK
<1>3. worker' \in [Workers -> WorkerState]
    <2>1. worker' = [worker EXCEPT ![s] = x]
        BY <1>1
    <2> HIDE DEF x
    <2> QED
        BY <1>2, <2>1, AssignType DEF TypeOK, Workers
<1>4. TablesTypeOK' /\ faults' \in 0..MaxFaults /\ forms' \subseteq Servers \X Ids
    BY DEF PatchMcp, EditPortal, TypeOK, TablesTypeOK, tableVars, rowVars, lookupVars,
           trailVars, worldVars
<1> QED
    BY <1>3, <1>4 DEF TypeOK

LEMMA OpenEditType ==
    ASSUME TypeOK, NEW s \in Servers, NEW r \in Ids, OpenEdit(s, r)
    PROVE  TypeOK'
<1>1. TablesTypeOK' /\ UNCHANGED <<worker, faults>>
    BY DEF OpenEdit, TypeOK, TablesTypeOK, tableVars, rowVars, lookupVars, trailVars,
           worldVars
<1>2. forms' \subseteq Servers \X Ids
    BY DEF OpenEdit, TypeOK
<1> QED
    BY <1>1, <1>2 DEF TypeOK

LEMMA StartJobType ==
    ASSUME TypeOK, NEW w \in Workers, StartJob(w)
    PROVE  TypeOK'
<1> DEFINE x == [IdleWorker EXCEPT !.pc = "next", !.op = "job", !.todo = Due]
<1>1. x \in WorkerState
    BY NothingType, LifecycleAssumption
       DEF IdleWorker, WorkerState, WorkerRecord, Labels, Ops, Due
<1>2. worker' \in [Workers -> WorkerState]
    <2>1. worker' = [worker EXCEPT ![w] = x]
        BY DEF StartJob
    <2> HIDE DEF x
    <2> QED
        BY <1>1, <2>1, AssignType DEF TypeOK
<1> QED
    BY <1>2, StillTypeOK DEF StartJob

\* The requests that name one record.
LEMMA RequestType ==
    ASSUME TypeOK, NEW w \in Workers, NEW r \in Ids,
           \/ PublishMcp(w, r) \/ PublishPortal(w, r) \/ Delete(w, r)
           \/ Restore(w, r) \/ Approve(w, r) \/ Reject(w, r)
    PROVE  TypeOK'
<1>1. PICK op \in Ops, label \in Labels :
        /\ Start(w, op, label, r)
        /\ label = "recheck" => op \in Rechecking
        /\ label = "update" => op \in Updating
        /\ op = "restore" => Protected
    <2>1. CASE PublishMcp(w, r)
        BY <2>1 DEF PublishMcp, Ops, Labels, Rechecking
    <2>2. CASE PublishPortal(w, r)
        BY <2>2 DEF PublishPortal, Ops, Labels, Rechecking
    <2>3. CASE Delete(w, r)
        BY <2>3 DEF Delete, Ops, Labels, Updating
    <2>4. CASE Restore(w, r)
        BY <2>4 DEF Restore, Ops, Labels, Updating
    <2>5. CASE Approve(w, r)
        BY <2>5 DEF Approve, Ops, Labels, Updating
    <2>6. CASE Reject(w, r)
        BY <2>6 DEF Reject, Ops, Labels, Updating
    <2> QED
        BY <2>1, <2>2, <2>3, <2>4, <2>5, <2>6
<1>2. worker' \in [Workers -> WorkerState]
    BY <1>1, StartType DEF TypeOK
<1> QED
    BY <1>2, StillTypeOK DEF PublishMcp, PublishPortal, Delete, Restore, Approve, Reject

-----------------------------------------------------------------------------
(* Type correctness: the steps of a request.                               *)

LEMMA AfterSyncLabel ==
    ASSUME NEW w \in Workers
    PROVE  AfterSync(w) \in Labels \ {"recheck", "update"}
BY DEF AfterSync, Done, Labels

LEMMA ListType ==
    ASSUME TypeOK, NEW w \in Workers, Next1(w)
    PROVE  TypeOK'
<1>1. CASE worker[w].todo = {}
    <2>1. CASE \E label \in {"boot_index", "idle"} : Goto(w, label)
        <3>1. worker' \in [Workers -> WorkerState]
            BY <2>1, GotoType DEF TypeOK, Labels
        <3> QED
            BY <3>1, StillTypeOK DEF Next1
    <2>2. CASE worker[w].op = "report_job"
        <3> DEFINE x == [worker[w] EXCEPT !.pc = "insert", !.known = born]
        <3>1. x \in WorkerState
            <4>1. worker[w] \in WorkerRecord /\ born \subseteq Ids
                BY DEF TypeOK, TablesTypeOK, WorkerState
            <4>2. x \in WorkerRecord /\ x.pc = "insert" /\ x.op = "report_job"
                BY <2>2, <4>1 DEF WorkerRecord, Labels
            <4> HIDE DEF x
            <4> QED
                BY <4>2 DEF WorkerState
        <3>2. worker' = [worker EXCEPT ![w] = x]
            BY <1>1, <2>2 DEF Next1
        <3>3. worker' \in [Workers -> WorkerState]
            <4> HIDE DEF x
            <4> QED
                BY <3>1, <3>2, AssignType DEF TypeOK
        <3> QED
            BY <3>3, StillTypeOK DEF Next1
    <2> QED
        BY <1>1, <2>1, <2>2 DEF Next1
<1>2. CASE worker[w].todo # {}
    <2>1. PICK r, label :
            /\ r \in worker[w].todo
            /\ label = FirstLabel(worker[w].op, r)
            /\ worker' = [worker EXCEPT ![w] = [@ EXCEPT
                             !.id = r, !.todo = worker[w].todo \ {r}, !.pc = label]]
        BY <1>2 DEF Next1
    <2> DEFINE x == [worker[w] EXCEPT !.id = r, !.todo = worker[w].todo \ {r}, !.pc = label]
    <2>2. x \in WorkerState
        <3>1. /\ worker[w] \in WorkerRecord
              /\ r \in Ids /\ r # Nobody
              /\ worker[w].op = "restore" => Protected
            BY <2>1, LifecycleAssumption DEF TypeOK, WorkerState, WorkerRecord
        <3>2. /\ label \in Labels \ {"recheck"}
              /\ label = "update" => worker[w].op \in Updating
            BY <2>1 DEF FirstLabel, Labels, Updating, Jobs
        <3>3. x \in WorkerRecord
            BY <3>1, <3>2 DEF WorkerRecord
        <3> QED
            BY <3>1, <3>2, <3>3 DEF WorkerState, WorkerRecord
    <2>3. worker' \in [Workers -> WorkerState]
        <3>1. worker' = [worker EXCEPT ![w] = x]
            BY <2>1
        <3> HIDE DEF x
        <3> QED
            BY <2>2, <3>1, AssignType DEF TypeOK
    <2> QED
        BY <2>3, StillTypeOK DEF Next1
<1> QED
    BY <1>1, <1>2

LEMMA StoreReportType ==
    ASSUME TypeOK, NEW w \in Workers, StoreReport(w)
    PROVE  TypeOK'
<1>1. PICK r \in Storable(w), kind \in {"draft", "verify", "new"},
           based_on \in SUBSET Ids :
        LET status == StatusOfReport(kind, worker[w].at) IN
        /\ InsertRecord(r, status, IF status = "buffered" THEN worker[w].at ELSE Never,
                        based_on)
        /\ worker' = [worker EXCEPT ![w] =
               [IdleWorker EXCEPT !.pc = "sync_index", !.op = "report", !.id = r,
                                  !.entry = [status |-> status, version |-> 0]]]
    BY DEF StoreReport
<1> DEFINE status == StatusOfReport(kind, worker[w].at)
           x == [IdleWorker EXCEPT !.pc = "sync_index", !.op = "report", !.id = r,
                                   !.entry = [status |-> status, version |-> 0]]
<1>2. status \in Statuses /\ r \in Ids
    BY DEF StatusOfReport, Statuses, Storable, TypeOK, TablesTypeOK
<1>3. TablesTypeOK'
    <2>1. (IF status = "buffered" THEN worker[w].at ELSE Never) \in Times
        BY NothingType DEF TypeOK, WorkerState, WorkerRecord
    <2> HIDE DEF status
    <2> QED
        BY <1>1, <1>2, <2>1, InsertRecordType DEF TypeOK, status
<1>4. x \in WorkerState
    <2>1. [status |-> status, version |-> 0] \in Entry
        BY <1>2 DEF Entry
    <2> HIDE DEF status
    <2> QED
        BY <1>2, <2>1, NothingType, LifecycleAssumption
           DEF IdleWorker, WorkerState, WorkerRecord, Labels, Ops
<1>5. worker' \in [Workers -> WorkerState]
    <2>1. worker' = [worker EXCEPT ![w] = x]
        BY <1>1
    <2> HIDE DEF x
    <2> QED
        BY <1>4, <2>1, AssignType DEF TypeOK
<1> QED
    BY <1>3, <1>5 DEF TypeOK, StoreReport

LEMMA RefuseReportType ==
    ASSUME TypeOK, NEW w \in Workers, RefuseReport(w)
    PROVE  TypeOK'
<1>1. worker' \in [Workers -> WorkerState]
    BY GotoType DEF TypeOK, RefuseReport, Labels
<1> QED
    BY <1>1, StillTypeOK DEF RefuseReport

LEMMA ReplayReportType ==
    ASSUME TypeOK, NEW w \in Workers, NEW r \in Ids, ReplayReport(w, r)
    PROVE  TypeOK'
<1>1. worker' \in [Workers -> WorkerState]
    BY StartType DEF TypeOK, ReplayReport, Labels, Ops
<1> QED
    BY <1>1, StillTypeOK DEF ReplayReport

LEMMA RecheckType ==
    ASSUME TypeOK, NEW w \in Workers, Recheck(w)
    PROVE  TypeOK'
<1>1. Id(w) # Nobody /\ worker[w].op \in Rechecking
    BY BusyHasRecord, LifecycleAssumption DEF TypeOK, WorkerState, Recheck, At
<1>2. PICK label \in {"update", "relate", "idle"} : Goto(w, label)
    BY DEF Recheck
<1>3. worker' \in [Workers -> WorkerState]
    BY <1>1, <1>2, GotoType DEF TypeOK, Labels, Updating
<1> QED
    BY <1>3, StillTypeOK DEF Recheck

LEMMA UpdateType ==
    ASSUME TypeOK, NEW w \in Workers, Update(w)
    PROVE  TypeOK'
<1>1. /\ worker[w] \in WorkerRecord
      /\ worker[w].op \in Updating
      /\ worker[w].id = Nobody => worker[w].op = "batch_publish"
    BY DEF TypeOK, WorkerState, Update, At
<1>2. TablesTypeOK'
    <2>1. CASE worker[w].op \in Publishing
        BY <2>1, PublishRowsType DEF TypeOK, Update, Publishing, Jobs
    <2>2. CASE worker[w].op = "batch_publish"
        BY <2>2, PublishRowsType DEF TypeOK, Update, Publishing, Jobs
    <2>3. CASE worker[w].op \in {"patch_mcp", "patch_portal"}
        BY <1>1, <2>3, EditRowType DEF TypeOK, Update, Publishing, Jobs, WorkerRecord
    <2>4. CASE worker[w].op \in {"delete", "batch_delete"}
        BY <2>4, TrashRowType DEF TypeOK, Update, Publishing, Jobs
    <2>5. CASE worker[w].op = "restore"
        BY <2>5, RestoreRowType DEF TypeOK, Update, Publishing, Jobs
    <2>6. CASE worker[w].op \in {"approve", "reject"}
        BY <2>6, SetStatusType DEF TypeOK, Update, Publishing, Jobs, Statuses
    <2> QED
        BY <1>1, <2>1, <2>2, <2>3, <2>4, <2>5, <2>6
           DEF Updating, Rechecking, Publishing, Jobs
<1>3. worker' \in [Workers -> WorkerState]
    BY <1>1, GotoType DEF TypeOK, Update, Labels, Id
<1> QED
    BY <1>2, <1>3 DEF TypeOK, Update

LEMMA SyncType ==
    ASSUME TypeOK, NEW w \in Workers, SyncRead(w) \/ SyncIndex(w) \/ SyncEmbed(w)
    PROVE  TypeOK'
<1>1. Id(w) \in Ids /\ Id(w) # Nobody
    BY BusyHasRecord, LifecycleAssumption DEF TypeOK, SyncRead, SyncIndex, SyncEmbed, At
<1>2. worker[w] \in WorkerState
    BY DEF TypeOK
<1>3. CASE SyncRead(w) /\ Exists(Id(w))
    <2> DEFINE x == [worker[w] EXCEPT !.pc = "sync_index", !.entry = EntryOf(Id(w))]
    <2>1. x \in WorkerState
        BY <1>1, <1>2, EntryOfType DEF WorkerState, WorkerRecord, Labels, TypeOK, Id
    <2>2. worker' = [worker EXCEPT ![w] = x]
        BY <1>3 DEF SyncRead
    <2>3. worker' \in [Workers -> WorkerState]
        <3> HIDE DEF x
        <3> QED
            BY <2>1, <2>2, AssignType DEF TypeOK
    <2> QED
        BY <1>3, <2>3, StillTypeOK DEF SyncRead
<1>4. CASE SyncRead(w) /\ ~Exists(Id(w))
    <2>1. worker' \in [Workers -> WorkerState]
        BY <1>1, <1>4, AfterSyncLabel, GotoType DEF TypeOK, SyncRead
    <2> QED
        BY <1>4, <2>1, StillTypeOK DEF SyncRead
<1>5. CASE SyncIndex(w)
    <2>1. worker' \in [Workers -> WorkerState]
        BY <1>1, <1>5, GotoType DEF TypeOK, SyncIndex, Labels
    <2>2. TablesTypeOK'
        BY <1>2, <1>5, UpsertIndexType DEF TypeOK, SyncIndex, WorkerState, WorkerRecord
    <2> QED
        BY <1>5, <2>1, <2>2 DEF TypeOK, SyncIndex
<1>6. CASE SyncEmbed(w)
    <2>1. worker' \in [Workers -> WorkerState]
        BY <1>1, <1>6, AfterSyncLabel, GotoType DEF TypeOK, SyncEmbed
    <2>2. TablesTypeOK'
        BY <1>2, <1>6, UpsertEmbeddingType DEF TypeOK, SyncEmbed, WorkerState, WorkerRecord
    <2> QED
        BY <1>6, <2>1, <2>2 DEF TypeOK, SyncEmbed
<1> QED
    BY <1>3, <1>4, <1>5, <1>6

LEMMA RereadType ==
    ASSUME TypeOK, NEW w \in Workers, Reread(w)
    PROVE  TypeOK'
<1>1. Id(w) \in Ids /\ Id(w) # Nobody
    BY BusyHasRecord, LifecycleAssumption DEF TypeOK, Reread, At
<1>2. CASE \E op \in {"publish_patched_mcp", "publish_patched_portal"} :
               Become(w, op, "recheck")
    <2>1. PICK op \in {"publish_patched_mcp", "publish_patched_portal"} :
               Become(w, op, "recheck")
        BY <1>2
    <2> DEFINE x == [worker[w] EXCEPT !.op = op, !.pc = "recheck"]
    <2>2. x \in WorkerState
        <3>1. worker[w] \in WorkerRecord
            BY DEF TypeOK, WorkerState
        <3>2. x \in WorkerRecord /\ x.pc = "recheck" /\ x.op = op /\ x.id = Id(w)
            BY <3>1 DEF WorkerRecord, Labels, Ops, Id
        <3> HIDE DEF x
        <3> QED
            BY <1>1, <3>2 DEF WorkerState, Rechecking
    <2>3. worker' = [worker EXCEPT ![w] = x]
        BY <2>1 DEF Become
    <2>4. worker' \in [Workers -> WorkerState]
        <3> HIDE DEF x
        <3> QED
            BY <2>2, <2>3, AssignType DEF TypeOK
    <2> QED
        BY <2>4, StillTypeOK DEF Reread
<1>3. CASE \E label \in {"answer", "relate", "next", "idle"} : Goto(w, label)
    <2>1. worker' \in [Workers -> WorkerState]
        BY <1>1, <1>3, GotoType DEF TypeOK, Labels
    <2> QED
        BY <2>1, StillTypeOK DEF Reread
<1> QED
    BY <1>2, <1>3 DEF Reread, Done

\* What follows the index: relations, the audit row, the answer.
LEMMA TrailType ==
    ASSUME TypeOK, NEW w \in Workers, Relate(w) \/ Unrelate(w) \/ Audit(w) \/ Answer(w)
    PROVE  TypeOK'
<1>1. Id(w) \in Ids /\ Id(w) # Nobody
    BY BusyHasRecord, LifecycleAssumption DEF TypeOK, Relate, Unrelate, Audit, Answer, At
<1>2. PICK label \in {"audit", "answer", "next", "idle"} : Goto(w, label)
    BY DEF Relate, Unrelate, Audit, Answer, Done
<1>3. worker' \in [Workers -> WorkerState]
    BY <1>1, <1>2, GotoType DEF TypeOK, Labels
<1>4. TablesTypeOK'
    <2>1. CASE Relate(w)
        BY <2>1, RelationsType DEF TypeOK, Relate
    <2>2. CASE Unrelate(w)
        BY <2>2, RelationsType DEF TypeOK, Unrelate
    <2>3. CASE Audit(w)
        BY <2>3, AuditType DEF TypeOK, Audit
    <2>4. CASE Answer(w)
        BY <1>3, <2>4, StillTypeOK DEF TypeOK, Answer
    <2> QED
        BY <2>1, <2>2, <2>3, <2>4
<1> QED
    BY <1>3, <1>4 DEF TypeOK, Relate, Unrelate, Audit, Answer

LEMMA HardDeleteType ==
    ASSUME TypeOK, NEW w \in Workers, HardDelete(w)
    PROVE  TypeOK'
<1>1. Id(w) \in Ids /\ Id(w) # Nobody
    BY BusyHasRecord, LifecycleAssumption DEF TypeOK, HardDelete, At
<1>2. PICK label \in {"mark", "erase", "erase_embedding", "erase_index", "next", "idle"} :
          Goto(w, label)
    BY DEF HardDelete, Done
<1>3. worker' \in [Workers -> WorkerState]
    BY <1>1, <1>2, GotoType DEF TypeOK, Labels
<1>4. TablesTypeOK'
    BY <1>1, InsertTombstoneType, RelationsType, EraseRowType, EraseLookupType
       DEF TypeOK, HardDelete
<1> QED
    BY <1>3, <1>4 DEF TypeOK, HardDelete

-----------------------------------------------------------------------------
(* Type correctness: faults, startup and the world.                        *)

LEMMA FaultType ==
    ASSUME TypeOK, NEW w \in Workers, FailRequest(w) \/ Crash(w)
    PROVE  TypeOK'
<1>1. faults' \in 0..MaxFaults /\ forms' \subseteq Servers \X Ids
    BY LifecycleAssumption DEF TypeOK, FailRequest, Crash
<1>2. worker' \in [Workers -> WorkerState]
    <2>1. CASE FailRequest(w)
        BY <2>1, GotoType DEF TypeOK, FailRequest, Labels
    <2>2. CASE Crash(w)
        <3> DEFINE booting == [IdleWorker EXCEPT !.pc = "boot_audit", !.op = "boot_job"]
        <3>1. booting \in WorkerState
            BY NothingType DEF IdleWorker, WorkerState, WorkerRecord, Labels, Ops
        <3> HIDE DEF booting
        <3>2. \A v \in Workers : worker'[v] \in {booting, IdleWorker, worker[v]}
            BY <2>2 DEF Crash, booting
        <3>3. DOMAIN worker' = Workers /\ worker' = [v \in Workers |-> worker'[v]]
            BY <2>2 DEF Crash
        <3> QED
            BY <3>1, <3>2, <3>3, NothingType DEF TypeOK
    <2> QED
        BY <2>1, <2>2
<1>3. TablesTypeOK'
    <2>1. UNCHANGED tableVars
        BY DEF FailRequest, Crash
    <2> QED
        BY <2>1 DEF TypeOK, TablesTypeOK, tableVars, rowVars, lookupVars, trailVars, worldVars
<1> QED
    BY <1>1, <1>2, <1>3 DEF TypeOK

LEMMA BootType ==
    ASSUME TypeOK, NEW s \in Workers, BootAudit(s) \/ BootSelect(s) \/ BootIndex(s)
    PROVE  TypeOK'
<1>1. CASE BootAudit(s)
    <2>1. worker' \in [Workers -> WorkerState]
        BY <1>1, GotoType DEF TypeOK, BootAudit, Labels
    <2>2. TablesTypeOK'
        BY <1>1, AuditType DEF TypeOK, BootAudit
    <2> QED
        BY <1>1, <2>1, <2>2 DEF TypeOK, BootAudit
<1>2. CASE BootSelect(s) \/ BootIndex(s)
    <2>1. PICK op \in {worker[s].op, "backfill"}, todo \in SUBSET Ids :
            worker' = [worker EXCEPT ![s] =
                          [worker[s] EXCEPT !.pc = "next", !.op = op, !.todo = todo]]
        <3>1. CASE BootSelect(s)
            <4>1. Due \in SUBSET Ids
                BY DEF Due
            <4>2. [worker[s] EXCEPT !.pc = "next", !.op = worker[s].op, !.todo = Due]
                  = [worker[s] EXCEPT !.pc = "next", !.todo = Due]
                BY DEF TypeOK, WorkerState, WorkerRecord
            <4> QED
                BY <3>1, <4>1, <4>2 DEF BootSelect
        <3>2. CASE BootIndex(s)
            BY <3>2 DEF BootIndex, StaleBuffered
        <3> QED
            BY <1>2, <3>1, <3>2
    <2> DEFINE x == [worker[s] EXCEPT !.pc = "next", !.op = op, !.todo = todo]
    <2>2. x \in WorkerState
        <3>1. /\ worker[s] \in WorkerRecord
              /\ worker[s].op = "restore" => Protected
            BY DEF TypeOK, WorkerState
        <3>2. x \in WorkerRecord /\ x.pc = "next" /\ x.op = op
            BY <3>1 DEF WorkerRecord, Labels, Ops
        <3> HIDE DEF x
        <3> QED
            BY <3>1, <3>2 DEF WorkerState
    <2>3. worker' \in [Workers -> WorkerState]
        <3>1. worker' = [worker EXCEPT ![s] = x]
            BY <2>1
        <3> HIDE DEF x
        <3> QED
            BY <2>2, <3>1, AssignType DEF TypeOK
    <2> QED
        BY <1>2, <2>3, StillTypeOK DEF BootSelect, BootIndex
<1> QED
    BY <1>1, <1>2

LEMMA WorldTypeOK ==
    ASSUME TypeOK, World
    PROVE  TypeOK'
<1>1. PICK hours \in Nat : Tick \/ SetBufferHours(hours)
    BY LifecycleAssumption DEF World
<1>2. TablesTypeOK'
    BY <1>1, WorldType DEF TypeOK
<1> QED
    BY <1>2 DEF TypeOK, World

LEMMA TypeStep ==
    ASSUME TypeOK, [Next]_vars
    PROVE  TypeOK'
<1> USE DEF Workers
<1>1. CASE \E s \in Servers : Report(s) \/ BatchPublish(s) \/ BatchDelete(s) \/ Crash(s)
    BY <1>1, ReportType, BatchType, FaultType
<1>2. CASE \E s \in Servers, r \in Ids : \/ PublishMcp(s, r) \/ PatchMcp(s, r)
                                        \/ OpenEdit(s, r) \/ EditPortal(s, r)
                                        \/ Restore(s, r) \/ Approve(s, r) \/ Reject(s, r)
    BY <1>2, RequestType, PatchType, OpenEditType
<1>3. CASE \E t \in Threads, r \in Ids : PublishPortal(t, r)
    BY <1>3, RequestType
<1>4. CASE \E w \in Workers, r \in Ids : Delete(w, r)
    BY <1>4, RequestType
<1>5. CASE \E w \in Workers : StartJob(w) \/ FailRequest(w)
    BY <1>5, StartJobType, FaultType
<1>6. CASE \E w \in Workers : Step(w)
    <2>1. PICK w \in Workers : Step(w)
        BY <1>6
    <2>2. CASE StoreReport(w) \/ RefuseReport(w) \/ \E r \in Ids : ReplayReport(w, r)
        BY <2>2, StoreReportType, RefuseReportType, ReplayReportType
    <2>3. CASE SyncRead(w) \/ SyncIndex(w) \/ SyncEmbed(w) \/ Reread(w)
        BY <2>3, SyncType, RereadType
    <2>4. CASE Relate(w) \/ Unrelate(w) \/ Audit(w) \/ Answer(w) \/ HardDelete(w)
        BY <2>4, TrailType, HardDeleteType
    <2>5. CASE Next1(w) \/ Recheck(w) \/ Update(w)
        BY <2>5, ListType, RecheckType, UpdateType
    <2>6. CASE BootAudit(w) \/ BootSelect(w) \/ BootIndex(w)
        BY <2>6, BootType
    <2> QED
        BY <2>1, <2>2, <2>3, <2>4, <2>5, <2>6 DEF Step
<1>7. CASE World
    BY <1>7, WorldTypeOK
<1>8. CASE UNCHANGED vars
    BY <1>8, StillTypeOK DEF vars, TypeOK
<1> QED
    BY <1>1, <1>2, <1>3, <1>4, <1>5, <1>6, <1>7, <1>8 DEF Next

LEMMA TypeInit ==
    ASSUME Init
    PROVE  TypeOK
<1>1. TablesTypeOK
    <2>1. /\ NoRow \in Row
          /\ bufferHours \in Nat
        BY LifecycleAssumption DEF Init, NoRow, Row, Times
    <2> QED
        BY <2>1, NothingType DEF Init, TablesInit, TablesTypeOK
<1> QED
    BY <1>1, NothingType, LifecycleAssumption DEF Init, TypeOK

\* Every table and every worker keeps its type: no step stores a status, a
\* time or a label its column does not have, no step needs a record its worker
\* does not hold, and no worker is at a step its request does not have.
THEOREM TypeCorrect == Spec => []TypeOK
<1>1. Init => TypeOK
    BY TypeInit
<1>2. TypeOK /\ [Next]_vars => TypeOK'
    BY TypeStep
<1> QED
    BY <1>1, <1>2, PTL DEF Spec

-----------------------------------------------------------------------------
(* Who writes table records, and how.                                      *)

LEMMA RowsStep ==
    ASSUME [Next]_vars
    PROVE  \/ UNCHANGED rowVars
           \/ \E w \in Workers : StoreReport(w)
           \/ \E w \in Workers : Update(w)
           \/ \E w \in Workers : At(w, "erase") /\ EraseRow(Id(w))
<1>1. CASE \E w \in Workers : Step(w)
    <2>1. PICK w \in Workers : Step(w)
        BY <1>1
    <2>2. CASE Next1(w) \/ Recheck(w) \/ SyncRead(w) \/ Reread(w) \/ Answer(w)
                         \/ BootSelect(w) \/ BootIndex(w) \/ RefuseReport(w)
                         \/ \E r \in Ids : ReplayReport(w, r)
        BY <2>2 DEF Next1, Recheck, SyncRead, Reread, Answer, BootSelect, BootIndex,
                    RefuseReport, ReplayReport, tableVars
    <2>3. CASE SyncIndex(w) \/ SyncEmbed(w)
        BY <2>3 DEF SyncIndex, SyncEmbed, UpsertIndex, UpsertEmbedding
    <2>4. CASE Relate(w) \/ Unrelate(w) \/ Audit(w) \/ BootAudit(w)
        BY <2>4 DEF Relate, Unrelate, Audit, BootAudit, InsertRelations, EraseRelations,
                    AppendAudit, BackfillAudit
    <2>5. CASE HardDelete(w)
        BY <2>5 DEF HardDelete, InsertTombstone, MarkRelations, EraseEmbedding, EraseIndex
    <2> QED
        BY <2>1, <2>2, <2>3, <2>4, <2>5 DEF Step
<1>2. CASE \E w \in Workers : StartJob(w) \/ FailRequest(w)
    BY <1>2 DEF StartJob, FailRequest, tableVars
<1>3. CASE \E s \in Servers : Report(s) \/ BatchPublish(s) \/ BatchDelete(s) \/ Crash(s)
    BY <1>3 DEF Report, BatchPublish, BatchDelete, Crash, tableVars
<1>4. CASE \E w \in Workers, r \in Ids : \/ PublishMcp(w, r) \/ PatchMcp(w, r)
                                        \/ OpenEdit(w, r) \/ EditPortal(w, r) \/ Restore(w, r)
                                        \/ Approve(w, r) \/ Reject(w, r)
                                        \/ PublishPortal(w, r) \/ Delete(w, r)
    BY <1>4 DEF PublishMcp, PatchMcp, OpenEdit, EditPortal, Restore, Approve, Reject,
                PublishPortal, Delete, tableVars
<1>5. CASE World
    BY <1>5 DEF World, Tick, SetBufferHours
<1>6. CASE UNCHANGED vars
    BY <1>6 DEF vars, tableVars
<1> QED
    BY <1>1, <1>2, <1>3, <1>4, <1>5, <1>6 DEF Next, Workers

\* An UPDATE of a request keeps the row where it is, gives nothing back to the
\* write buffer, and edits and publishes buffered rows only.
LEMMA UpdateEffect ==
    ASSUME TypeOK, NEW w \in Workers, Update(w), NEW r \in Ids
    PROVE  /\ Exists(r)' <=> Exists(r)
           /\ IsBuffered(r)' => IsBuffered(r)
           /\ records'[r].version # records[r].version => IsBuffered(r)
           /\ records'[r].status = "active" =>
                \/ records[r].status \in {"active", "buffered"}
                \/ Id(w) = r /\ worker[w].op \in {"restore", "approve"}
           /\ r \in everActive' <=> r \in everActive \/ records'[r].status = "active"
           /\ r \in wentPublic' <=> \/ records'[r].status = "active"
                                    \/ r \in wentPublic /\ Exists(r)'
           /\ born' = born /\ reborn' = reborn
           /\ r \in awaitingReview' => r \in awaitingReview
           /\ Id(w) = r /\ worker[w].op = "approve" => r \notin awaitingReview'
<1>1. worker[w].op \in Updating
    BY DEF TypeOK, WorkerState, Update, At
<1>2. records[r] \in Row
    BY DEF TypeOK, TablesTypeOK
<1>3. CASE \E S : PublishRows(S) /\ worker[w].op \in Publishing \cup {"batch_publish"}
    BY <1>2, <1>3, ZenonT(60) DEF PublishRows, UpdateRows, RememberActive, Exists, IsBuffered, Row,
                      Publishing, Jobs
<1>4. CASE \E at : EditRow(Id(w), at) /\ worker[w].op \in {"patch_mcp", "patch_portal"}
    <2>1. PICK at : EditRow(Id(w), at) /\ worker[w].op \in {"patch_mcp", "patch_portal"}
        BY <1>4
    <2> DEFINE edited == [records[r] EXCEPT !.version = @ + 1, !.publishAt = at]
    <2>2. edited.status = records[r].status
        BY <1>2 DEF Row
    <2>3. records'[r] = IF r = Id(w) /\ IsBuffered(r) /\ Exists(r) THEN edited ELSE records[r]
        BY <2>1 DEF EditRow, UpdateRows
    <2>4. UNCHANGED <<born, reborn, awaitingReview>> /\ RememberActive
        BY <2>1 DEF EditRow, UpdateRows
    <2> HIDE DEF edited
    <2> QED
        BY <2>1, <2>2, <2>3, <2>4 DEF RememberActive, Exists, IsBuffered
<1>5. CASE TrashRow(Id(w)) /\ worker[w].op \in {"delete", "batch_delete"}
    BY <1>2, <1>5 DEF TrashRow, UpdateRows, RememberActive, Exists, IsBuffered, Row
<1>6. CASE RestoreRow(Id(w)) /\ worker[w].op = "restore"
    BY <1>2, <1>6 DEF RestoreRow, UpdateRows, RememberActive, Exists, IsBuffered, Row
<1>7. CASE SetStatus(Id(w), "active") /\ worker[w].op = "approve"
    BY <1>2, <1>7 DEF SetStatus, UpdateRows, RememberActive, Exists, IsBuffered, Row
<1>8. CASE SetStatus(Id(w), "invalid") /\ worker[w].op = "reject"
    BY <1>2, <1>8 DEF SetStatus, UpdateRows, RememberActive, Exists, IsBuffered, Row
<1> QED
    BY <1>1, <1>3, <1>4, <1>5, <1>6, <1>7, <1>8 DEF Update, Updating, Rechecking, Publishing, Jobs

LEMMA StoreReportEffect ==
    ASSUME TypeOK, NEW w \in Workers, StoreReport(w)
    PROVE  \E r \in Storable(w), status \in Statuses :
              /\ r \in Ids /\ ~Exists(r)
              /\ records' = [records EXCEPT ![r] = records'[r]]
              /\ records'[r].status = status
              /\ born' = born \cup {r}
              /\ reborn' = IF r \in born THEN reborn \cup {r} ELSE reborn
              /\ RememberActive
              /\ awaitingReview' \subseteq awaitingReview \cup {r}
              /\ status # "draft" => awaitingReview' = awaitingReview \ {r}
              /\ Id(w)' = r /\ worker'[w].entry.status = status
              /\ \A v \in Workers \ {w} : worker'[v] = worker[v]
<1>1. PICK r \in Storable(w), kind \in {"draft", "verify", "new"},
           based_on \in SUBSET Ids :
        LET status == StatusOfReport(kind, worker[w].at) IN
        /\ InsertRecord(r, status, IF status = "buffered" THEN worker[w].at ELSE Never,
                        based_on)
        /\ worker' = [worker EXCEPT ![w] =
               [IdleWorker EXCEPT !.pc = "sync_index", !.op = "report", !.id = r,
                                  !.entry = [status |-> status, version |-> 0]]]
    BY DEF StoreReport
<1> DEFINE status == StatusOfReport(kind, worker[w].at)
<1>2. status \in Statuses /\ r \in Ids
    BY DEF StatusOfReport, Statuses, Storable, TypeOK, TablesTypeOK
<1>3. worker' = [worker EXCEPT ![w] =
               [IdleWorker EXCEPT !.pc = "sync_index", !.op = "report", !.id = r,
                                  !.entry = [status |-> status, version |-> 0]]]
    BY <1>1
<1>4. InsertRecord(r, status, IF status = "buffered" THEN worker[w].at ELSE Never, based_on)
    BY <1>1
<1> HIDE DEF status
<1>5. /\ Id(w)' = r /\ worker'[w].entry.status = status
      /\ \A v \in Workers \ {w} : worker'[v] = worker[v]
    BY <1>3 DEF TypeOK, IdleWorker, Id
<1>6. /\ records' = [records EXCEPT ![r] = records'[r]]
      /\ records'[r].status = status
    BY <1>2, <1>4 DEF InsertRecord, TypeOK, TablesTypeOK
<1>7. /\ ~Exists(r)
      /\ born' = born \cup {r}
      /\ reborn' = IF r \in born THEN reborn \cup {r} ELSE reborn
      /\ RememberActive
      /\ awaitingReview' \subseteq awaitingReview \cup {r}
      /\ status # "draft" => awaitingReview' = awaitingReview \ {r}
    BY <1>4 DEF InsertRecord
<1> QED
    BY <1>2, <1>5, <1>6, <1>7

LEMMA EraseEffect ==
    ASSUME TypeOK, NEW e, EraseRow(e), NEW r \in Ids
    PROVE  /\ records'[r] = IF r = e THEN NoRow ELSE records[r]
           /\ r \in everActive' <=> r \in everActive \/ records'[r].status = "active"
           /\ r \in wentPublic' <=> \/ records'[r].status = "active"
                                    \/ r \in wentPublic /\ Exists(r)'
           /\ born' = born /\ reborn' = reborn /\ awaitingReview' = awaitingReview
BY DEF EraseRow, RememberActive, Exists, TypeOK, TablesTypeOK

-----------------------------------------------------------------------------
(* The write buffer, the review queue and the text of published records.   *)

LEMMA HistoryStep ==
    ASSUME IndInv, [Next]_vars
    PROVE  /\ HistoryFits'
           /\ BufferedNeverPublic'
           /\ (~Protected => DraftNeedsReview)'
<1>0. TypeOK
    BY DEF IndInv
<1>1. CASE UNCHANGED rowVars
    BY <1>1 DEF IndInv, HistoryFits, BufferedNeverPublic, DraftNeedsReview, rowVars,
                Exists, IsBuffered
<1>2. CASE \E w \in Workers : StoreReport(w)
    <2>1. PICK r \in Ids, status \in Statuses :
              /\ ~Exists(r)
              /\ records' = [records EXCEPT ![r] = records'[r]]
              /\ records'[r].status = status
              /\ born' = born \cup {r}
              /\ reborn' = IF r \in born THEN reborn \cup {r} ELSE reborn
              /\ RememberActive
              /\ awaitingReview' \subseteq awaitingReview \cup {r}
              /\ status # "draft" => awaitingReview' = awaitingReview \ {r}
        BY <1>0, <1>2, StoreReportEffect
    <2>2. /\ \A x \in Ids \ {r} : records'[x] = records[x]
          /\ awaitingReview \subseteq Ids
        BY <1>0, <2>1 DEF TypeOK, TablesTypeOK
    <2>3. r \notin wentPublic
        BY <2>1 DEF IndInv, HistoryFits
    <2>4. \A x \in Ids :
              /\ x \in everActive' <=> x \in everActive \/ records'[x].status = "active"
              /\ x \in wentPublic' <=> \/ records'[x].status = "active"
                                       \/ x \in wentPublic /\ Exists(x)'
        BY <2>1 DEF RememberActive, Exists
    <2>5. HistoryFits'
        <3>1. ASSUME NEW x \in Ids
              PROVE  /\ Exists(x)' => x \in born'
                     /\ records'[x].status = "active" => x \in everActive' /\ x \in wentPublic'
                     /\ x \in everActive' => x \in born'
                     /\ x \in wentPublic' => Exists(x)'
                     /\ x \in awaitingReview' => x \in born' /\ ~IsBuffered(x)'
                     /\ x \in reborn' => x \in born'
            <4>1. CASE x = r
                BY <2>1, <2>4, <4>1 DEF Exists, IsBuffered
            <4>2. CASE x # r
                BY <2>1, <2>2, <2>4, <4>2 DEF IndInv, HistoryFits, Exists, IsBuffered
            <4> QED
                BY <4>1, <4>2
        <3> QED
            BY <3>1 DEF HistoryFits
    <2>6. BufferedNeverPublic'
        <3>1. ASSUME NEW x \in Ids, IsBuffered(x)'
              PROVE  x \notin wentPublic'
            <4>1. x # r => IsBuffered(x)
                BY <2>2, <3>1 DEF IsBuffered
            <4> QED
                BY <2>3, <2>4, <3>1, <4>1 DEF IndInv, BufferedNeverPublic, IsBuffered
        <3> QED
            BY <3>1 DEF BufferedNeverPublic
    <2>7. ASSUME ~Protected, NEW x \in awaitingReview'
          PROVE  records'[x].status # "active"
        <3>1. CASE x = r
            BY <2>1, <2>7, <3>1
        <3>2. CASE x # r
            BY <2>1, <2>2, <2>7, <3>2 DEF IndInv, DraftNeedsReview
        <3> QED
            BY <3>1, <3>2
    <2> QED
        BY <2>5, <2>6, <2>7 DEF DraftNeedsReview
<1>3. CASE \E w \in Workers : Update(w)
    <2>1. PICK w \in Workers : Update(w)
        BY <1>3
    <2>2. worker[w].op = "restore" => Protected
        BY <1>0, <2>1 DEF TypeOK, WorkerState
    <2>3. awaitingReview' \subseteq Ids
        BY <1>0, TypeStep DEF TypeOK, TablesTypeOK
    <2>4. HistoryFits'
        <3>1. ASSUME NEW r \in Ids
              PROVE  /\ Exists(r)' => r \in born'
                     /\ records'[r].status = "active" => r \in everActive' /\ r \in wentPublic'
                     /\ r \in everActive' => r \in born'
                     /\ r \in wentPublic' => Exists(r)'
                     /\ r \in awaitingReview' => r \in born' /\ ~IsBuffered(r)'
                     /\ r \in reborn' => r \in born'
            <4>1. records'[r].status = "active" => Exists(r)'
                BY DEF Exists
            <4> QED
                BY <1>0, <2>1, <4>1, UpdateEffect DEF IndInv, HistoryFits
        <3> QED
            BY <3>1 DEF HistoryFits
    <2>5. BufferedNeverPublic'
        <3>1. ASSUME NEW r \in Ids, IsBuffered(r)'
              PROVE  r \notin wentPublic'
            BY <1>0, <2>1, <3>1, UpdateEffect DEF IndInv, BufferedNeverPublic, IsBuffered
        <3> QED
            BY <3>1 DEF BufferedNeverPublic
    <2>6. ASSUME ~Protected, NEW r \in awaitingReview'
          PROVE  records'[r].status # "active"
        <3>1. /\ r \in Ids /\ r \in awaitingReview
              /\ records[r].status \notin {"active", "buffered"}
            BY <1>0, <2>1, <2>3, <2>6, UpdateEffect
               DEF IndInv, HistoryFits, DraftNeedsReview, IsBuffered
        <3> QED
            BY <1>0, <2>1, <2>2, <2>6, <3>1, UpdateEffect
    <2> QED
        BY <2>4, <2>5, <2>6 DEF DraftNeedsReview
<1>4. CASE \E w \in Workers : At(w, "erase") /\ EraseRow(Id(w))
    <2>1. PICK e : EraseRow(e)
        BY <1>4
    <2>2. awaitingReview' = awaitingReview /\ awaitingReview \subseteq Ids
        BY <1>0, <2>1 DEF EraseRow, TypeOK, TablesTypeOK
    <2>3. ASSUME NEW r \in Ids
          PROVE  /\ Exists(r)' => Exists(r)
                 /\ records'[r].status \in {"active", "buffered"} => records'[r] = records[r]
                 /\ r \in everActive' <=> r \in everActive \/ records'[r].status = "active"
                 /\ r \in wentPublic' <=> \/ records'[r].status = "active"
                                          \/ r \in wentPublic /\ Exists(r)'
                 /\ born' = born /\ reborn' = reborn /\ awaitingReview' = awaitingReview
        BY <1>0, <2>1, EraseEffect DEF NoRow, Exists
    <2>4. HistoryFits' /\ BufferedNeverPublic'
        BY <2>3 DEF IndInv, HistoryFits, BufferedNeverPublic, IsBuffered, Exists
    <2>5. ASSUME ~Protected, NEW r \in awaitingReview'
          PROVE  records'[r].status # "active"
        BY <2>2, <2>3, <2>5 DEF IndInv, DraftNeedsReview
    <2> QED
        BY <2>4, <2>5 DEF DraftNeedsReview
<1> QED
    BY <1>1, <1>2, <1>3, <1>4, RowsStep

LEMMA FrozenStep ==
    ASSUME IndInv, [Next]_vars, NEW r \in wentPublic, records'[r].status # "none"
    PROVE  records'[r].version = records[r].version
<1>0. TypeOK /\ r \in Ids
    BY DEF IndInv, TypeOK, TablesTypeOK
<1>1. CASE UNCHANGED rowVars
    BY <1>1 DEF rowVars
<1>2. CASE \E w \in Workers : StoreReport(w)
    <2>1. Exists(r)
        BY <1>0 DEF IndInv, HistoryFits
    <2>2. \E x \in Ids : ~Exists(x) /\ records' = [records EXCEPT ![x] = records'[x]]
        BY <1>0, <1>2, StoreReportEffect
    <2> QED
        BY <1>0, <2>1, <2>2 DEF TypeOK, TablesTypeOK
<1>3. CASE \E w \in Workers : Update(w)
    BY <1>0, <1>3, UpdateEffect DEF IndInv, BufferedNeverPublic
<1>4. CASE \E w \in Workers : At(w, "erase") /\ EraseRow(Id(w))
    BY <1>0, <1>4, EraseEffect DEF NoRow
<1> QED
    BY <1>1, <1>2, <1>3, <1>4, RowsStep

\* A trashed record becomes active by a restore or a review only: the UPDATE of
\* every publication asks for status buffered, and an INSERT is where there is no row.
LEMMA TrashStep ==
    ASSUME IndInv, [Next]_vars, NEW r \in Ids,
           records[r].status = "trashed", records'[r].status = "active"
    PROVE  \E w \in Workers : Id(w) = r /\ worker[w].op \in {"restore", "approve"}
<1>0. TypeOK /\ Exists(r)
    BY DEF IndInv, Exists
<1>1. CASE UNCHANGED rowVars
    BY <1>1 DEF rowVars
<1>2. CASE \E w \in Workers : StoreReport(w)
    <2>1. PICK x \in Ids : ~Exists(x) /\ records' = [records EXCEPT ![x] = records'[x]]
        BY <1>0, <1>2, StoreReportEffect
    <2>2. records'[r] = records[r]
        BY <1>0, <2>1 DEF TypeOK, TablesTypeOK
    <2> QED
        BY <2>2
<1>3. CASE \E w \in Workers : Update(w)
    BY <1>0, <1>3, UpdateEffect
<1>4. CASE \E w \in Workers : At(w, "erase") /\ EraseRow(Id(w))
    BY <1>0, <1>4, EraseEffect DEF NoRow
<1> QED
    BY <1>1, <1>2, <1>3, <1>4, RowsStep

-----------------------------------------------------------------------------
(* The search tables and the tombstones.                                   *)

\* How a worker gets to a step that writes the search tables or that follows
\* the tombstone of a hard deletion.
LEMMA GuardedStep ==
    ASSUME TypeOK, [Next]_vars, NEW w \in Workers,
           worker'[w].pc \in {"sync_index", "sync_embed", "mark", "erase"},
           worker'[w] # worker[w]
    PROVE  \/ StoreReport(w)
           \/ /\ SyncRead(w)
              /\ worker'[w] = [worker[w] EXCEPT !.pc = "sync_index",
                                                !.entry = EntryOf(Id(w))]
           \/ SyncIndex(w) /\ worker'[w] = [worker[w] EXCEPT !.pc = "sync_embed"]
           \/ /\ At(w, "tombstone") /\ InsertTombstone(Id(w))
              /\ worker'[w] = [worker[w] EXCEPT !.pc = "mark"]
           \/ At(w, "mark") /\ worker'[w] = [worker[w] EXCEPT !.pc = "erase"]
<1> DEFINE Guarded == {"sync_index", "sync_embed", "mark", "erase"}
<1>0. worker \in [Workers -> WorkerState] /\ worker[w] \in WorkerRecord
    BY DEF TypeOK, WorkerState
<1>1. CASE \E v \in Workers : Step(v)
    <2>1. PICK v \in Workers : Step(v)
        BY <1>1
    <2>2. v = w
        <3>1. \E x : worker' = [worker EXCEPT ![v] = x]
            <4>1. CASE \E label : Goto(v, label)
                BY <4>1 DEF Goto
            <4>2. CASE Next1(v) \/ SyncRead(v) \/ Reread(v) \/ BootSelect(v) \/ BootIndex(v)
                BY <4>1, <4>2 DEF Next1, SyncRead, Reread, Become, BootSelect, BootIndex
            <4>3. CASE StoreReport(v) \/ \E r \in Ids : ReplayReport(v, r)
                BY <4>3 DEF StoreReport, ReplayReport, Start
            <4> QED
                BY <2>1, <4>1, <4>2, <4>3
                   DEF Step, Recheck, Update, RefuseReport, SyncIndex, SyncEmbed, Relate, Unrelate, Audit,
                       Answer, HardDelete, BootAudit
        <3> QED
            BY <1>0, <3>1
    <2>3. CASE \E label \in Labels \ Guarded : Goto(w, label)
        BY <1>0, <2>3 DEF Goto, IdleWorker, WorkerRecord
    <2>4. CASE SyncRead(w)
        <3>1. CASE Exists(Id(w))
            BY <1>0, <2>4, <3>1 DEF SyncRead
        <3>2. CASE ~Exists(Id(w))
            <4>1. AfterSync(w) \in Labels \ Guarded
                BY DEF AfterSync, Done, Labels
            <4> QED
                BY <2>3, <2>4, <3>2, <4>1 DEF SyncRead
        <3> QED
            BY <3>1, <3>2
    <2>5. CASE SyncIndex(w)
        BY <1>0, <2>5 DEF SyncIndex, Goto
    <2>6. CASE SyncEmbed(w)
        <3>1. AfterSync(w) \in Labels \ Guarded
            BY DEF AfterSync, Done, Labels
        <3> QED
            BY <2>3, <2>6, <3>1 DEF SyncEmbed
    <2>7. CASE HardDelete(w)
        BY <1>0, <2>3, <2>7 DEF HardDelete, Goto, Done, Labels
    <2>8. CASE Next1(w)
        <3>1. CASE worker[w].todo = {}
            <4>1. CASE worker[w].op = "report_job"
                <5>1. worker' = [worker EXCEPT ![w] = [@ EXCEPT !.pc = "insert",
                                                                !.known = born]]
                    BY <2>8, <3>1, <4>1 DEF Next1
                <5> QED
                    BY <1>0, <5>1 DEF WorkerRecord
            <4> QED
                BY <2>3, <2>8, <3>1, <4>1 DEF Next1, Labels
        <3>2. CASE worker[w].todo # {}
            <4>1. PICK r, label : /\ label = FirstLabel(worker[w].op, r)
                                  /\ worker' = [worker EXCEPT ![w] = [@ EXCEPT
                                        !.id = r, !.todo = worker[w].todo \ {r},
                                        !.pc = label]]
                BY <2>8, <3>2 DEF Next1
            <4>2. label \notin Guarded
                BY <4>1 DEF FirstLabel
            <4> QED
                BY <1>0, <4>1, <4>2 DEF WorkerRecord
        <3> QED
            BY <3>1, <3>2
    <2>9. CASE Recheck(w) \/ Update(w) \/ Relate(w) \/ Unrelate(w) \/ Audit(w) \/ Answer(w)
               \/ BootAudit(w) \/ RefuseReport(w)
        BY <2>3, <2>9 DEF Recheck, Update, Relate, Unrelate, Audit, Answer, BootAudit,
                          RefuseReport, Done, Labels
    <2>10. CASE Reread(w)
        <3>1. CASE \E op : Become(w, op, "recheck")
            BY <1>0, <3>1 DEF Become, WorkerRecord
        <3> QED
            BY <2>3, <2>10, <3>1 DEF Reread, Done, Labels
    <2>11. CASE BootSelect(w) \/ BootIndex(w)
        <3>1. worker'[w].pc = "next"
            BY <1>0, <2>11 DEF BootSelect, BootIndex, WorkerRecord
        <3> QED
            BY <3>1
    <2>12. CASE \E r \in Ids : ReplayReport(w, r)
        <3>1. worker'[w].pc = "sync_read"
            BY <1>0, <2>12 DEF ReplayReport, Start, IdleWorker
        <3> QED
            BY <3>1
    <2> QED
        BY <2>1, <2>2, <2>4, <2>5, <2>6, <2>7, <2>8, <2>9, <2>10, <2>11, <2>12 DEF Step
<1>2. CASE \E v \in Workers : StartJob(v) \/ FailRequest(v) \/ Report(v) \/ BatchPublish(v)
                                \/ BatchDelete(v)
    <2>1. PICK v \in Workers : StartJob(v) \/ FailRequest(v) \/ Report(v) \/ BatchPublish(v)
                               \/ BatchDelete(v)
        BY <1>2
    <2>2. /\ v # w => worker'[w] = worker[w]
          /\ worker'[v].pc \in {"idle", "next", "update"}
        <3>1. CASE FailRequest(v)
            BY <1>0, <3>1 DEF FailRequest, Goto, IdleWorker
        <3>2. CASE StartJob(v) \/ Report(v)
            BY <1>0, <3>2 DEF StartJob, Report, IdleWorker
        <3>3. CASE BatchPublish(v) \/ BatchDelete(v)
            BY <1>0, <3>3 DEF BatchPublish, BatchDelete, IdleWorker
        <3> QED
            BY <2>1, <3>1, <3>2, <3>3
    <2>3. worker'[w].pc \notin Guarded
        BY <1>0, <2>2
    <2> QED
        BY <2>3
<1>3. CASE \E s \in Servers : Crash(s)
    <2>1. worker'[w].pc \notin Guarded
        BY <1>0, <1>3 DEF Crash, IdleWorker
    <2> QED
        BY <2>1
<1>4. CASE \E v \in Workers, r \in Ids : \/ PublishMcp(v, r) \/ PatchMcp(v, r)
                                        \/ EditPortal(v, r) \/ Restore(v, r)
                                        \/ Approve(v, r) \/ Reject(v, r)
                                        \/ PublishPortal(v, r) \/ Delete(v, r)
    <2>1. PICK v \in Workers, r \in Ids :
            \/ PublishMcp(v, r) \/ PatchMcp(v, r) \/ EditPortal(v, r) \/ Restore(v, r)
            \/ Approve(v, r) \/ Reject(v, r) \/ PublishPortal(v, r) \/ Delete(v, r)
        BY <1>4
    <2>2. /\ v # w => worker'[w] = worker[w]
          /\ worker'[v].pc \in {"recheck", "update", "tombstone"}
        BY <1>0, <2>1 DEF PublishMcp, PatchMcp, EditPortal, Restore, Approve, Reject,
                                  PublishPortal, Delete, Start, IdleWorker
    <2>3. worker'[w].pc \notin Guarded
        BY <1>0, <2>2
    <2> QED
        BY <2>3
<1>5. CASE World \/ UNCHANGED vars \/ \E s \in Servers, r \in Ids : OpenEdit(s, r)
    BY <1>5 DEF World, OpenEdit, vars
<1> QED
    BY <1>1, <1>2, <1>3, <1>4, <1>5 DEF Next, Workers

\* Who writes the search tables, and what the step leaves alone.
LEMMA LookupStep ==
    ASSUME TypeOK, [Next]_vars
    PROVE  \/ UNCHANGED lookupVars
           \/ \E w \in Workers : SyncIndex(w)
           \/ \E w \in Workers : SyncEmbed(w)
           \/ \E r : EraseEmbedding(r) \/ EraseIndex(r)
<1>1. CASE \E w \in Workers : Step(w)
    <2>1. PICK w \in Workers : Step(w)
        BY <1>1
    <2>2. CASE Next1(w) \/ Recheck(w) \/ SyncRead(w) \/ Reread(w) \/ Answer(w)
                         \/ BootSelect(w) \/ BootIndex(w) \/ RefuseReport(w)
                         \/ \E r \in Ids : ReplayReport(w, r)
        BY <2>2 DEF Next1, Recheck, SyncRead, Reread, Answer, BootSelect, BootIndex,
                    RefuseReport, ReplayReport, tableVars
    <2>3. CASE SyncIndex(w) \/ SyncEmbed(w)
        BY <2>3
    <2>4. CASE Relate(w) \/ Unrelate(w) \/ Audit(w) \/ BootAudit(w)
        BY <2>4 DEF Relate, Unrelate, Audit, BootAudit, InsertRelations, EraseRelations,
                    AppendAudit, BackfillAudit
    <2>5. CASE HardDelete(w)
        BY <2>5 DEF HardDelete, InsertTombstone, MarkRelations, EraseRow
    <2>6. CASE Update(w)
        <3>1. worker[w].op \in Updating
            BY <2>6 DEF TypeOK, WorkerState, Update, At
        <3> QED
            BY <2>6, <3>1 DEF Update, Updating, Rechecking, Publishing, Jobs, PublishRows,
                              EditRow, TrashRow, RestoreRow, SetStatus, UpdateRows
    <2>7. CASE StoreReport(w)
        BY <2>7 DEF StoreReport, InsertRecord
    <2> QED
        BY <2>1, <2>2, <2>3, <2>4, <2>5, <2>6, <2>7 DEF Step
<1>2. CASE \E w \in Workers : StartJob(w) \/ FailRequest(w)
    BY <1>2 DEF StartJob, FailRequest, tableVars
<1>3. CASE \E s \in Servers : BatchPublish(s) \/ BatchDelete(s) \/ Crash(s) \/ Report(s)
    BY <1>3 DEF BatchPublish, BatchDelete, Crash, Report, tableVars
<1>4. CASE \E w \in Workers, r \in Ids : \/ PublishMcp(w, r) \/ PatchMcp(w, r)
                                        \/ OpenEdit(w, r) \/ EditPortal(w, r) \/ Restore(w, r)
                                        \/ Approve(w, r) \/ Reject(w, r)
                                        \/ PublishPortal(w, r) \/ Delete(w, r)
    BY <1>4 DEF PublishMcp, PatchMcp, OpenEdit, EditPortal, Restore, Approve, Reject,
                PublishPortal, Delete, tableVars
<1>5. CASE World
    BY <1>5 DEF World, Tick, SetBufferHours
<1>6. CASE UNCHANGED vars
    BY <1>6 DEF vars, tableVars
<1> QED
    BY <1>1, <1>2, <1>3, <1>4, <1>5, <1>6 DEF Next, Workers

LEMMA EverActiveGrows ==
    ASSUME TypeOK, [Next]_vars
    PROVE  everActive \subseteq everActive'
<1>1. everActive \subseteq Ids
    BY DEF TypeOK, TablesTypeOK
<1>2. CASE UNCHANGED rowVars
    BY <1>2 DEF rowVars
<1>3. CASE \E w \in Workers : StoreReport(w)
    BY <1>3, StoreReportEffect DEF RememberActive
<1>4. CASE \E w \in Workers : Update(w)
    BY <1>1, <1>4, UpdateEffect
<1>5. CASE \E w \in Workers : At(w, "erase") /\ EraseRow(Id(w))
    BY <1>1, <1>5, EraseEffect
<1> QED
    BY <1>2, <1>3, <1>4, <1>5, RowsStep

\* A copy labelled active is of a record that has been active, in a worker's
\* hands and in the tables.
LEMMA PublicStep ==
    ASSUME IndInv, [Next]_vars
    PROVE  HeldNeverAhead' /\ IndexNeverAhead'
<1>0. TypeOK /\ everActive \subseteq everActive'
    BY EverActiveGrows DEF IndInv
<1>1. HeldNeverAhead'
    <2>1. SUFFICES ASSUME NEW w \in Workers,
                          worker'[w].pc \in {"sync_index", "sync_embed"},
                          worker'[w].entry.status = "active"
                   PROVE  worker'[w].id \in everActive'
        BY DEF HeldNeverAhead, Id
    <2>2. worker[w] \in WorkerRecord
        BY <1>0 DEF TypeOK, WorkerState
    <2>3. CASE worker'[w] = worker[w]
        BY <1>0, <2>1, <2>3 DEF IndInv, HeldNeverAhead, Id
    <2>4. CASE StoreReport(w)
        <3>1. PICK r \in Ids, status \in Statuses :
                /\ records'[r].status = status /\ RememberActive
                /\ Id(w)' = r /\ worker'[w].entry.status = status
            BY <1>0, <2>4, StoreReportEffect
        <3> QED
            BY <2>1, <3>1 DEF Id, RememberActive
    <2>5. CASE /\ SyncRead(w)
               /\ worker'[w] = [worker[w] EXCEPT !.pc = "sync_index",
                                                 !.entry = EntryOf(Id(w))]
        <3>1. Id(w) \in Ids
            BY <1>0, <2>5, BusyHasRecord DEF TypeOK, SyncRead, At
        <3>2. /\ worker'[w].id = Id(w)
              /\ worker'[w].entry = EntryOf(Id(w))
            BY <2>2, <2>5 DEF WorkerRecord, Id
        <3>3. records[Id(w)].status = "active"
            BY <2>1, <3>2 DEF EntryOf
        <3> QED
            BY <1>0, <3>1, <3>2, <3>3 DEF IndInv, HistoryFits
    <2>6. CASE SyncIndex(w) /\ worker'[w] = [worker[w] EXCEPT !.pc = "sync_embed"]
        <3>1. worker'[w].id = Id(w) /\ worker'[w].entry = worker[w].entry
            BY <2>2, <2>6 DEF WorkerRecord, Id
        <3> QED
            BY <1>0, <2>1, <2>6, <3>1 DEF IndInv, HeldNeverAhead, SyncIndex, At
    <2>7. CASE worker'[w] \in {[worker[w] EXCEPT !.pc = "mark"],
                                [worker[w] EXCEPT !.pc = "erase"]}
        BY <2>1, <2>2, <2>7 DEF WorkerRecord
    <2> QED
        BY <1>0, <2>1, <2>3, <2>4, <2>5, <2>6, <2>7, GuardedStep
<1>2. IndexNeverAhead'
    <2>1. SUFFICES ASSUME NEW r \in Ids,
                          "active" \in {searchIndex'[r].status, embeddings'[r].status}
                   PROVE  r \in everActive'
        BY DEF IndexNeverAhead
    <2>2. searchIndex \in [Ids -> Entry] /\ embeddings \in [Ids -> Entry]
        BY <1>0 DEF TypeOK, TablesTypeOK
    <2>3. "active" \in {searchIndex[r].status, embeddings[r].status} => r \in everActive'
        BY <1>0 DEF IndInv, IndexNeverAhead
    <2>4. CASE UNCHANGED lookupVars
        BY <2>1, <2>3, <2>4 DEF lookupVars
    <2>5. CASE \E w \in Workers : SyncIndex(w)
        <3>1. PICK w \in Workers : SyncIndex(w)
            BY <2>5
        <3>2. worker[w].entry.status = "active" => Id(w) \in everActive
            BY <3>1 DEF IndInv, HeldNeverAhead, SyncIndex, At
        <3> QED
            BY <1>0, <2>1, <2>2, <2>3, <3>1, <3>2 DEF SyncIndex, UpsertIndex
    <2>6. CASE \E w \in Workers : SyncEmbed(w)
        <3>1. PICK w \in Workers : SyncEmbed(w)
            BY <2>6
        <3>2. worker[w].entry.status = "active" => Id(w) \in everActive
            BY <3>1 DEF IndInv, HeldNeverAhead, SyncEmbed, At
        <3> QED
            BY <1>0, <2>1, <2>2, <2>3, <3>1, <3>2 DEF SyncEmbed, UpsertEmbedding, NoEntry
    <2>7. CASE \E x : EraseEmbedding(x) \/ EraseIndex(x)
        BY <2>1, <2>2, <2>3, <2>7 DEF EraseEmbedding, EraseIndex, NoEntry
    <2> QED
        BY <1>0, <2>4, <2>5, <2>6, <2>7, LookupStep
<1> QED
    BY <1>1, <1>2

\* Nothing removes a tombstone.
LEMMA TombstonesGrow ==
    ASSUME TypeOK, [Next]_vars
    PROVE  tombstones \subseteq tombstones'
<1>1. CASE \E w \in Workers : Step(w)
    <2>1. PICK w \in Workers : Step(w)
        BY <1>1
    <2>2. CASE Next1(w) \/ Recheck(w) \/ SyncRead(w) \/ Reread(w) \/ Answer(w)
                         \/ BootSelect(w) \/ BootIndex(w) \/ RefuseReport(w)
                         \/ \E r \in Ids : ReplayReport(w, r)
        BY <2>2 DEF Next1, Recheck, SyncRead, Reread, Answer, BootSelect, BootIndex,
                    RefuseReport, ReplayReport, tableVars, trailVars
    <2>3. CASE SyncIndex(w) \/ SyncEmbed(w)
        BY <2>3 DEF SyncIndex, SyncEmbed, UpsertIndex, UpsertEmbedding, trailVars
    <2>4. CASE Relate(w) \/ Unrelate(w) \/ Audit(w) \/ BootAudit(w)
        BY <2>4 DEF Relate, Unrelate, Audit, BootAudit, InsertRelations, EraseRelations,
                    AppendAudit, BackfillAudit
    <2>5. CASE HardDelete(w)
        BY <2>5 DEF HardDelete, InsertTombstone, MarkRelations, EraseRow, EraseEmbedding,
                    EraseIndex, trailVars
    <2>6. CASE Update(w)
        <3>1. worker[w].op \in Updating
            BY <2>6 DEF TypeOK, WorkerState, Update, At
        <3> QED
            BY <2>6, <3>1 DEF Update, Updating, Rechecking, Publishing, Jobs, PublishRows, EditRow,
                              TrashRow, RestoreRow, SetStatus, UpdateRows, trailVars
    <2>7. CASE StoreReport(w)
        BY <2>7 DEF StoreReport, InsertRecord, trailVars
    <2> QED
        BY <2>1, <2>2, <2>3, <2>4, <2>5, <2>6, <2>7 DEF Step
<1>2. CASE \E w \in Workers : StartJob(w) \/ FailRequest(w)
    BY <1>2 DEF StartJob, FailRequest, tableVars, trailVars
<1>3. CASE \E s \in Servers : BatchPublish(s) \/ BatchDelete(s) \/ Crash(s) \/ Report(s)
    BY <1>3 DEF BatchPublish, BatchDelete, Crash, Report, tableVars, trailVars
<1>4. CASE \E w \in Workers, r \in Ids : \/ PublishMcp(w, r) \/ PatchMcp(w, r)
                                        \/ OpenEdit(w, r) \/ EditPortal(w, r) \/ Restore(w, r)
                                        \/ Approve(w, r) \/ Reject(w, r)
                                        \/ PublishPortal(w, r) \/ Delete(w, r)
    BY <1>4 DEF PublishMcp, PatchMcp, OpenEdit, EditPortal, Restore, Approve, Reject,
                PublishPortal, Delete, tableVars, trailVars
<1>5. CASE World
    BY <1>5 DEF World, Tick, SetBufferHours, trailVars
<1>6. CASE UNCHANGED vars
    BY <1>6 DEF vars, tableVars, trailVars
<1> QED
    BY <1>1, <1>2, <1>3, <1>4, <1>5, <1>6 DEF Next, Workers

LEMMA TombstoneStep ==
    ASSUME IndInv, [Next]_vars
    PROVE  ErasesWithTombstone' /\ DeletedLeavesTombstone'
<1>0. TypeOK /\ tombstones \subseteq tombstones'
    BY TombstonesGrow DEF IndInv
<1>1. ErasesWithTombstone'
    <2>1. SUFFICES ASSUME NEW w \in Workers, worker'[w].pc \in {"mark", "erase"}
                   PROVE  worker'[w].id \in tombstones'
        BY DEF ErasesWithTombstone, Id
    <2>2. worker[w] \in WorkerRecord
        BY <1>0 DEF TypeOK, WorkerState
    <2>3. CASE worker'[w] = worker[w]
        BY <1>0, <2>1, <2>3 DEF IndInv, ErasesWithTombstone, Id
    <2>4. CASE StoreReport(w)
        <3>1. worker'[w].pc = "sync_index"
            BY <1>0, <2>4 DEF StoreReport, IdleWorker, TypeOK
        <3> QED
            BY <2>1, <3>1
    <2>5. CASE worker'[w] \in {[worker[w] EXCEPT !.pc = "sync_index",
                                                  !.entry = EntryOf(Id(w))],
                                [worker[w] EXCEPT !.pc = "sync_embed"]}
        BY <2>1, <2>2, <2>5 DEF WorkerRecord
    <2>6. CASE /\ At(w, "tombstone") /\ InsertTombstone(Id(w))
               /\ worker'[w] = [worker[w] EXCEPT !.pc = "mark"]
        BY <2>2, <2>6 DEF WorkerRecord, InsertTombstone, Id
    <2>7. CASE At(w, "mark") /\ worker'[w] = [worker[w] EXCEPT !.pc = "erase"]
        BY <1>0, <2>2, <2>7 DEF WorkerRecord, IndInv, ErasesWithTombstone, At, Id
    <2> QED
        BY <1>0, <2>1, <2>3, <2>4, <2>5, <2>6, <2>7, GuardedStep
<1>2. DeletedLeavesTombstone'
    <2>0. born \subseteq Ids /\ born' \subseteq Ids
        BY <1>0, TypeStep DEF TypeOK, TablesTypeOK
    <2>1. SUFFICES ASSUME NEW r \in born', ~Exists(r)'
                   PROVE  r \in tombstones'
        BY DEF DeletedLeavesTombstone
    <2>2. CASE UNCHANGED rowVars
        BY <1>0, <2>1, <2>2 DEF IndInv, DeletedLeavesTombstone, rowVars, Exists
    <2>3. CASE \E w \in Workers : StoreReport(w)
        <3>1. PICK x \in Ids, status \in Statuses :
                /\ records' = [records EXCEPT ![x] = records'[x]]
                /\ records'[x].status = status
                /\ born' = born \cup {x}
            BY <1>0, <2>3, StoreReportEffect
        <3>2. r # x
            BY <2>1, <3>1 DEF Statuses, Exists
        <3>3. records'[r] = records[r] /\ r \in born
            BY <1>0, <2>0, <3>1, <3>2 DEF TypeOK, TablesTypeOK
        <3> QED
            BY <1>0, <2>1, <3>3 DEF IndInv, DeletedLeavesTombstone, Exists
    <2>4. CASE \E w \in Workers : Update(w)
        BY <1>0, <2>0, <2>1, <2>4, UpdateEffect DEF IndInv, DeletedLeavesTombstone
    <2>5. CASE \E w \in Workers : At(w, "erase") /\ EraseRow(Id(w))
        <3>1. PICK w \in Workers : At(w, "erase") /\ EraseRow(Id(w))
            BY <2>5
        <3>2. Id(w) \in tombstones
            BY <3>1 DEF IndInv, ErasesWithTombstone, At
        <3>3. r \in born /\ (r # Id(w) => records'[r] = records[r])
            BY <1>0, <2>0, <3>1, EraseEffect
        <3> QED
            BY <1>0, <2>1, <3>2, <3>3 DEF IndInv, DeletedLeavesTombstone, Exists
    <2> QED
        BY <2>2, <2>3, <2>4, <2>5, RowsStep
<1> QED
    BY <1>1, <1>2

-----------------------------------------------------------------------------
(* The inductive invariant, and the theorems.                              *)

LEMMA IndInvInit ==
    ASSUME Init
    PROVE  IndInv
<1>1. \A r \in Ids : records[r].status = "none" /\ searchIndex[r].status = "none"
                                               /\ embeddings[r].status = "none"
    BY DEF Init, TablesInit, NoRow, NoEntry
<1>2. \A w \in Workers : worker[w].pc = "idle"
    BY DEF Init, IdleWorker
<1>3. born = {} /\ reborn = {} /\ everActive = {} /\ wentPublic = {} /\ awaitingReview = {}
    BY DEF Init, TablesInit
<1> QED
    BY <1>1, <1>2, <1>3, TypeInit
       DEF IndInv, HistoryFits, BufferedNeverPublic, HeldNeverAhead, IndexNeverAhead,
           ErasesWithTombstone, DeletedLeavesTombstone, DraftNeedsReview, Exists, IsBuffered

LEMMA IndInvStep ==
    ASSUME IndInv, [Next]_vars
    PROVE  IndInv'
BY TypeStep, HistoryStep, PublicStep, TombstoneStep DEF IndInv

\* The conjunction the theorems below are read from is an invariant.
THEOREM Inductive == Spec => []IndInv
<1>1. Init => IndInv
    BY IndInvInit
<1>2. IndInv /\ [Next]_vars => IndInv'
    BY IndInvStep
<1> QED
    BY <1>1, <1>2, PTL DEF Spec

\* A record that is gone has left its tombstone, however many processes ran
\* hard_delete_record on it and wherever they died.
THEOREM TombstonesLeft == Spec => []DeletedLeavesTombstone
<1>1. IndInv => DeletedLeavesTombstone
    BY DEF IndInv
<1> QED
    BY <1>1, Inductive, PTL

\* No interleaving of requests puts a record others could read back into the
\* write buffer.
THEOREM NeverBackInBuffer == Spec => []BufferedNeverPublic
<1>1. IndInv => BufferedNeverPublic
    BY DEF IndInv
<1> QED
    BY <1>1, Inductive, PTL

\* However late sync_record_search_index writes what it read, the search tables
\* never label active a record that was not.
THEOREM SearchNeverAhead == Spec => []IndexNeverAhead
<1>1. IndInv => IndexNeverAhead
    BY DEF IndInv
<1> QED
    BY <1>1, Inductive, PTL

\* The conditional UPDATE of update_buffered_record keeps a patch that comes too
\* late from changing the text of a published record.
THEOREM PublishedTextStays == Spec => PublishedTextFrozen
<1>1. IndInv /\ [Next]_vars =>
        [\A r \in wentPublic :
            records'[r].status # "none" => records'[r].version = records[r].version]_vars
    BY FrozenStep
<1> QED
    BY <1>1, Inductive, PTL DEF Spec, PublishedTextFrozen

\* In a library without deletion protection only a review makes a draft
\* readable to others.
THEOREM ReviewGatesDrafts ==
    ASSUME ~Protected
    PROVE  Spec => []DraftNeedsReview
<1>1. IndInv => DraftNeedsReview
    BY DEF IndInv
<1> QED
    BY <1>1, Inductive, PTL

\* Publication never brings a record back from the trash, whoever runs it and
\* however long ago it looked at the record.
THEOREM TrashSpared == Spec => PublishingSparesTrash
<1>1. IndInv /\ [Next]_vars =>
        [\A r \in Ids : records[r].status = "trashed" /\ records'[r].status = "active"
            => \E w \in Workers : Id(w) = r /\ worker[w].op \in {"restore", "approve"}]_vars
    BY TrashStep
<1> QED
    BY <1>1, Inductive, PTL DEF Spec, PublishingSparesTrash

-----------------------------------------------------------------------------
(* The promise: what the transactions do to a record's life.               *)

\* Where there is no row there is no text.
NoRowNoText == \A r \in Ids : ~Exists(r) => records[r].version = 0

\* The invariant the simulation needs.
PromiseInv == IndInv /\ NoRowNoText

Life(r) == [phase |-> PhaseOf(r), text |-> records[r].version]

\* What an UPDATE does to one row.
LEMMA UpdateMoves ==
    ASSUME TypeOK, NEW w \in Workers, Update(w), NEW r \in Ids
    PROVE  \/ records'[r] = records[r]
           \/ /\ IsBuffered(r)
              /\ records'[r].status = "buffered"
              /\ records'[r].version = records[r].version + 1
           \/ /\ Exists(r)
              /\ records'[r].status \in {"active", "invalid", "trashed"}
              /\ records'[r].version = records[r].version
<1>1. worker[w].op \in Updating
    BY DEF TypeOK, WorkerState, Update, At
<1>2. records[r] \in Row
    BY DEF TypeOK, TablesTypeOK
<1>3. CASE \E S : PublishRows(S)
    <2>1. PICK S : PublishRows(S)
        BY <1>3
    <2> DEFINE published == [records[r] EXCEPT !.status = "active", !.publishAt = Never]
    <2>2. published.status = "active" /\ published.version = records[r].version
        BY <1>2 DEF Row
    <2>3. \/ records'[r] = records[r]
          \/ Exists(r) /\ records'[r] = published
        BY <2>1 DEF PublishRows, UpdateRows
    <2> HIDE DEF published
    <2> QED
        BY <2>2, <2>3
<1>4. CASE \E at : EditRow(Id(w), at)
    <2>1. PICK at : EditRow(Id(w), at)
        BY <1>4
    <2> DEFINE edited == [records[r] EXCEPT !.version = @ + 1, !.publishAt = at]
    <2>2. edited.status = records[r].status /\ edited.version = records[r].version + 1
        BY <1>2 DEF Row
    <2>3. records'[r] = IF r = Id(w) /\ IsBuffered(r) /\ Exists(r) THEN edited ELSE records[r]
        BY <2>1 DEF EditRow, UpdateRows
    <2> HIDE DEF edited
    <2> QED
        BY <2>2, <2>3 DEF IsBuffered
<1>5. CASE TrashRow(Id(w))
    BY <1>2, <1>5 DEF TrashRow, UpdateRows, Exists, Row
<1>6. CASE RestoreRow(Id(w))
    BY <1>2, <1>6 DEF RestoreRow, UpdateRows, Exists, Row
<1>7. CASE \E status \in {"active", "invalid"} : SetStatus(Id(w), status)
    BY <1>2, <1>7 DEF SetStatus, UpdateRows, Exists, Row
<1> QED
    BY <1>1, <1>3, <1>4, <1>5, <1>6, <1>7 DEF Update, Updating, Rechecking, Publishing, Jobs

\* A stored report is a new row without edits.
LEMMA StoreMoves ==
    ASSUME TypeOK, NEW w \in Workers, StoreReport(w)
    PROVE  \E x \in Storable(w) :
              /\ x \in Ids /\ ~Exists(x)
              /\ records' = [records EXCEPT ![x] = records'[x]]
              /\ records'[x].status \in {"draft", "active", "buffered"}
              /\ records'[x].version = 0
              /\ born' = born \cup {x}
<1>0. Storable(w) \subseteq Ids
    BY DEF Storable, TypeOK, TablesTypeOK
<1>1. PICK x \in Storable(w), kind \in {"draft", "verify", "new"},
           based_on \in SUBSET Ids :
        LET status == StatusOfReport(kind, worker[w].at) IN
        InsertRecord(x, status, IF status = "buffered" THEN worker[w].at ELSE Never, based_on)
    BY DEF StoreReport
<1> DEFINE status == StatusOfReport(kind, worker[w].at)
<1>2. status \in {"draft", "active", "buffered"}
    BY DEF StatusOfReport
<1>3. InsertRecord(x, status, IF status = "buffered" THEN worker[w].at ELSE Never, based_on)
    BY <1>1
<1> HIDE DEF status
<1> QED
    BY <1>0, <1>2, <1>3 DEF InsertRecord, TypeOK, TablesTypeOK

LEMMA NoTextStep ==
    ASSUME PromiseInv, [Next]_vars
    PROVE  NoRowNoText'
<1>0. TypeOK /\ NoRowNoText
    BY DEF PromiseInv, IndInv
<1> SUFFICES ASSUME NEW r \in Ids, ~Exists(r)'
             PROVE  records'[r].version = 0
    BY DEF NoRowNoText
<1>1. CASE UNCHANGED rowVars
    BY <1>0, <1>1 DEF rowVars, NoRowNoText, Exists
<1>2. CASE \E w \in Workers : StoreReport(w)
    <2>1. \E x \in Ids : records' = [records EXCEPT ![x] = records'[x]] /\ records'[x].version = 0
        BY <1>0, <1>2, StoreMoves
    <2> QED
        BY <1>0, <2>1 DEF NoRowNoText, Exists, TypeOK, TablesTypeOK
<1>3. CASE \E w \in Workers : Update(w)
    BY <1>0, <1>3, UpdateMoves DEF NoRowNoText, Exists, IsBuffered
<1>4. CASE \E w \in Workers : At(w, "erase") /\ EraseRow(Id(w))
    BY <1>0, <1>4, EraseEffect DEF NoRowNoText, NoRow, Exists
<1> QED
    BY <1>1, <1>2, <1>3, <1>4, RowsStep

\* The initial tables are the initial promise.
LEMMA PromiseInit ==
    ASSUME Init
    PROVE  Promise!Init
<1>1. \A r \in Ids : PhaseOf(r) = "unborn" /\ records[r].version = 0
    BY DEF Init, TablesInit, NoRow, PhaseOf
<1> QED
    BY <1>1 DEF Promise!Init, Promise!Unborn

\* A row the step leaves as it is leaves the record's life as it is.
LEMMA SameRowSameLife ==
    ASSUME NEW r \in Ids, records'[r] = records[r], r \in born' <=> r \in born
    PROVE  Life(r)' = Life(r)
BY DEF Life, PhaseOf

-----------------------------------------------------------------------------
(* What the tables say once every request is over.                         *)
(*                                                                         *)
(* A request leaves the tables disagreeing between two of its              *)
(* transactions.  The argument is the same for each agreement: while a     *)
(* record lacks something, some worker still owes it, at a step from which *)
(* its request goes on to mend the record; an idle worker owes nothing.    *)
-----------------------------------------------------------------------------
(* Who may be where.                                                       *)

\* The requests that have a step.
OpsAt(label) ==
    CASE label = "idle"    -> {"none"}
      [] label = "insert"  -> {"report_job"}
      [] label = "recheck" -> Rechecking
      [] label = "update"  -> Updating
      [] label \in {"sync_read", "sync_index", "sync_embed"} ->
             Updating \cup {"report", "replay", "backfill"}
      [] label = "reread"  -> Jobs \cup {"publish_mcp", "patch_mcp", "patch_portal",
                                         "publish_patched_mcp", "approve"}
      [] label = "relate"  ->
             Jobs \cup {"report", "publish_mcp", "publish_portal", "patch_portal",
                        "publish_patched_portal", "batch_publish", "approve"}
      [] label = "unrelate" -> {"reject"}
      [] label = "audit"    -> {"report"}
      [] label \in {"tombstone", "mark", "erase", "erase_embedding", "erase_index"} ->
             {"delete", "purge", "batch_delete"}
      [] label = "next"     -> Listing
      [] label = "answer"   -> {"publish_mcp", "publish_patched_mcp"}
      [] OTHER              -> {"boot_job"}

\* The request a worker runs has the step it is at, and was offered; only a
\* library with deletion protection moves records to the trash.
WorkersOK ==
    \A w \in Workers :
        /\ worker[w].op \in OpsAt(worker[w].pc)
        /\ worker[w].op \in {"reject", "restore", "patch_mcp"} => worker[w].op \in Offered
        /\ worker[w].op = "publish_patched_mcp" => "patch_mcp" \in Offered
        /\ At(w, "update") /\ worker[w].op \in {"delete", "batch_delete"} => Protected
        /\ worker[w].op = "report_job" => w \in Servers

\* While one process has the database no id is stored twice: between a report's
\* look-up and its INSERT its own loop stores nothing else.
FreshIds ==
    ~Overlap => /\ reborn = {}
                /\ \A w \in Workers : At(w, "insert") => born \subseteq worker[w].known

\* What requests are about has been reported.
InHand ==
    /\ \A w \in Workers : Id(w) \in born \cup {Nobody} /\ worker[w].todo \subseteq born
    /\ \A w \in Workers : At(w, "insert") => worker[w].known \subseteq born
    /\ \A f \in forms : f[2] \in born

\* The rows of the search tables are erased after the record, which may have been
\* stored again since.
ErasedGone ==
    \A w \in Workers :
        worker[w].pc \in {"erase_embedding", "erase_index"}
            => ~Exists(Id(w)) \/ Id(w) \in reborn

\* A record that is still buffered is on its way to the search tables as such,
\* unless what is on its way is left from a row that was there before.
HeldBuffered ==
    \A w \in Workers :
        worker[w].pc \in {"sync_index", "sync_embed"} /\ IsBuffered(Id(w))
            => worker[w].entry.status = "buffered" \/ Id(w) \in reborn

Base == IndInv /\ WorkersOK /\ FreshIds /\ InHand /\ ErasedGone /\ HeldBuffered

-----------------------------------------------------------------------------
(* The steps of a worker.                                                  *)

Others(w) == \A v \in Workers \ {w} : worker'[v] = worker[v]

\* w goes on with the request it runs, or ends it.
Goes(w, label) ==
    /\ worker'[w].pc = label
    /\ IF label = "idle" THEN worker'[w] = IdleWorker
       ELSE /\ worker'[w].op = worker[w].op       /\ worker'[w].id = worker[w].id
            /\ worker'[w].todo = worker[w].todo   /\ worker'[w].entry = worker[w].entry
            /\ worker'[w].at = worker[w].at

\* The tables a request writes.
Still == UNCHANGED <<rowVars, lookupVars, trailVars>>

\* A request that begins: what it begins with.
Starts(w) ==
    /\ Still
    /\ Others(w)
    /\ At(w, "idle")
    /\ LET x == worker'[w] IN
       \/ /\ x.pc = "next" /\ x.op \in {"report_job", "job"} /\ x.id = Nobody /\ x.todo = Due
          /\ x.op = "report_job" => w \in Servers
       \/ /\ x.pc = "next" /\ x.op = "batch_delete" /\ x.id = Nobody
          /\ x.todo \subseteq OwnBuffered
       \/ /\ x.pc = "update" /\ x.op = "batch_publish" /\ x.id = Nobody
          /\ x.todo \subseteq OwnBuffered
       \/ /\ x.pc = "recheck" /\ x.todo = {}
          /\ x.op \in {"publish_mcp", "publish_portal", "patch_mcp", "patch_portal"}
          /\ x.op = "patch_mcp" => x.op \in Offered
          /\ IsBuffered(x.id) \/ <<w, x.id>> \in forms
       \/ /\ x.pc = "tombstone" /\ x.op \in {"delete", "purge"} /\ x.todo = {}
          /\ Exists(x.id)
       \/ /\ x.pc = "update" /\ x.op \in {"delete", "restore", "approve", "reject"}
          /\ x.op = "delete" => Protected
          /\ x.op \in {"restore", "reject"} => x.op \in Offered
          /\ Exists(x.id) /\ x.todo = {}

LEMMA GotoGoes ==
    ASSUME TypeOK, NEW w \in Workers, NEW label, Goto(w, label)
    PROVE  Goes(w, label) /\ Others(w)
<1>1. worker[w] \in WorkerRecord /\ worker \in [Workers -> WorkerState]
    BY DEF TypeOK, WorkerState
<1> QED
    BY <1>1 DEF Goto, Goes, Others, WorkerRecord, IdleWorker

LEMMA StartFields ==
    ASSUME TypeOK, NEW w \in Workers, NEW op, NEW label, NEW r, Start(w, op, label, r)
    PROVE  /\ Others(w)
           /\ worker'[w].pc = label /\ worker'[w].op = op /\ worker'[w].id = r
           /\ worker'[w].todo = {}
BY DEF TypeOK, Start, IdleWorker, Others

\* Every step of the system is a step of one worker's request, a request that
\* begins, a fault, or leaves the workers and their tables alone.
LEMMA NextCases ==
    ASSUME TypeOK, [Next]_vars
    PROVE  \/ \E w \in Workers : Step(w)
           \/ \E w \in Workers : Starts(w)
           \/ Still /\ \E w \in Workers : FailRequest(w)
           \/ Still /\ \E s \in Servers : Crash(s)
           \/ Still /\ UNCHANGED worker
<1> USE DEF Workers
<1>0. tableVars' = tableVars => Still
    BY DEF tableVars, Still
<1>1. ASSUME NEW w \in Workers,
             \/ StartJob(w) \/ BatchPublish(w) \/ BatchDelete(w)
             \/ w \in Servers /\ Report(w)
      PROVE  Starts(w)
    <2>1. CASE StartJob(w) \/ (w \in Servers /\ Report(w))
        <3>1. /\ Others(w)
              /\ worker'[w].pc = "next" /\ worker'[w].op \in {"job", "report_job"}
              /\ worker'[w].id = Nobody /\ worker'[w].todo = Due
              /\ worker'[w].op = "report_job" => w \in Servers
            BY <2>1 DEF StartJob, Report, TypeOK, Others, IdleWorker
        <3>2. Still /\ At(w, "idle")
            BY <1>0, <2>1 DEF StartJob, Report, Accept, IsFree
        <3> QED
            BY <3>1, <3>2 DEF Starts
    <2>2. CASE BatchPublish(w) \/ BatchDelete(w)
        <3>1. PICK chosen \in SUBSET OwnBuffered, op \in {"batch_publish", "batch_delete"} :
                worker' = [worker EXCEPT ![w] =
                    [IdleWorker EXCEPT !.pc = IF op = "batch_publish" THEN "update" ELSE "next",
                                       !.op = op, !.todo = chosen]]
            BY <2>2 DEF BatchPublish, BatchDelete
        <3>2. Others(w) /\ worker'[w].pc = (IF op = "batch_publish" THEN "update" ELSE "next")
              /\ worker'[w].op = op /\ worker'[w].id = Nobody /\ worker'[w].todo = chosen
            BY <3>1 DEF TypeOK, Others, IdleWorker
        <3> QED
            BY <1>0, <2>2, <3>2 DEF BatchPublish, BatchDelete, Accept, IsFree, Starts
    <2> QED
        BY <1>1, <2>1, <2>2
<1>2. ASSUME NEW w \in Workers, NEW r \in Ids, PatchMcp(w, r) \/ EditPortal(w, r)
      PROVE  Starts(w)
    <2>1. PICK op \in {"patch_mcp", "patch_portal"} :
            /\ worker' = [worker EXCEPT ![w] = [IdleWorker EXCEPT
                             !.pc = "recheck", !.op = op, !.id = r, !.at = PublishTime]]
            /\ op = "patch_mcp" => op \in Offered
        BY <1>2 DEF PatchMcp, EditPortal, Accept
    <2>2. Others(w) /\ worker'[w].pc = "recheck" /\ worker'[w].op = op
          /\ worker'[w].id = r /\ worker'[w].todo = {}
        BY <2>1 DEF TypeOK, Others, IdleWorker
    <2> QED
        BY <1>0, <1>2, <2>1, <2>2 DEF PatchMcp, EditPortal, Accept, IsFree, Starts
<1>3. ASSUME NEW w \in Workers, NEW r \in Ids,
             \/ PublishMcp(w, r) \/ PublishPortal(w, r) \/ Delete(w, r)
             \/ Restore(w, r) \/ Approve(w, r) \/ Reject(w, r)
      PROVE  Starts(w)
    <2>1. CASE PublishMcp(w, r) \/ PublishPortal(w, r)
        BY <1>0, <2>1, StartFields DEF PublishMcp, PublishPortal, Accept, IsFree, Starts
    <2>2. CASE Delete(w, r)
        BY <1>0, <2>2, StartFields DEF Delete, Accept, IsFree, Starts
    <2>3. CASE Restore(w, r)
        BY <1>0, <2>3, StartFields DEF Restore, Accept, IsFree, Exists, Starts
    <2>4. CASE Approve(w, r)
        BY <1>0, <2>4, StartFields DEF Approve, Accept, IsFree, Exists, Starts
    <2>5. CASE Reject(w, r)
        BY <1>0, <2>5, StartFields DEF Reject, Accept, IsFree, Starts
    <2> QED
        BY <1>3, <2>1, <2>2, <2>3, <2>4, <2>5
<1>4. CASE \E s \in Servers : Crash(s)
    BY <1>0, <1>4 DEF Crash
<1>5. CASE \E w \in Workers : FailRequest(w)
    BY <1>0, <1>5 DEF FailRequest
<1>6. CASE World \/ UNCHANGED vars \/ \E s \in Servers, r \in Ids : OpenEdit(s, r)
    BY <1>0, <1>6 DEF World, Tick, SetBufferHours, vars, OpenEdit, Still
<1> QED
    BY <1>1, <1>2, <1>3, <1>4, <1>5, <1>6 DEF Next

\* A worker whose step was chosen from a list.
Picks(w) ==
    \E r \in worker[w].todo :
        /\ worker'[w].id = r /\ worker'[w].todo = worker[w].todo \ {r}
        /\ worker'[w].pc = FirstLabel(worker[w].op, r)
        /\ worker'[w].op = worker[w].op /\ worker'[w].at = worker[w].at

\* Where a busy worker's request goes on, step by step.
Stepped(w) ==
    LET x == worker[w]  y == worker'[w] IN
    /\ x.pc # "idle"
    /\ x.pc = "next" =>
          IF x.todo = {} THEN /\ Goes(w, CASE x.op = "boot_job" -> "boot_index"
                                           [] x.op = "report_job" -> "insert"
                                           [] OTHER -> "idle")
                              /\ x.op = "report_job" => y.known = born
          ELSE Picks(w)
    /\ x.pc = "insert" =>
          \/ y = IdleWorker
          \/ y.pc = "sync_read" /\ y.op = "replay" /\ y.id \in x.known /\ y.todo = {}
          \/ /\ y.pc = "sync_index" /\ y.op = "report" /\ y.id \in Storable(w) /\ y.todo = {}
             /\ y.entry.status = records'[y.id].status
    /\ x.pc = "recheck" =>
          Goes(w, IF IsBuffered(x.id) THEN "update"
                  ELSE CASE x.op \in {"publish_portal", "publish_patched_portal"} -> "relate"
                         [] x.op = "patch_portal" /\ x.at = Never -> "relate"
                         [] OTHER -> "idle")
    /\ x.pc = "update" => Goes(w, IF x.op = "batch_publish" THEN "next" ELSE "sync_read")
    /\ x.pc = "sync_read" =>
          \/ ~Exists(x.id) /\ Goes(w, AfterSync(w))
          \/ /\ Exists(x.id) /\ y.pc = "sync_index" /\ y.op = x.op /\ y.id = x.id
             /\ y.todo = x.todo /\ y.at = x.at /\ y.entry = EntryOf(x.id)
    /\ x.pc = "sync_index" => Goes(w, "sync_embed")
    /\ x.pc = "sync_embed" => Goes(w, AfterSync(w))
    /\ x.pc = "reread" =>
          \/ /\ x.op \in {"patch_mcp", "patch_portal"} /\ x.at = Never
             /\ x.op = "patch_mcp" => Exists(x.id)
             /\ y.op = IF x.op = "patch_mcp" THEN "publish_patched_mcp"
                                             ELSE "publish_patched_portal"
             /\ y.pc = "recheck" /\ y.id = x.id /\ y.todo = x.todo /\ y.at = x.at
          \/ x.op = "publish_patched_mcp" /\ Exists(x.id) /\ Goes(w, "answer")
          \/ /\ x.op \in Jobs \cup {"publish_mcp", "approve"} /\ Exists(x.id)
             /\ Goes(w, "relate")
          \/ /\ x.op = "patch_portal" => x.at # Never
             /\ x.op = "patch_mcp" => x.at # Never \/ ~Exists(x.id)
             /\ x.op \in Jobs \cup {"publish_mcp", "approve", "publish_patched_mcp"}
                    => ~Exists(x.id)
             /\ Goes(w, Done(w))
    /\ x.pc = "relate" => Goes(w, CASE x.op = "report" -> "audit"
                                    [] x.op = "publish_mcp" -> "answer"
                                    [] OTHER -> Done(w))
    /\ x.pc \in {"unrelate", "audit", "answer"} => Goes(w, "idle")
    /\ x.pc = "tombstone" => Goes(w, "mark")
    /\ x.pc = "mark" => Goes(w, "erase")
    /\ x.pc = "erase" => Goes(w, "erase_embedding")
    /\ x.pc = "erase_embedding" => Goes(w, "erase_index")
    /\ x.pc = "erase_index" => Goes(w, Done(w))
    /\ x.pc = "boot_audit" => Goes(w, "boot_select")
    /\ x.pc = "boot_select" =>
          y.pc = "next" /\ y.op = x.op /\ y.id = x.id /\ y.todo = Due
    /\ x.pc = "boot_index" =>
          y.pc = "next" /\ y.op = "backfill" /\ y.id = x.id /\ y.todo = StaleBuffered

LEMMA StepCases ==
    ASSUME TypeOK, NEW w \in Workers, Step(w)
    PROVE  Stepped(w) /\ Others(w)
<1>0. worker[w] \in WorkerRecord
    BY DEF TypeOK, WorkerState
<1>1. CASE Next1(w)
    <2>1. CASE worker[w].todo = {}
        <3>1. CASE worker[w].op = "report_job"
            <4>1. worker' = [worker EXCEPT ![w] = [@ EXCEPT !.pc = "insert", !.known = born]]
                BY <1>1, <2>1, <3>1 DEF Next1
            <4>2. Goes(w, "insert") /\ Others(w) /\ worker'[w].known = born
                BY <1>0, <4>1 DEF TypeOK, WorkerRecord, Goes, Others
            <4> QED
                BY <1>1, <2>1, <3>1, <4>2 DEF Next1, At, Stepped
        <3>2. CASE worker[w].op # "report_job"
            <4>1. PICK label : /\ label = CASE worker[w].op = "boot_job" -> "boot_index"
                                            [] OTHER -> "idle"
                               /\ Goto(w, label)
                BY <1>1, <2>1, <3>2 DEF Next1
            <4>2. Goes(w, label) /\ Others(w)
                BY <4>1, GotoGoes
            <4> QED
                BY <1>1, <2>1, <3>2, <4>1, <4>2 DEF Next1, At, Stepped
        <3> QED
            BY <3>1, <3>2
    <2>2. CASE worker[w].todo # {}
        <3>1. PICK r \in worker[w].todo :
            worker' = [worker EXCEPT ![w] = [@ EXCEPT
                !.id = r, !.todo = worker[w].todo \ {r},
                !.pc = FirstLabel(worker[w].op, r)]]
            BY <1>1, <2>2 DEF Next1
        <3>2. Picks(w) /\ Others(w)
            BY <1>0, <3>1 DEF TypeOK, WorkerRecord, Picks, Others
        <3> QED
            BY <1>1, <2>2, <3>2 DEF Next1, At, Stepped
    <2> QED
        BY <2>1, <2>2
<1>2. CASE Recheck(w)
    <2>1. PICK label :
            /\ label = IF IsBuffered(Id(w)) THEN "update"
               ELSE CASE worker[w].op \in {"publish_portal", "publish_patched_portal"} -> "relate"
                      [] worker[w].op = "patch_portal" /\ worker[w].at = Never -> "relate"
                      [] OTHER -> "idle"
            /\ Goto(w, label)
        BY <1>2 DEF Recheck
    <2>2. Goes(w, label) /\ Others(w)
        BY <2>1, GotoGoes
    <2> QED
        BY <1>2, <2>1, <2>2 DEF Recheck, At, Id, Stepped
<1>3. CASE Update(w)
    <2>1. PICK label : /\ label = IF worker[w].op = "batch_publish" THEN "next" ELSE "sync_read"
                       /\ Goto(w, label)
        BY <1>3 DEF Update
    <2>2. Goes(w, label) /\ Others(w)
        BY <2>1, GotoGoes
    <2> QED
        BY <1>3, <2>1, <2>2 DEF Update, At, Stepped
<1>4. CASE RefuseReport(w) \/ (\E r \in Ids : ReplayReport(w, r)) \/ StoreReport(w)
    <2>1. CASE RefuseReport(w)
        <3>1. Goes(w, "idle") /\ Others(w)
            BY <2>1, GotoGoes DEF RefuseReport
        <3> QED
            BY <2>1, <3>1 DEF RefuseReport, At, Stepped, Goes
    <2>2. CASE \E r \in Ids : ReplayReport(w, r)
        <3>1. PICK r \in Ids : ReplayReport(w, r)
            BY <2>2
        <3>2. /\ Others(w)
              /\ worker'[w].pc = "sync_read" /\ worker'[w].op = "replay" /\ worker'[w].id = r
              /\ worker'[w].todo = {}
            BY <3>1, StartFields DEF ReplayReport
        <3> QED
            BY <3>1, <3>2 DEF ReplayReport, At, Stepped
    <2>3. CASE StoreReport(w)
        <3>1. \E r \in Storable(w), status \in Statuses :
              /\ records'[r].status = status
              /\ Id(w)' = r /\ worker'[w].entry.status = status
            BY <2>3, StoreReportEffect
        <3>2. /\ Others(w)
              /\ worker'[w].pc = "sync_index" /\ worker'[w].op = "report"
              /\ worker'[w].todo = {}
            BY <2>3 DEF StoreReport, TypeOK, IdleWorker, Others
        <3> QED
            BY <2>3, <3>1, <3>2 DEF StoreReport, At, Id, Stepped
    <2> QED
        BY <1>4, <2>1, <2>2, <2>3
<1>5. CASE SyncRead(w)
    <2>1. CASE Exists(Id(w))
        <3>1. /\ Others(w)
              /\ worker'[w].pc = "sync_index" /\ worker'[w].entry = EntryOf(Id(w))
              /\ worker'[w].op = worker[w].op  /\ worker'[w].id = worker[w].id
              /\ worker'[w].todo = worker[w].todo /\ worker'[w].at = worker[w].at
            BY <1>0, <1>5, <2>1 DEF SyncRead, TypeOK, WorkerRecord, Others
        <3> QED
            BY <1>5, <2>1, <3>1 DEF SyncRead, At, Id, Stepped
    <2>2. CASE ~Exists(Id(w))
        <3>1. Goes(w, AfterSync(w)) /\ Others(w)
            BY <1>5, <2>2, GotoGoes DEF SyncRead
        <3> QED
            BY <1>5, <2>2, <3>1 DEF SyncRead, At, Id, Stepped
    <2> QED
        BY <2>1, <2>2
<1>6. CASE SyncIndex(w) \/ SyncEmbed(w)
    <2>1. CASE SyncIndex(w)
        <3>1. Goes(w, "sync_embed") /\ Others(w)
            BY <2>1, GotoGoes DEF SyncIndex
        <3> QED
            BY <2>1, <3>1 DEF SyncIndex, At, Stepped
    <2>2. CASE SyncEmbed(w)
        <3>1. Goes(w, AfterSync(w)) /\ Others(w)
            BY <2>2, GotoGoes DEF SyncEmbed
        <3> QED
            BY <2>2, <3>1 DEF SyncEmbed, At, Stepped
    <2> QED
        BY <1>6, <2>1, <2>2
<1>7. CASE Reread(w)
    <2> DEFINE op == worker[w].op
               found == Exists(Id(w))
    <2>1. CASE op = "patch_portal" /\ worker[w].at = Never
        <3>1. Become(w, "publish_patched_portal", "recheck")
            BY <1>7, <2>1 DEF Reread, Jobs
        <3>2. /\ Others(w)
              /\ worker'[w].pc = "recheck" /\ worker'[w].op = "publish_patched_portal"
              /\ worker'[w].id = worker[w].id /\ worker'[w].todo = worker[w].todo
              /\ worker'[w].at = worker[w].at
            BY <1>0, <3>1 DEF Become, TypeOK, WorkerRecord, Others
        <3> QED
            BY <1>7, <2>1, <3>2 DEF Reread, At, Id, Stepped
    <2>2. CASE op = "patch_mcp" /\ worker[w].at = Never /\ found
        <3>1. Become(w, "publish_patched_mcp", "recheck")
            BY <1>7, <2>2 DEF Reread, Jobs
        <3>2. /\ Others(w)
              /\ worker'[w].pc = "recheck" /\ worker'[w].op = "publish_patched_mcp"
              /\ worker'[w].id = worker[w].id /\ worker'[w].todo = worker[w].todo
              /\ worker'[w].at = worker[w].at
            BY <1>0, <3>1 DEF Become, TypeOK, WorkerRecord, Others
        <3> QED
            BY <1>7, <2>2, <3>2 DEF Reread, At, Id, Stepped
    <2>3. CASE op = "publish_patched_mcp" /\ found
        <3>1. Goes(w, "answer") /\ Others(w)
            BY <1>7, <2>3, GotoGoes DEF Reread, Jobs
        <3> QED
            BY <1>7, <2>3, <3>1 DEF Reread, At, Id, Stepped
    <2>4. CASE op \in Jobs \cup {"publish_mcp", "approve"} /\ found
        <3>1. Goes(w, "relate") /\ Others(w)
            BY <1>7, <2>4, GotoGoes DEF Reread, Jobs
        <3> QED
            BY <1>7, <2>4, <3>1 DEF Reread, At, Id, Stepped
    <2>5. CASE /\ ~(op = "patch_portal" /\ worker[w].at = Never)
               /\ ~(op = "patch_mcp" /\ worker[w].at = Never /\ found)
               /\ ~(op = "publish_patched_mcp" /\ found)
               /\ ~(op \in Jobs \cup {"publish_mcp", "approve"} /\ found)
        <3>1. Goto(w, Done(w))
            BY <1>7, <2>5 DEF Reread
        <3>2. Goes(w, Done(w)) /\ Others(w)
            BY <3>1, GotoGoes
        <3> QED
            BY <1>7, <2>5, <3>2 DEF Reread, At, Id, Stepped
    <2> QED
        BY <2>1, <2>2, <2>3, <2>4, <2>5
<1>8. CASE Relate(w)
    <2>1. PICK label : /\ label = CASE worker[w].op = "report" -> "audit"
                                    [] worker[w].op = "publish_mcp" -> "answer"
                                    [] OTHER -> Done(w)
                       /\ Goto(w, label)
        BY <1>8 DEF Relate
    <2>2. Goes(w, label) /\ Others(w)
        BY <2>1, GotoGoes
    <2> QED
        BY <1>8, <2>1, <2>2 DEF Relate, At, Stepped
<1>9. CASE Unrelate(w) \/ Audit(w) \/ Answer(w)
    <2>1. Goes(w, "idle") /\ Others(w)
        BY <1>9, GotoGoes DEF Unrelate, Audit, Answer
    <2> QED
        BY <1>9, <2>1 DEF Unrelate, Audit, Answer, At, Stepped
<1>10. CASE HardDelete(w)
    <2>1. PICK label : /\ Goto(w, label)
                       /\ \/ At(w, "tombstone") /\ label = "mark"
                          \/ At(w, "mark") /\ label = "erase"
                          \/ At(w, "erase") /\ label = "erase_embedding"
                          \/ At(w, "erase_embedding") /\ label = "erase_index"
                          \/ At(w, "erase_index") /\ label = Done(w)
        BY <1>10 DEF HardDelete
    <2>2. Goes(w, label) /\ Others(w)
        BY <2>1, GotoGoes
    <2> QED
        BY <2>1, <2>2 DEF At, Stepped
<1>11. CASE BootAudit(w)
    <2>1. Goes(w, "boot_select") /\ Others(w)
        BY <1>11, GotoGoes DEF BootAudit
    <2> QED
        BY <1>11, <2>1 DEF BootAudit, At, Stepped
<1>12. CASE BootSelect(w) \/ BootIndex(w)
    <2>1. CASE BootSelect(w)
        <3>1. /\ Others(w)
              /\ worker'[w].pc = "next" /\ worker'[w].op = worker[w].op
              /\ worker'[w].id = worker[w].id /\ worker'[w].todo = Due
            BY <1>0, <2>1 DEF BootSelect, TypeOK, WorkerRecord, Others
        <3> QED
            BY <2>1, <3>1 DEF BootSelect, At, Stepped
    <2>2. CASE BootIndex(w)
        <3>1. /\ Others(w)
              /\ worker'[w].pc = "next" /\ worker'[w].op = "backfill"
              /\ worker'[w].id = worker[w].id /\ worker'[w].todo = StaleBuffered
            BY <1>0, <2>2 DEF BootIndex, TypeOK, WorkerRecord, Others
        <3> QED
            BY <2>2, <3>1 DEF BootIndex, At, Stepped
    <2> QED
        BY <1>12, <2>1, <2>2
<1> QED
    BY <1>1, <1>2, <1>3, <1>4, <1>5, <1>6, <1>7, <1>8, <1>9, <1>10, <1>11, <1>12 DEF Step

\* What a step of a request writes, by the step.
Writes(w) ==
    /\ worker[w].pc \notin {"insert", "update", "erase"} => UNCHANGED rowVars
    /\ worker[w].pc \notin {"sync_index", "sync_embed", "erase_embedding", "erase_index"}
          => UNCHANGED lookupVars
    /\ worker[w].pc \notin {"relate", "unrelate", "mark"} => UNCHANGED relations
    /\ worker[w].pc \notin {"audit", "boot_audit"} => UNCHANGED audit
    /\ At(w, "insert") => StoreReport(w) \/ (UNCHANGED rowVars /\ worker'[w].op # "report")
    /\ At(w, "update") => Update(w)
    /\ At(w, "erase") => EraseRow(Id(w))
    /\ At(w, "sync_index") => SyncIndex(w)
    /\ At(w, "sync_embed") => SyncEmbed(w)
    /\ At(w, "erase_embedding") => EraseEmbedding(Id(w))
    /\ At(w, "erase_index") => EraseIndex(Id(w))
    /\ At(w, "relate") => Relate(w)
    /\ At(w, "unrelate") => Unrelate(w)
    /\ At(w, "mark") => MarkRelations(Id(w))
    /\ At(w, "audit") => Audit(w)
    /\ At(w, "boot_audit") => BootAudit(w)

\* An UPDATE of records writes no other table and no row's sources.
LEMMA UpdateWrites ==
    ASSUME TypeOK, NEW w \in Workers, Update(w)
    PROVE  UNCHANGED <<cites, born, reborn, lookupVars, trailVars, worldVars>>
<1>1. worker[w].op \in Updating
    BY DEF TypeOK, WorkerState, Update, At
<1> QED
    BY <1>1 DEF Update, Updating, Rechecking, Publishing, Jobs, PublishRows, EditRow,
                TrashRow, RestoreRow, SetStatus, UpdateRows

LEMMA StepWrites ==
    ASSUME TypeOK, NEW w \in Workers, Step(w)
    PROVE  Writes(w)
<1>1. CASE Next1(w) \/ Recheck(w) \/ SyncRead(w) \/ Reread(w) \/ Answer(w)
                    \/ BootSelect(w) \/ BootIndex(w)
    BY <1>1 DEF Next1, Recheck, SyncRead, Reread, Answer, BootSelect, BootIndex, At, Writes,
                tableVars, trailVars
<1>2. CASE RefuseReport(w) \/ (\E r \in Ids : ReplayReport(w, r)) \/ StoreReport(w)
    <2>1. CASE RefuseReport(w)
        <3>1. worker'[w].op # "report"
            BY <2>1, GotoGoes DEF RefuseReport, Goes, IdleWorker
        <3> QED
            BY <2>1, <3>1 DEF RefuseReport, At, Writes, tableVars, trailVars
    <2>2. CASE \E r \in Ids : ReplayReport(w, r)
        <3>1. worker'[w].op # "report"
            BY <2>2, StartFields DEF ReplayReport
        <3> QED
            BY <2>2, <3>1 DEF ReplayReport, At, Writes, tableVars, trailVars
    <2>3. CASE StoreReport(w)
        <3>1. UNCHANGED <<lookupVars, trailVars>> /\ At(w, "insert")
            BY <2>3 DEF StoreReport, InsertRecord
        <3> QED
            BY <2>3, <3>1 DEF At, Writes, trailVars
    <2> QED
        BY <1>2, <2>1, <2>2, <2>3
<1>3. CASE Update(w)
    BY <1>3, UpdateWrites DEF Update, At, Writes, trailVars
<1>4. CASE SyncIndex(w) \/ SyncEmbed(w)
    BY <1>4 DEF SyncIndex, SyncEmbed, UpsertIndex, UpsertEmbedding, At, Writes, trailVars
<1>5. CASE Relate(w) \/ Unrelate(w) \/ Audit(w) \/ BootAudit(w)
    BY <1>5 DEF Relate, Unrelate, Audit, BootAudit, InsertRelations, EraseRelations,
                AppendAudit, BackfillAudit, At, Writes
<1>6. CASE HardDelete(w)
    <2>1. \/ At(w, "tombstone") /\ InsertTombstone(Id(w))
          \/ At(w, "mark") /\ MarkRelations(Id(w))
          \/ At(w, "erase") /\ EraseRow(Id(w))
          \/ At(w, "erase_embedding") /\ EraseEmbedding(Id(w))
          \/ At(w, "erase_index") /\ EraseIndex(Id(w))
        BY <1>6 DEF HardDelete
    <2>2. CASE At(w, "tombstone") /\ InsertTombstone(Id(w))
        BY <2>2 DEF InsertTombstone, At, Writes
    <2>3. CASE At(w, "mark") /\ MarkRelations(Id(w))
        BY <2>3 DEF MarkRelations, At, Writes
    <2>4. CASE At(w, "erase") /\ EraseRow(Id(w))
        BY <2>4 DEF EraseRow, At, Writes, trailVars
    <2>5. CASE At(w, "erase_embedding") /\ EraseEmbedding(Id(w))
        BY <2>5 DEF EraseEmbedding, At, Writes, trailVars
    <2>6. CASE At(w, "erase_index") /\ EraseIndex(Id(w))
        BY <2>6 DEF EraseIndex, At, Writes, trailVars
    <2> QED
        BY <2>1, <2>2, <2>3, <2>4, <2>5, <2>6
<1> QED
    BY <1>1, <1>2, <1>3, <1>4, <1>5, <1>6 DEF Step

-----------------------------------------------------------------------------
(* The part of the invariant that every agreement rests on.                *)

LEMMA BaseInit ==
    ASSUME Init
    PROVE  Base
<1>1. \A w \in Workers : /\ worker[w].pc = "idle" /\ worker[w].op = "none"
                         /\ worker[w].id = Nobody /\ worker[w].todo = {}
    BY DEF Init, IdleWorker
<1>2. forms = {} /\ reborn = {}
    BY DEF Init, TablesInit
<1> QED
    BY <1>1, <1>2, IndInvInit
       DEF Base, WorkersOK, FreshIds, InHand, ErasedGone, HeldBuffered, OpsAt, At, Id

\* What a step of the system may do to one worker.
LEMMA WorkerCases ==
    ASSUME TypeOK, [Next]_vars, NEW w \in Workers
    PROVE  \/ worker'[w] = worker[w]
           \/ worker'[w] = IdleWorker
           \/ Step(w)
           \/ Starts(w)
           \/ /\ Still
              /\ worker'[w].pc = "boot_audit" /\ worker'[w].op = "boot_job"
              /\ worker'[w].id = Nobody /\ worker'[w].todo = {}
<1>1. CASE \E v \in Workers : Step(v) \/ Starts(v) \/ FailRequest(v)
    <2>1. PICK v \in Workers : Step(v) \/ Starts(v) \/ FailRequest(v)
        BY <1>1
    <2>2. Others(v) /\ (FailRequest(v) => worker'[v] = IdleWorker)
        BY <2>1, StepCases, GotoGoes DEF Starts, FailRequest, Goes
    <2> QED
        BY <2>1, <2>2 DEF Others
<1>2. CASE Still /\ \E s \in Servers : Crash(s)
    BY <1>2 DEF Crash, IdleWorker
<1> QED
    BY <1>1, <1>2, NextCases

\* A report comes to its INSERT from the look-up for its key.
LEMMA InsertAfterLookup ==
    ASSUME TypeOK, NEW w \in Workers, Step(w), worker'[w].pc = "insert"
    PROVE  worker'[w].known = born
<1>1. Stepped(w) /\ worker[w] \in WorkerRecord
    BY StepCases DEF TypeOK, WorkerState
<1>2. At(w, "next") /\ worker[w].todo = {} /\ worker[w].op = "report_job"
    BY <1>1 DEF Stepped, Goes, Picks, FirstLabel, AfterSync, Done, WorkerRecord, Labels,
                IdleWorker, At
<1> QED
    BY <1>1, <1>2 DEF Stepped, At

\* A label leads to labels its request has.
LEMMA WorkersStep ==
    ASSUME TypeOK, WorkersOK, [Next]_vars
    PROVE  WorkersOK'
<1> DEFINE Fine(w, x) ==
                      /\ x.op \in OpsAt(x.pc)
                      /\ x.op \in {"reject", "restore", "patch_mcp"} => x.op \in Offered
                      /\ x.op = "publish_patched_mcp" => "patch_mcp" \in Offered
                      /\ x.pc = "update" /\ x.op \in {"delete", "batch_delete"} => Protected
                      /\ x.op = "report_job" => w \in Servers
<1>0. SUFFICES ASSUME NEW w \in Workers
               PROVE  Fine(w, worker'[w])
    BY DEF WorkersOK, At
<1>1. Fine(w, worker[w])
    BY DEF WorkersOK, At
<1>2. Fine(w, IdleWorker)
    BY DEF IdleWorker, OpsAt
<1>3. CASE worker'[w] = worker[w] \/ worker'[w] = IdleWorker
    <2> HIDE DEF Fine
    <2> QED
        BY <1>1, <1>2, <1>3
<1>4. CASE Step(w)
    <2>1. Stepped(w)
        BY <1>4, StepCases
    <2>2. CASE worker[w].pc = "next"
        BY <1>1, <1>2, <2>1, <2>2
           DEF Stepped, Goes, Picks, OpsAt, FirstLabel, Listing, Jobs, Updating, Rechecking
    <2>3. CASE worker[w].pc \in {"insert", "recheck", "update"}
        BY <1>1, <1>2, <2>1, <2>3
           DEF Stepped, Goes, OpsAt, Listing, Jobs, Updating, Rechecking
    <2>4. CASE worker[w].pc \in {"sync_read", "sync_index", "sync_embed"}
        BY <1>1, <1>2, <2>1, <2>4
           DEF Stepped, Goes, OpsAt, AfterSync, Done, Listing, Jobs, Updating, Rechecking
    <2>5. CASE worker[w].pc = "reread"
        BY <1>1, <1>2, <2>1, <2>5 DEF Stepped, Goes, OpsAt, Done, Listing, Jobs, Rechecking
    <2>6. CASE worker[w].pc \in {"relate", "unrelate", "audit", "answer"}
        BY <1>1, <1>2, <2>1, <2>6 DEF Stepped, Goes, OpsAt, Done, Listing, Jobs
    <2>7. CASE worker[w].pc \in {"tombstone", "mark", "erase", "erase_embedding", "erase_index"}
        BY <1>1, <1>2, <2>1, <2>7 DEF Stepped, Goes, OpsAt, Done, Listing, Jobs
    <2>8. CASE worker[w].pc \in {"boot_audit", "boot_select", "boot_index"}
        BY <1>1, <1>2, <2>1, <2>8 DEF Stepped, Goes, OpsAt, Listing, Jobs
    <2>9. worker[w].pc \in Labels /\ worker[w].pc # "idle"
        BY <2>1 DEF Stepped, TypeOK, WorkerState, WorkerRecord
    <2> HIDE DEF Fine
    <2> QED
        BY <2>2, <2>3, <2>4, <2>5, <2>6, <2>7, <2>8, <2>9 DEF Labels
<1>5. CASE Starts(w)
    BY <1>5 DEF Starts, OpsAt, Listing, Jobs, Updating, Rechecking
<1>6. CASE worker'[w].pc = "boot_audit" /\ worker'[w].op = "boot_job"
    BY <1>6 DEF OpsAt
<1> HIDE DEF Fine
<1> QED
    BY <1>3, <1>4, <1>5, <1>6, WorkerCases

LEMMA BornGrows ==
    ASSUME TypeOK, [Next]_vars
    PROVE  born \subseteq born' /\ reborn \subseteq reborn'
<1>1. CASE \E w \in Workers : StoreReport(w)
    BY <1>1, StoreReportEffect
<1>2. CASE \E w \in Workers : Update(w)
    BY <1>2, UpdateWrites
<1> QED
    BY <1>1, <1>2, RowsStep DEF rowVars, EraseRow

\* A form is opened on a record that is buffered.
LEMMA FormsStep ==
    ASSUME TypeOK, [Next]_vars, NEW f \in forms'
    PROVE  f \in forms \/ (f[2] \in Ids /\ IsBuffered(f[2]))
<1>1. CASE \E w \in Workers : Step(w)
    BY <1>1 DEF Step, Next1, Recheck, Update, RefuseReport, StoreReport, ReplayReport,
                SyncRead, SyncIndex, SyncEmbed, Reread, Relate, Unrelate, Audit, Answer,
                HardDelete, BootAudit, BootSelect, BootIndex
<1>2. CASE \E w \in Workers : StartJob(w) \/ FailRequest(w)
    BY <1>2 DEF StartJob, FailRequest
<1>3. CASE \E s \in Servers : Report(s) \/ BatchPublish(s) \/ BatchDelete(s) \/ Crash(s)
    BY <1>3 DEF BatchPublish, BatchDelete, Crash, Report
<1>4. CASE \E w \in Workers, r \in Ids : \/ PublishMcp(w, r) \/ PatchMcp(w, r)
                                        \/ EditPortal(w, r) \/ Restore(w, r)
                                        \/ Approve(w, r) \/ Reject(w, r)
                                        \/ PublishPortal(w, r) \/ Delete(w, r)
    BY <1>4 DEF PublishMcp, PatchMcp, EditPortal, Restore, Approve, Reject, PublishPortal,
                Delete
<1>5. CASE \E s \in Servers, r \in Ids : OpenEdit(s, r)
    BY <1>5 DEF OpenEdit
<1>6. CASE World \/ UNCHANGED vars
    BY <1>6 DEF World, vars
<1> QED
    BY <1>1, <1>2, <1>3, <1>4, <1>5, <1>6 DEF Next, Workers

\* A report that another process has not overtaken is stored under a fresh id.
LEMMA StoresFresh ==
    ASSUME FreshIds, ~Overlap, NEW w \in Workers, StoreReport(w)
    PROVE  Storable(w) \cap born = {}
BY DEF FreshIds, StoreReport, Storable

LEMMA FreshStep ==
    ASSUME TypeOK, WorkersOK, FreshIds, [Next]_vars
    PROVE  FreshIds'
<1>1. SUFFICES ASSUME ~Overlap
               PROVE  /\ reborn' = {}
                      /\ \A w \in Workers : worker'[w].pc = "insert"
                                               => born' \subseteq worker'[w].known
    BY DEF FreshIds, At, Overlap
<1>2. reborn = {}
    BY <1>1 DEF FreshIds
<1>3. ASSUME NEW w \in Workers, At(w, "insert")
      PROVE  w \in Servers
    BY <1>3 DEF WorkersOK, OpsAt, At
<1>4. CASE \E v \in Workers : StoreReport(v)
    <2>1. PICK v \in Workers : StoreReport(v)
        BY <1>4
    <2>2. reborn' = {}
        BY <1>1, <1>2, <2>1, StoreReportEffect, StoresFresh
    <2>3. Others(v) /\ worker'[v].pc = "sync_index" /\ At(v, "insert")
        BY <2>1 DEF StoreReport, TypeOK, IdleWorker, Others
    <2>4. ASSUME NEW w \in Workers, worker'[w].pc = "insert"
          PROVE  FALSE
        <3>1. w # v /\ At(w, "insert")
            BY <2>3, <2>4 DEF Others, At
        <3> QED
            BY <1>1, <1>3, <2>3, <3>1 DEF Overlap
    <2> QED
        BY <2>2, <2>4
<1>5. CASE born' = born /\ reborn' = reborn
    <2>1. ASSUME NEW w \in Workers, worker'[w].pc = "insert"
          PROVE  born \subseteq worker'[w].known
        <3>1. CASE worker'[w] = worker[w]
            BY <1>1, <2>1, <3>1 DEF FreshIds, At
        <3>2. CASE Step(w)
            BY <2>1, <3>2, InsertAfterLookup
        <3>3. CASE Starts(w)
            BY <2>1, <3>3 DEF Starts
        <3> QED
            BY <2>1, <3>1, <3>2, <3>3, WorkerCases DEF IdleWorker
    <2> QED
        BY <1>2, <1>5, <2>1
<1> QED
    BY <1>4, <1>5, RowsStep, UpdateWrites DEF rowVars, EraseRow

LEMMA HandStep ==
    ASSUME IndInv, InHand, [Next]_vars
    PROVE  InHand'
<1>0. TypeOK /\ born \subseteq born' /\ born \subseteq Ids
    BY BornGrows DEF IndInv, TypeOK, TablesTypeOK
<1>1. \A r \in Ids : Exists(r) \/ IsBuffered(r) => r \in born
    BY DEF IndInv, HistoryFits, Exists, IsBuffered
<1>2. \A f \in forms' : f[2] \in born'
    BY <1>0, <1>1, FormsStep DEF InHand
<1>3. ASSUME NEW w \in Workers
      PROVE  worker'[w].id \in born' \cup {Nobody} /\ worker'[w].todo \subseteq born'
    <2>1. CASE worker'[w] = worker[w]
        BY <1>0, <2>1 DEF InHand, Id
    <2>2. CASE worker'[w] = IdleWorker
        BY <2>2 DEF IdleWorker
    <2>3. CASE Step(w)
        <3>1. Stepped(w) /\ worker[w] \in WorkerRecord
            BY <1>0, <2>3, StepCases DEF TypeOK, WorkerState
        <3>2. worker[w].id \in born' \cup {Nobody} /\ worker[w].todo \subseteq born'
            BY <1>0 DEF InHand, Id
        <3>3. CASE At(w, "insert")
            <4>1. CASE StoreReport(w)
                <5>1. worker'[w].id \in born'
                    BY <1>0, <4>1, StoreReportEffect DEF Id
                <5> QED
                    BY <3>1, <3>3, <5>1 DEF Stepped, At, IdleWorker
            <4>2. CASE worker'[w].op # "report"
                BY <1>0, <3>1, <3>3, <4>2 DEF Stepped, At, IdleWorker, InHand
            <4> QED
                BY <1>0, <2>3, <3>3, <4>1, <4>2, StepWrites DEF Writes
        <3>4. CASE ~At(w, "insert")
            <4>1. \/ worker'[w] = IdleWorker
                  \/ /\ worker'[w].id \in {worker[w].id} \cup worker[w].todo
                     /\ \/ worker'[w].todo \subseteq worker[w].todo
                        \/ worker'[w].todo \subseteq Due \cup StaleBuffered
                BY <3>1, <3>4 DEF Stepped, At, Goes, Picks, WorkerRecord, Labels
            <4>2. Due \cup StaleBuffered \subseteq born'
                BY <1>0, <1>1 DEF Due, StaleBuffered
            <4> QED
                BY <2>2, <3>2, <4>1, <4>2
        <3> QED
            BY <3>3, <3>4
    <2>4. CASE Starts(w)
        <3>1. Due \cup OwnBuffered \subseteq born'
            BY <1>0, <1>1 DEF Due, OwnBuffered
        <3>2. <<w, worker'[w].id>> \in forms => worker'[w].id \in born'
            BY <1>0 DEF InHand
        <3>3. worker'[w].id \in Ids \cup {Nobody}
            BY <1>0, TypeStep DEF TypeOK, WorkerState, WorkerRecord
        <3> QED
            BY <1>0, <1>1, <2>4, <3>1, <3>2, <3>3 DEF Starts
    <2>5. CASE worker'[w].id = Nobody /\ worker'[w].todo = {}
        BY <2>5
    <2> QED
        BY <1>0, <2>1, <2>2, <2>3, <2>4, <2>5, WorkerCases
<1>4. ASSUME NEW w \in Workers, worker'[w].pc = "insert"
      PROVE  worker'[w].known \subseteq born'
    <2>1. CASE worker'[w] = worker[w]
        BY <1>0, <1>4, <2>1 DEF InHand, At
    <2>2. CASE Step(w)
        BY <1>0, <1>4, <2>2, InsertAfterLookup
    <2>3. CASE Starts(w)
        BY <1>4, <2>3 DEF Starts
    <2> QED
        BY <1>0, <1>4, <2>1, <2>2, <2>3, WorkerCases DEF IdleWorker
<1> QED
    BY <1>2, <1>3, <1>4 DEF InHand, Id, At

\* A record that has been reported does not come back, neither to its table nor
\* to the write buffer, unless it is stored again.
LEMMA RowMoves ==
    ASSUME TypeOK, [Next]_vars, NEW r \in born, r \in Ids
    PROVE  \/ r \in reborn'
           \/ (Exists(r)' => Exists(r)) /\ (IsBuffered(r)' => IsBuffered(r))
<1>1. CASE UNCHANGED rowVars
    BY <1>1 DEF rowVars, Exists, IsBuffered
<1>2. CASE \E w \in Workers : StoreReport(w)
    <2>1. PICK x \in Ids :
            /\ records' = [records EXCEPT ![x] = records'[x]]
            /\ reborn' = IF x \in born THEN reborn \cup {x} ELSE reborn
        BY <1>2, StoreReportEffect
    <2>2. r = x => r \in reborn'
        BY <2>1
    <2>3. r # x => records'[r] = records[r]
        BY <2>1 DEF TypeOK, TablesTypeOK
    <2> QED
        BY <2>2, <2>3 DEF Exists, IsBuffered
<1>3. CASE \E w \in Workers : Update(w)
    BY <1>3, UpdateEffect
<1>4. CASE \E w \in Workers : At(w, "erase") /\ EraseRow(Id(w))
    BY <1>4, EraseEffect DEF Exists, IsBuffered, NoRow
<1> QED
    BY <1>1, <1>2, <1>3, <1>4, RowsStep

\* A worker at one of these steps is about a record that has been reported.
LEMMA HandBorn ==
    ASSUME TypeOK, InHand, NEW w \in Workers,
           worker[w].pc \notin {"idle", "next", "insert", "update", "boot_audit",
                                "boot_select", "boot_index"}
    PROVE  Id(w) \in Ids /\ Id(w) \in born
BY BusyHasRecord, LifecycleAssumption DEF TypeOK, InHand

LEMMA ErasedStep ==
    ASSUME IndInv, WorkersOK, InHand, ErasedGone, [Next]_vars
    PROVE  ErasedGone'
<1>0. TypeOK /\ reborn \subseteq reborn'
    BY BornGrows DEF IndInv
<1>1. SUFFICES ASSUME NEW w \in Workers, worker'[w].pc \in {"erase_embedding", "erase_index"}
               PROVE  \/ records'[worker'[w].id].status = "none"
                      \/ worker'[w].id \in reborn'
    BY DEF ErasedGone, Exists, Id
<1>2. CASE worker'[w] = worker[w]
    <2>1. Id(w) \in Ids /\ Id(w) \in born /\ (~Exists(Id(w)) \/ Id(w) \in reborn)
        BY <1>0, <1>1, <1>2, HandBorn DEF ErasedGone
    <2>2. PICK r : r = Id(w)
        OBVIOUS
    <2>3. ~Exists(r)' \/ r \in reborn'
        BY <1>0, <2>1, <2>2, RowMoves
    <2> QED
        BY <1>2, <2>2, <2>3 DEF Exists, Id
<1>3. CASE Step(w)
    <2>1. Stepped(w) /\ Writes(w) /\ worker[w] \in WorkerRecord
        BY <1>0, <1>3, StepCases, StepWrites DEF TypeOK, WorkerState
    <2>2. worker[w].pc \in {"erase", "erase_embedding"} /\ worker'[w].id = worker[w].id
        BY <1>1, <2>1 DEF Stepped, Goes, Picks, FirstLabel, AfterSync, Done, WorkerRecord,
                          Labels, IdleWorker
    <2>3. Id(w) \in Ids
        BY <1>0, <2>2, BusyHasRecord DEF TypeOK
    <2>4. CASE At(w, "erase")
        BY <1>0, <2>1, <2>2, <2>3, <2>4, EraseEffect DEF Writes, NoRow, Id
    <2>5. CASE At(w, "erase_embedding")
        BY <1>0, <2>1, <2>2, <2>5 DEF Writes, At, rowVars, ErasedGone, Exists, Id
    <2> QED
        BY <2>2, <2>4, <2>5 DEF At
<1>4. CASE Starts(w)
    BY <1>1, <1>4 DEF Starts
<1> QED
    BY <1>0, <1>1, <1>2, <1>3, <1>4, WorkerCases DEF IdleWorker

LEMMA HeldStep ==
    ASSUME IndInv, WorkersOK, InHand, HeldBuffered, [Next]_vars
    PROVE  HeldBuffered'
<1>0. TypeOK /\ reborn \subseteq reborn'
    BY BornGrows DEF IndInv
<1>1. SUFFICES ASSUME NEW w \in Workers, worker'[w].pc \in {"sync_index", "sync_embed"},
                      records'[worker'[w].id].status = "buffered",
                      worker'[w].id \notin reborn'
               PROVE  worker'[w].entry.status = "buffered"
    BY DEF HeldBuffered, IsBuffered, Id
<1>2. ASSUME worker'[w].id = worker[w].id,
             worker[w].pc \in {"sync_read", "sync_index", "sync_embed"}
      PROVE  IsBuffered(Id(w))
    <2>1. Id(w) \in Ids /\ Id(w) \in born
        BY <1>0, <1>2, HandBorn
    <2>2. PICK r : r = Id(w)
        OBVIOUS
    <2> QED
        BY <1>0, <1>1, <1>2, <2>1, <2>2, RowMoves DEF IsBuffered, Id
<1>3. CASE worker'[w] = worker[w]
    BY <1>0, <1>1, <1>2, <1>3 DEF HeldBuffered, Id
<1>4. CASE Step(w)
    <2>1. Stepped(w) /\ worker[w] \in WorkerRecord
        BY <1>0, <1>4, StepCases DEF TypeOK, WorkerState
    <2>2. \/ At(w, "insert") /\ worker'[w].entry.status = records'[worker'[w].id].status
          \/ /\ At(w, "sync_read") /\ worker'[w].id = worker[w].id
             /\ worker'[w].entry = EntryOf(worker[w].id)
          \/ /\ At(w, "sync_index") /\ worker'[w].id = worker[w].id
             /\ worker'[w].entry = worker[w].entry
        BY <1>1, <2>1 DEF Stepped, Goes, Picks, FirstLabel, AfterSync, Done, WorkerRecord,
                          Labels, IdleWorker, At
    <2> QED
        BY <1>0, <1>1, <1>2, <2>2 DEF HeldBuffered, EntryOf, IsBuffered, Id, At
<1>5. CASE Starts(w)
    BY <1>1, <1>5 DEF Starts
<1> QED
    BY <1>0, <1>1, <1>3, <1>4, <1>5, WorkerCases DEF IdleWorker

LEMMA BaseStep ==
    ASSUME Base, [Next]_vars
    PROVE  Base'
<1>1. TypeOK
    BY DEF Base, IndInv
<1> QED
    BY <1>1, IndInvStep, WorkersStep, FreshStep, HandStep, ErasedStep, HeldStep DEF Base

LEMMA BaseHolds == Spec => []Base
<1>1. Init => Base
    BY BaseInit
<1>2. Base /\ [Next]_vars => Base'
    BY BaseStep
<1> QED
    BY <1>1, <1>2, PTL DEF Spec

-----------------------------------------------------------------------------
(* The promise is kept.                                                    *)

\* Every step is a change of the promise, or does not show.
LEMMA PromiseStep ==
    ASSUME PromiseInv, WorkersOK, FreshIds, TypeOK', [Next]_vars
    PROVE  \A r \in Ids : \/ Life(r)' = Life(r)
                          \/ Promise!Born(Life(r), Life(r)')
                          \/ Promise!Rewritten(Life(r), Life(r)')
                          \/ Promise!Moved(Life(r), Life(r)')
                          \/ Promise!Ended(Life(r), Life(r)')
                          \/ Promise!Returned(Life(r), Life(r)')
<1>0. TypeOK /\ NoRowNoText /\ HistoryFits
    BY DEF PromiseInv, IndInv
<1> SUFFICES ASSUME NEW r \in Ids
             PROVE  \/ Life(r)' = Life(r)
                    \/ Promise!Born(Life(r), Life(r)')
                    \/ Promise!Rewritten(Life(r), Life(r)')
                    \/ Promise!Moved(Life(r), Life(r)')
                    \/ Promise!Ended(Life(r), Life(r)')
                    \/ Promise!Returned(Life(r), Life(r)')
    OBVIOUS
<1>1. CASE UNCHANGED rowVars
    BY <1>1, SameRowSameLife DEF rowVars
<1>2. CASE \E w \in Workers : StoreReport(w)
    <2>1. PICK w \in Workers : StoreReport(w)
        BY <1>2
    <2>2. PICK x \in Storable(w) : /\ x \in Ids /\ ~Exists(x)
                                   /\ records' = [records EXCEPT ![x] = records'[x]]
                                   /\ records'[x].status \in {"draft", "active", "buffered"}
                                   /\ records'[x].version = 0
                                   /\ born' = born \cup {x}
        BY <1>0, <2>1, StoreMoves
    <2>3. CASE r # x
        BY <1>0, <2>2, <2>3, SameRowSameLife DEF TypeOK, TablesTypeOK
    <2>4. CASE r = x
        <3>1. records[r].status = "none" /\ records[r].version = 0
            BY <1>0, <2>2, <2>4 DEF NoRowNoText, Exists
        <3>2. PhaseOf(r)' \in {"private", "review", "public"}
            BY <2>2, <2>4 DEF PhaseOf
        <3>3. CASE r \notin born
            <4>1. PhaseOf(r) = "unborn"
                BY <3>1, <3>3 DEF PhaseOf
            <4>2. Life(r) = Promise!Unborn
                BY <3>1, <4>1 DEF Life, Promise!Unborn
            <4> QED
                BY <2>2, <2>4, <3>2, <4>2 DEF Life, Promise!Born
        <3>4. CASE r \in born
            <4>1. Overlap
                BY <2>1, <2>2, <2>4, <3>4, StoresFresh
            <4>2. PhaseOf(r) = "gone"
                BY <3>1, <3>4 DEF PhaseOf
            <4> QED
                BY <2>2, <2>4, <3>2, <4>1, <4>2 DEF Life, Promise!Returned
        <3> QED
            BY <3>3, <3>4
    <2> QED
        BY <2>3, <2>4
<1>3. CASE \E w \in Workers : Update(w)
    <2>1. PICK w \in Workers : Update(w)
        BY <1>3
    <2>2. born' = born /\ (Exists(r)' <=> Exists(r))
        BY <1>0, <2>1, UpdateEffect
    <2>3. CASE records'[r] = records[r]
        BY <2>2, <2>3, SameRowSameLife
    <2>4. CASE /\ IsBuffered(r)
               /\ records'[r].status = "buffered"
               /\ records'[r].version = records[r].version + 1
        <3>1. PhaseOf(r) = "private" /\ PhaseOf(r)' = "private"
            BY <2>4 DEF PhaseOf, IsBuffered
        <3> QED
            BY <2>4, <3>1 DEF Life, Promise!Rewritten
    <2>5. CASE /\ Exists(r)
               /\ records'[r].status \in {"active", "invalid", "trashed"}
               /\ records'[r].version = records[r].version
        <3>1. records[r].status \in Statuses
            BY <1>0, <2>5 DEF TypeOK, TablesTypeOK, Row, Exists
        <3>2. PhaseOf(r) \notin {"unborn", "gone"}
            BY <3>1 DEF PhaseOf, Statuses
        <3>3. PhaseOf(r)' \in {"public", "withdrawn", "trash"}
            BY <2>5 DEF PhaseOf
        <3> QED
            BY <2>5, <3>2, <3>3 DEF Life, Promise!Moved
    <2> QED
        BY <1>0, <2>1, <2>3, <2>4, <2>5, UpdateMoves
<1>4. CASE \E w \in Workers : At(w, "erase") /\ EraseRow(Id(w))
    <2>1. PICK w \in Workers : EraseRow(Id(w))
        BY <1>4
    <2>2. /\ records'[r] = IF r = Id(w) THEN NoRow ELSE records[r]
          /\ born' = born
        BY <1>0, <2>1, EraseEffect
    <2>3. CASE r # Id(w)
        BY <2>2, <2>3, SameRowSameLife
    <2>4. CASE r = Id(w) /\ r \in born
        <3>1. Life(r)' = [phase |-> "gone", text |-> 0]
            BY <2>2, <2>4 DEF Life, PhaseOf, NoRow
        <3>2. PhaseOf(r) # "unborn"
            BY <2>4 DEF PhaseOf
        <3> QED
            BY <3>1, <3>2 DEF Life, Promise!Ended
    <2>5. CASE r = Id(w) /\ r \notin born
        <3>1. records[r].status = "none" /\ records[r].version = 0
            BY <1>0, <2>5 DEF HistoryFits, NoRowNoText, Exists
        <3>2. Life(r)' = Life(r)
            BY <2>2, <2>5, <3>1 DEF Life, PhaseOf, NoRow
        <3> QED
            BY <3>2
    <2> QED
        BY <2>3, <2>4, <2>5
<1> QED
    BY <1>1, <1>2, <1>3, <1>4, RowsStep

\* The mapped life is well typed.
LEMMA LifeType ==
    ASSUME TypeOK, NEW r \in Ids
    PROVE  Life(r) \in [phase : Promise!Phases, text : Nat]
<1>1. records[r].version \in Nat
    BY DEF TypeOK, TablesTypeOK, Row
<1>2. PhaseOf(r) \in Promise!Phases
    BY DEF PhaseOf, Promise!Phases
<1> QED
    BY <1>1, <1>2 DEF Life

\* While one process serves the library, with any number of threads, faults and
\* restarts, no id is stored a second time: insert_record never finds its key
\* claimed by a record that is gone.
THEOREM IdsAreFresh ==
    ASSUME ~Overlap
    PROVE  Spec => [](reborn = {})
<1>1. Base => reborn = {}
    BY DEF Base, FreshIds
<1> QED
    BY <1>1, BaseHolds, PTL

\* For any sets of records, processes and threads, any clock, any number of
\* edits and faults, the server keeps the promise: this is the simulation, step
\* by step, of RecordPromise by the transactions of RecordLifecycle.  A record
\* that is gone comes back with two processes only, as RecordPromise says.
THEOREM LifecycleKeepsPromise == Spec => KeepsPromise
<1>1. Init => NoRowNoText
    BY DEF Init, TablesInit, NoRow, NoRowNoText
<1>2. IndInv /\ NoRowNoText /\ [Next]_vars => NoRowNoText'
    BY NoTextStep DEF PromiseInv
<1>3. IndInv /\ Base /\ NoRowNoText /\ IndInv' /\ [Next]_vars
        => [Promise!Change]_[r \in Ids |-> [phase |-> PhaseOf(r), text |-> records[r].version]]
    <2> SUFFICES ASSUME IndInv, Base, NoRowNoText, IndInv', [Next]_vars
                 PROVE  Promise!Change
        OBVIOUS
    <2>1. PromiseInv /\ WorkersOK /\ FreshIds /\ TypeOK /\ TypeOK'
        BY DEF PromiseInv, IndInv, Base
    <2>2. \A r \in Ids : \/ Life(r)' = Life(r)
                         \/ Promise!Born(Life(r), Life(r)')
                         \/ Promise!Rewritten(Life(r), Life(r)')
                         \/ Promise!Moved(Life(r), Life(r)')
                         \/ Promise!Ended(Life(r), Life(r)')
                         \/ Promise!Returned(Life(r), Life(r)')
        BY <2>1, PromiseStep
    <2>3. \A r \in Ids : Life(r)' \in [phase : Promise!Phases, text : Nat]
        <3> USE <2>1
        <3>1. ASSUME NEW r \in Ids
              PROVE  records'[r].version \in Nat /\ PhaseOf(r)' \in Promise!Phases
            BY DEF TypeOK, TablesTypeOK, Row, PhaseOf, Promise!Phases
        <3> QED
            BY <3>1 DEF Life
    <2> QED
        BY <2>2, <2>3 DEF Promise!Change, Life
<1>4. Init => Promise!Init
    BY PromiseInit
<1> QED
    BY <1>1, <1>2, <1>3, <1>4, Inductive, BaseHolds, PTL DEF Spec, KeepsPromise, Promise!Spec

-----------------------------------------------------------------------------
(* What a crash leaves behind is repaired.                                 *)

\* A record that comes into being is in the hands of the report that stored it.
LEMMA Inserted ==
    ASSUME Base, [Next]_vars, NEW w \in Workers, Step(w), NEW r \in Ids, ~Exists(r),
           Exists(r)'
    PROVE  /\ At(w, "insert") /\ StoreReport(w)
           /\ worker'[w].pc = "sync_index" /\ worker'[w].op = "report" /\ worker'[w].id = r
           /\ worker'[w].entry.status = records'[r].status
<1>1. TypeOK /\ Stepped(w) /\ Writes(w)
    BY StepCases, StepWrites DEF Base, IndInv
<1>2. StoreReport(w)
    <2>1. CASE At(w, "update")
        BY <1>1, <2>1, UpdateEffect DEF Writes
    <2>2. CASE At(w, "erase")
        BY <1>1, <2>2, EraseEffect DEF Writes, Exists, NoRow
    <2>3. CASE ~At(w, "update") /\ ~At(w, "erase")
        BY <1>1, <2>3 DEF Writes, At, rowVars, Exists
    <2> QED
        BY <2>1, <2>2, <2>3
<1>3. Id(w)' = r
    <2>1. PICK x \in Ids : records' = [records EXCEPT ![x] = records'[x]] /\ Id(w)' = x
        BY <1>1, <1>2, StoreReportEffect
    <2> QED
        BY <1>1, <2>1 DEF Exists, TypeOK, TablesTypeOK
<1>4. At(w, "insert") /\ worker'[w].op = "report"
    BY <1>1, <1>2 DEF StoreReport, TypeOK, IdleWorker
<1>5. worker'[w] # IdleWorker
    BY <1>4 DEF IdleWorker
<1> QED
    BY <1>1, <1>2, <1>3, <1>4, <1>5 DEF Stepped, At, Id

\* A missing audit row is written by the report, or by the process that starts.
OwesAudit(w, r) ==
    \/ /\ Id(w) = r /\ worker[w].op = "report"
       /\ worker[w].pc \in {"sync_index", "sync_embed", "relate", "audit"}
    \/ At(w, "boot_audit")

Audited ==
    \A r \in Ids : Exists(r) /\ audit[r] = 0 => \E w \in Workers : OwesAudit(w, r)

LEMMA AuditGrows ==
    ASSUME TypeOK, NEW w \in Workers, Step(w), NEW r \in Ids, audit'[r] = 0
    PROVE  audit[r] = 0
<1>1. Writes(w) /\ audit[r] \in Nat
    BY StepWrites DEF TypeOK, TablesTypeOK
<1> QED
    BY <1>1 DEF Writes, At, Audit, BootAudit, AppendAudit, BackfillAudit, TypeOK, TablesTypeOK

LEMMA AuditedStep ==
    ASSUME Base, Audited, [Next]_vars, "failure" \notin Offered
    PROVE  Audited'
<1>0. TypeOK
    BY DEF Base, IndInv
<1>1. SUFFICES ASSUME NEW r \in Ids, Exists(r)', audit'[r] = 0
               PROVE  \E w \in Workers : OwesAudit(w, r)'
    BY DEF Audited
<1>2. ASSUME NEW w \in Workers, Step(w)
      PROVE  \E v \in Workers : OwesAudit(v, r)'
    <2>1. Stepped(w) /\ Writes(w) /\ Others(w) /\ worker[w].op \in OpsAt(worker[w].pc)
        BY <1>0, <1>2, StepCases, StepWrites DEF Base, WorkersOK
    <2>2. CASE Exists(r)
        <3>1. PICK v \in Workers : OwesAudit(v, r)
            BY <1>0, <1>1, <1>2, <2>2, AuditGrows DEF Audited
        <3>2. CASE v # w
            BY <2>1, <3>1, <3>2 DEF Others, OwesAudit, At, Id
        <3>3. CASE v = w /\ worker[w].pc \in {"sync_index", "sync_embed", "relate"}
            BY <2>1, <3>1, <3>3 DEF OwesAudit, Stepped, Goes, AfterSync, At, Id
        <3>4. CASE v = w /\ At(w, "audit")
            BY <1>0, <1>1, <2>1, <3>1, <3>4
               DEF OwesAudit, Writes, At, Audit, AppendAudit, TypeOK, TablesTypeOK, Id
        <3>5. CASE v = w /\ At(w, "boot_audit")
            BY <1>1, <2>1, <2>2, <3>5 DEF Writes, BootAudit, BackfillAudit
        <3> QED
            BY <3>1, <3>2, <3>3, <3>4, <3>5 DEF OwesAudit, At
    <2>3. CASE ~Exists(r)
        <3> QED
            BY <1>1, <1>2, <2>3, Inserted DEF OwesAudit, Id
    <2> QED
        BY <2>2, <2>3
<1>3. ASSUME Still
      PROVE  \E w \in Workers : OwesAudit(w, r)
    BY <1>1, <1>3 DEF Still, rowVars, trailVars, Exists, Audited
<1>4. CASE \E w \in Workers : Starts(w)
    <2>1. PICK w \in Workers : Starts(w)
        BY <1>4
    <2>2. PICK v \in Workers : OwesAudit(v, r)
        BY <1>3, <2>1 DEF Starts
    <2> QED
        BY <2>1, <2>2 DEF Starts, Others, OwesAudit, At, Id
<1>5. CASE \E s \in Servers : Crash(s)
    <2>1. PICK s \in Servers : Crash(s)
        BY <1>5
    <2>2. worker'[s].pc = "boot_audit"
        BY <2>1 DEF Crash, IdleWorker, Workers
    <2> QED
        BY <2>2 DEF OwesAudit, At, Workers
<1>6. CASE Still /\ UNCHANGED worker
    BY <1>3, <1>6 DEF OwesAudit, At, Id
<1>7. ~ \E w \in Workers : FailRequest(w)
    BY DEF FailRequest
<1> QED
    BY <1>0, <1>2, <1>4, <1>5, <1>6, <1>7, NextCases

\* A process that starts looks for stale rows once its due records are
\* published, and goes through those it finds.
OwesRepair(w, r) ==
    \/ worker[w].op = "boot_job"
    \/ worker[w].op = "backfill" /\ (r \in worker[w].todo \/ (Id(w) = r /\ At(w, "sync_read")))

OwesIndex(w, r) == (Id(w) = r /\ At(w, "sync_index")) \/ OwesRepair(w, r)

OwesEmbedding(w, r) ==
    (Id(w) = r /\ worker[w].pc \in {"sync_index", "sync_embed"}) \/ OwesRepair(w, r)

Indexed ==
    \A r \in Ids \ reborn : IsBuffered(r) /\ searchIndex[r].status # "buffered"
                      => \E w \in Workers : OwesIndex(w, r)

Embedded ==
    \A r \in Ids \ reborn : Embeddings /\ IsBuffered(r) /\ embeddings[r].status # "buffered"
                      => \E w \in Workers : OwesEmbedding(w, r)

LEMMA RepairGoesOn ==
    ASSUME Base, NEW w \in Workers, Step(w), NEW r \in StaleBuffered, OwesRepair(w, r)
    PROVE  OwesRepair(w, r)' \/ (Id(w)' = r /\ At(w, "sync_index")')
<1>1. /\ Stepped(w) /\ worker[w].op \in OpsAt(worker[w].pc)
      /\ worker[w].pc \in Labels
    BY StepCases DEF Base, IndInv, WorkersOK, TypeOK, WorkerState, WorkerRecord
<1>2. Exists(r)
    BY DEF StaleBuffered, IsBuffered, Exists
<1>3. CASE worker[w].op = "boot_job"
    <2>1. CASE At(w, "next")
        BY <1>1, <1>3, <2>1 DEF Stepped, Goes, Picks, At, OwesRepair
    <2>2. CASE At(w, "boot_index")
        BY <1>1, <1>3, <2>2 DEF Stepped, At, OwesRepair
    <2>3. CASE ~At(w, "next") /\ ~At(w, "boot_index")
        <3>1. worker[w].pc \in {"update", "sync_read", "sync_index", "sync_embed", "reread",
                                "relate", "boot_audit", "boot_select"}
            BY <1>1, <1>3, <2>3 DEF OpsAt, At, Labels, Rechecking, Jobs
        <3>2. worker'[w].op = "boot_job"
            BY <1>1, <1>3, <3>1 DEF Stepped, Goes, AfterSync, Done, Listing, Jobs
        <3> QED
            BY <3>2 DEF OwesRepair
    <2> QED
        BY <2>1, <2>2, <2>3
<1>4. CASE worker[w].op = "backfill"
    <2>1. CASE At(w, "next")
        BY <1>1, <1>4, <2>1 DEF Stepped, Goes, Picks, FirstLabel, Jobs, At, OwesRepair, Id
    <2>2. CASE ~At(w, "next")
        <3>1. worker[w].pc \in {"sync_read", "sync_index", "sync_embed"}
            BY <1>1, <1>4, <2>2 DEF OpsAt, At, Labels, Rechecking, Updating, Jobs
        <3>2. worker'[w].op = "backfill" /\ worker'[w].todo = worker[w].todo
            BY <1>1, <1>4, <3>1 DEF Stepped, Goes, AfterSync, Done, Listing
        <3>3. CASE r \in worker[w].todo
            BY <3>2, <3>3 DEF OwesRepair
        <3>4. CASE Id(w) = r /\ At(w, "sync_read")
            BY <1>1, <1>2, <1>4, <3>4 DEF Stepped, Id, At
        <3> QED
            BY <1>4, <3>3, <3>4 DEF OwesRepair
    <2> QED
        BY <2>1, <2>2
<1> QED
    BY <1>3, <1>4 DEF OwesRepair

\* What a step may do to the search rows of a buffered record.
LEMMA BufferedLookup ==
    ASSUME Base, [Next]_vars, NEW w \in Workers, Step(w), NEW r \in Ids \ reborn,
           IsBuffered(r)'
    PROVE  /\ searchIndex'[r].status # "buffered" =>
                  /\ searchIndex[r].status # "buffered"
                  /\ ~(At(w, "sync_index") /\ Id(w) = r)
           /\ Embeddings /\ embeddings'[r].status # "buffered" =>
                  /\ embeddings[r].status # "buffered"
                  /\ ~(At(w, "sync_embed") /\ Id(w) = r)
<1>0. /\ TypeOK /\ Writes(w)
      /\ searchIndex \in [Ids -> Entry] /\ embeddings \in [Ids -> Entry]
    BY StepWrites DEF Base, IndInv, TypeOK, TablesTypeOK
<1>1. CASE At(w, "sync_index") \/ At(w, "sync_embed")
    <2>1. IsBuffered(Id(w)) => worker[w].entry.status = "buffered" \/ Id(w) \in reborn
        BY <1>1 DEF Base, HeldBuffered, At
    <2>2. IsBuffered(r) <=> IsBuffered(r)'
        BY <1>0, <1>1 DEF Writes, At, rowVars, IsBuffered
    <2>3. Id(w) = r => worker[w].entry.status = "buffered"
        BY <2>1, <2>2
    <2>4. CASE At(w, "sync_index")
        BY <1>0, <2>3, <2>4 DEF Writes, At, SyncIndex, UpsertIndex
    <2>5. CASE At(w, "sync_embed")
        BY <1>0, <2>3, <2>5 DEF Writes, At, SyncEmbed, UpsertEmbedding
    <2> QED
        BY <1>1, <2>4, <2>5
<1>2. CASE At(w, "erase_embedding") \/ At(w, "erase_index")
    <2>1. ~Exists(Id(w)) \/ Id(w) \in reborn
        BY <1>2 DEF Base, ErasedGone, At
    <2>2. IsBuffered(r)
        BY <1>0, <1>2 DEF Writes, At, rowVars, IsBuffered
    <2>3. Id(w) # r
        BY <2>1, <2>2 DEF Exists, IsBuffered
    <2> QED
        BY <1>0, <1>2, <2>3 DEF Writes, At, EraseEmbedding, EraseIndex
<1>3. CASE UNCHANGED lookupVars
    <2>1. CASE ~At(w, "sync_index") /\ ~At(w, "sync_embed")
        BY <1>3, <2>1 DEF lookupVars
    <2> QED
        BY <1>1, <2>1
<1> QED
    BY <1>0, <1>1, <1>2, <1>3 DEF Writes, At

LEMMA IndexedStep ==
    ASSUME Base, Indexed, [Next]_vars, "failure" \notin Offered
    PROVE  Indexed'
<1>0. TypeOK /\ HistoryFits /\ reborn \subseteq reborn'
    BY BornGrows DEF Base, IndInv
<1>1. SUFFICES ASSUME NEW r \in Ids \ reborn', IsBuffered(r)',
                      searchIndex'[r].status # "buffered"
               PROVE  \E w \in Workers : OwesIndex(w, r)'
    BY DEF Indexed
<1>2. ASSUME NEW w \in Workers, Step(w)
      PROVE  \E v \in Workers : OwesIndex(v, r)'
    <2>1. Stepped(w) /\ Others(w)
        BY <1>0, <1>2, StepCases
    <2>2. CASE IsBuffered(r)
        <3>0. searchIndex[r].status # "buffered" /\ ~(At(w, "sync_index") /\ Id(w) = r)
            BY <1>0, <1>1, <1>2, BufferedLookup
        <3>1. PICK v \in Workers : OwesIndex(v, r)
            BY <1>0, <2>2, <3>0 DEF Indexed
        <3>2. CASE v # w
            BY <2>1, <3>1, <3>2 DEF Others, OwesIndex, OwesRepair, At, Id
        <3>3. CASE v = w
            <4>1. OwesRepair(w, r) /\ r \in StaleBuffered
                BY <2>2, <3>0, <3>1, <3>3 DEF OwesIndex, StaleBuffered
            <4> QED
                BY <1>2, <4>1, RepairGoesOn DEF OwesIndex
        <3> QED
            BY <3>2, <3>3
    <2>3. CASE ~IsBuffered(r)
        <3>1. ~Exists(r) /\ Exists(r)'
            BY <1>0, <1>1, <2>3, RowMoves DEF HistoryFits, Exists, IsBuffered
        <3> QED
            BY <1>2, <3>1, Inserted DEF OwesIndex, Id, At
    <2> QED
        BY <2>2, <2>3
<1>3. ASSUME Still
      PROVE  \E w \in Workers : OwesIndex(w, r)
    BY <1>0, <1>1, <1>3 DEF Still, rowVars, lookupVars, IsBuffered, Indexed
<1>4. CASE \E w \in Workers : Starts(w)
    <2>1. PICK w \in Workers : Starts(w)
        BY <1>4
    <2>2. PICK v \in Workers : OwesIndex(v, r)
        BY <1>3, <2>1 DEF Starts
    <2>3. v # w
        BY <2>1, <2>2 DEF Base, WorkersOK, OpsAt, Starts, OwesIndex, OwesRepair, At
    <2> QED
        BY <2>1, <2>2, <2>3 DEF Starts, Others, OwesIndex, OwesRepair, At, Id
<1>5. CASE \E s \in Servers : Crash(s)
    <2>1. PICK s \in Servers : Crash(s)
        BY <1>5
    <2>2. worker'[s].op = "boot_job"
        BY <2>1 DEF Crash, IdleWorker, Workers
    <2> QED
        BY <2>2 DEF OwesIndex, OwesRepair, Workers
<1>6. CASE Still /\ UNCHANGED worker
    BY <1>3, <1>6 DEF OwesIndex, OwesRepair, At, Id
<1>7. ~ \E w \in Workers : FailRequest(w)
    BY DEF FailRequest
<1> QED
    BY <1>0, <1>2, <1>4, <1>5, <1>6, <1>7, NextCases

LEMMA EmbeddedStep ==
    ASSUME Base, Embedded, [Next]_vars, "failure" \notin Offered
    PROVE  Embedded'
<1>0. TypeOK /\ HistoryFits /\ reborn \subseteq reborn'
    BY BornGrows DEF Base, IndInv
<1>1. SUFFICES ASSUME NEW r \in Ids \ reborn', Embeddings, IsBuffered(r)',
                      embeddings'[r].status # "buffered"
               PROVE  \E w \in Workers : OwesEmbedding(w, r)'
    BY DEF Embedded
<1>2. ASSUME NEW w \in Workers, Step(w)
      PROVE  \E v \in Workers : OwesEmbedding(v, r)'
    <2>1. Stepped(w) /\ Others(w)
        BY <1>0, <1>2, StepCases
    <2>2. CASE IsBuffered(r)
        <3>0. embeddings[r].status # "buffered" /\ ~(At(w, "sync_embed") /\ Id(w) = r)
            BY <1>0, <1>1, <1>2, BufferedLookup
        <3>1. PICK v \in Workers : OwesEmbedding(v, r)
            BY <1>0, <1>1, <2>2, <3>0 DEF Embedded
        <3>2. CASE v # w
            BY <2>1, <3>1, <3>2 DEF Others, OwesEmbedding, OwesRepair, At, Id
        <3>3. CASE v = w /\ OwesRepair(w, r)
            <4>1. r \in StaleBuffered
                BY <1>1, <2>2, <3>0 DEF StaleBuffered
            <4> QED
                BY <1>2, <3>3, <4>1, RepairGoesOn DEF OwesEmbedding, At
        <3>4. CASE v = w /\ At(w, "sync_index") /\ Id(w) = r
            BY <2>1, <3>4 DEF Stepped, Goes, OwesEmbedding, At, Id
        <3> QED
            BY <3>0, <3>1, <3>2, <3>3, <3>4 DEF OwesEmbedding, At
    <2>3. CASE ~IsBuffered(r)
        <3>1. ~Exists(r) /\ Exists(r)'
            BY <1>0, <1>1, <2>3, RowMoves DEF HistoryFits, Exists, IsBuffered
        <3> QED
            BY <1>2, <3>1, Inserted DEF OwesEmbedding, Id
    <2> QED
        BY <2>2, <2>3
<1>3. ASSUME Still
      PROVE  \E w \in Workers : OwesEmbedding(w, r)
    BY <1>0, <1>1, <1>3 DEF Still, rowVars, lookupVars, IsBuffered, Embedded
<1>4. CASE \E w \in Workers : Starts(w)
    <2>1. PICK w \in Workers : Starts(w)
        BY <1>4
    <2>2. PICK v \in Workers : OwesEmbedding(v, r)
        BY <1>3, <2>1 DEF Starts
    <2>3. v # w
        BY <2>1, <2>2 DEF Base, WorkersOK, OpsAt, Starts, OwesEmbedding, OwesRepair, At
    <2> QED
        BY <2>1, <2>2, <2>3 DEF Starts, Others, OwesEmbedding, OwesRepair, At, Id
<1>5. CASE \E s \in Servers : Crash(s)
    <2>1. PICK s \in Servers : Crash(s)
        BY <1>5
    <2>2. worker'[s].op = "boot_job"
        BY <2>1 DEF Crash, IdleWorker, Workers
    <2> QED
        BY <2>2 DEF OwesEmbedding, OwesRepair, Workers
<1>6. CASE Still /\ UNCHANGED worker
    BY <1>3, <1>6 DEF OwesEmbedding, OwesRepair, At, Id
<1>7. ~ \E w \in Workers : FailRequest(w)
    BY DEF FailRequest
<1> QED
    BY <1>0, <1>2, <1>4, <1>5, <1>6, <1>7, NextCases

\* A start mends what a crash between the transactions of a request has left:
\* once every request is over each record has its audit row, and each buffered
\* record its rows in the search tables, wherever processes died; but for those
\* of an id that was stored again, which the deletion of its first row may erase
\* after the start has looked.  A request that dies of an exception while its
\* process lives on is mended by the next start only, so it is left out here.
THEOREM RestartMends ==
    ASSUME "failure" \notin Offered
    PROVE  Spec => []RestartRepairs
<1>1. Init => Audited /\ Indexed /\ Embedded
    BY DEF Init, TablesInit, NoRow, Audited, Indexed, Embedded, Exists, IsBuffered
<1>2. Base /\ Audited /\ Indexed /\ Embedded /\ [Next]_vars => Audited' /\ Indexed' /\ Embedded'
    BY AuditedStep, IndexedStep, EmbeddedStep
<1>3. Base /\ Audited /\ Indexed /\ Embedded => RestartRepairs
    <2>1. SUFFICES ASSUME Base, Audited, Indexed, Embedded, Quiescent
                   PROVE  /\ \A r \in Ids : Exists(r) => audit[r] > 0
                          /\ StaleBuffered \subseteq reborn
        BY DEF RestartRepairs, EveryRecordAudited, BufferedIndexRepaired
    <2>2. \A w \in Workers, r \in Ids :
             ~OwesAudit(w, r) /\ ~OwesIndex(w, r) /\ ~OwesEmbedding(w, r)
        <3>1. \A w \in Workers : worker[w].pc = "idle" /\ worker[w].op = "none"
            BY <2>1 DEF Quiescent, At, Base, WorkersOK, OpsAt
        <3> QED
            BY <3>1 DEF OwesAudit, OwesIndex, OwesEmbedding, OwesRepair, At
    <2>3. \A r \in Ids : audit[r] \in Nat
        BY <2>1 DEF Base, IndInv, TypeOK, TablesTypeOK
    <2> QED
        BY <2>1, <2>2, <2>3 DEF Audited, Indexed, Embedded, StaleBuffered
<1> QED
    BY <1>1, <1>2, <1>3, BaseHolds, PTL DEF Spec

-----------------------------------------------------------------------------
(* A published record is linked to its sources.                            *)

\* Whose UPDATE publishes a record.
LEMMA PublishedBy ==
    ASSUME TypeOK, NEW w \in Workers, Update(w), NEW r \in Ids,
           records[r].status # "active", records'[r].status = "active"
    PROVE  \/ Id(w) = r /\ worker[w].op \in Publishing \cup {"restore", "approve"}
           \/ worker[w].op = "batch_publish" /\ r \in worker[w].todo
<1>1. worker[w].op \in Updating /\ records[r] \in Row
    BY DEF TypeOK, TablesTypeOK, WorkerState, Update, At
<1>2. CASE worker[w].op \in Publishing
    BY <1>2 DEF Update, Publishing, Jobs, PublishRows, UpdateRows
<1>3. CASE worker[w].op = "batch_publish"
    BY <1>3 DEF Update, Publishing, Jobs, PublishRows, UpdateRows
<1>4. CASE worker[w].op \in {"patch_mcp", "patch_portal"}
    <2>1. PICK at : EditRow(Id(w), at)
        BY <1>4 DEF Update, Publishing, Jobs
    <2>2. [records[r] EXCEPT !.version = @ + 1, !.publishAt = at].status = records[r].status
        BY <1>1 DEF Row
    <2> QED
        BY <2>1, <2>2 DEF EditRow, UpdateRows
<1>5. CASE worker[w].op \in {"delete", "batch_delete"}
    BY <1>1, <1>5, ZenonT(60) DEF Update, Publishing, Jobs, TrashRow, UpdateRows, Row
<1>6. CASE worker[w].op \in {"restore", "approve"}
    BY <1>6 DEF Update, Publishing, Jobs, RestoreRow, SetStatus, UpdateRows
<1>7. CASE worker[w].op = "reject"
    BY <1>1, <1>7 DEF Update, Publishing, Jobs, SetStatus, UpdateRows, Row
<1> QED
    BY <1>1, <1>2, <1>3, <1>4, <1>5, <1>6, <1>7 DEF Updating, Rechecking, Publishing, Jobs

\* The requests that write a record's relations after they have published it.
Linking == Jobs \cup {"publish_mcp", "publish_portal", "publish_patched_portal",
                      "batch_publish", "approve"}

OwesLink(w, r) ==
    \/ /\ Id(w) = r /\ worker[w].op \in Linking
       /\ worker[w].pc \in {"sync_read", "sync_index", "sync_embed", "relate"}
    \/ Id(w) = r /\ worker[w].op \in Jobs \cup {"publish_mcp", "approve"} /\ At(w, "reread")
    \/ /\ Id(w) = r /\ worker[w].op = "report"
       /\ worker[w].pc \in {"sync_index", "sync_embed"} => worker[w].entry.status = "active"
       /\ worker[w].pc \in {"sync_index", "sync_embed", "relate"}
    \/ worker[w].op = "batch_publish" /\ r \in worker[w].todo /\ ~At(w, "update")

Unlinked(r) ==
    records[r].status = "active" /\ \E x \in cites[r] : relations[<<r, x>>] = "absent"

LinkOwed == \A r \in Ids : Unlinked(r) => \E w \in Workers : OwesLink(w, r)

\* What may leave an active record without its relations: ma3_patch_record
\* publishes in a library without a buffer and writes none, a restore writes
\* none, a rejection takes away those of a record that another request may have
\* made active again, and a request may die before it writes them.
Unlinking == {"patch_mcp", "restore", "reject", "failure", "crash"}

LEMMA RelationsKeep ==
    ASSUME TypeOK, WorkersOK, NEW w \in Workers, Step(w), "reject" \notin Offered,
           NEW p \in Ids \X Ids, relations'[p] = "absent"
    PROVE  relations[p] = "absent"
<1>1. Writes(w) /\ ~At(w, "unrelate")
    BY StepWrites DEF WorkersOK, OpsAt, At
<1> QED
    BY <1>1 DEF Writes, At, Relate, InsertRelations, MarkRelations

LEMMA CitesKeep ==
    ASSUME TypeOK, [Next]_vars, NEW r \in Ids \cap born
    PROVE  cites'[r] = cites[r]
<1>1. CASE \E w \in Workers : StoreReport(w)
    <2>1. PICK x, s : cites' = [cites EXCEPT ![x] = s] /\ (x \in born => s = cites[x])
        BY <1>1 DEF StoreReport, InsertRecord
    <2> QED
        BY <2>1 DEF TypeOK, TablesTypeOK
<1>2. CASE \E w \in Workers : Update(w)
    BY <1>2, UpdateWrites
<1> QED
    BY <1>1, <1>2, RowsStep DEF rowVars, EraseRow

\* The worker that owes the relations of a record goes on to write them.
LEMMA LinkGoesOn ==
    ASSUME Base, [Next]_vars, NEW w \in Workers, Step(w), NEW r \in Ids,
           Unlinked(r), Unlinked(r)', OwesLink(w, r)
    PROVE  OwesLink(w, r)'
<1>1. /\ Stepped(w) /\ Writes(w) /\ worker[w].op \in OpsAt(worker[w].pc)
      /\ TypeOK /\ worker[w].pc \in Labels
    BY StepCases, StepWrites DEF Base, IndInv, WorkersOK, TypeOK, WorkerState, WorkerRecord
<1>2. Exists(r) /\ cites[r] \subseteq Ids
    BY <1>1 DEF Unlinked, Exists, TypeOK, TablesTypeOK
<1>3. ~(At(w, "relate") /\ Id(w) = r)
    BY <1>1, <1>2 DEF Writes, At, Relate, InsertRelations, Unlinked, rowVars
<1>4. CASE worker[w].op = "batch_publish" /\ r \in worker[w].todo /\ ~At(w, "update")
    <2>1. CASE At(w, "next")
        BY <1>1, <1>4, <2>1
           DEF Stepped, Goes, Picks, FirstLabel, Jobs, At, OwesLink, Id, Linking
    <2>2. CASE ~At(w, "next")
        <3>1. worker[w].pc \in {"sync_read", "sync_index", "sync_embed", "relate"}
            BY <1>1, <1>4, <2>2 DEF OpsAt, At, Labels, Rechecking, Jobs, Updating
        <3>2. /\ worker'[w].op = "batch_publish" /\ worker'[w].todo = worker[w].todo
              /\ worker'[w].pc # "update"
            BY <1>1, <1>4, <3>1 DEF Stepped, Goes, AfterSync, Done, Listing
        <3> QED
            BY <1>4, <3>2 DEF OwesLink, At
    <2> QED
        BY <2>1, <2>2
<1>5. CASE Id(w) = r /\ worker[w].pc \in {"sync_read", "sync_index"}
    BY <1>1, <1>2, <1>4, <1>5 DEF OwesLink, Stepped, Goes, At, Id
<1>6. CASE Id(w) = r /\ At(w, "sync_embed")
    BY <1>1, <1>4, <1>6 DEF OwesLink, Stepped, Goes, AfterSync, At, Id, Linking, Jobs
<1>7. CASE Id(w) = r /\ At(w, "reread") /\ worker[w].op \in Jobs \cup {"publish_mcp", "approve"}
    BY <1>1, <1>2, <1>7 DEF OwesLink, Stepped, Goes, At, Id, Linking, Jobs
<1> QED
    BY <1>3, <1>4, <1>5, <1>6, <1>7 DEF OwesLink, At

LEMMA LinkOwedStep ==
    ASSUME Base, LinkOwed, [Next]_vars, Offered \cap Unlinking = {}
    PROVE  LinkOwed'
<1>0. TypeOK /\ WorkersOK /\ HistoryFits
    BY DEF Base, IndInv
<1>1. SUFFICES ASSUME NEW r \in Ids, Unlinked(r)'
               PROVE  \E w \in Workers : OwesLink(w, r)'
    BY DEF LinkOwed
<1>2. ASSUME NEW w \in Workers, Step(w)
      PROVE  \E v \in Workers : OwesLink(v, r)'
    <2>1. Stepped(w) /\ Others(w) /\ Writes(w)
        BY <1>0, <1>2, StepCases, StepWrites
    <2>2. CASE Unlinked(r)
        <3>1. PICK v \in Workers : OwesLink(v, r)
            BY <2>2 DEF LinkOwed
        <3>2. CASE v # w
            BY <2>1, <3>1, <3>2 DEF Others, OwesLink, At, Id
        <3>3. CASE v = w
            BY <1>1, <1>2, <2>2, <3>1, <3>3, LinkGoesOn
        <3> QED
            BY <3>2, <3>3
    <2>3. CASE ~Exists(r)
        <3>1. Exists(r)' /\ records'[r].status = "active"
            BY <1>1 DEF Unlinked, Exists
        <3> QED
            BY <1>2, <2>3, <3>1, Inserted DEF OwesLink, Id, At
    <2>4. CASE Exists(r) /\ ~Unlinked(r)
        <3>0. r \in born
            BY <1>0, <2>4 DEF HistoryFits
        <3>1. records[r].status # "active"
            <4>1. PICK x \in cites'[r] : relations'[<<r, x>>] = "absent"
                BY <1>1 DEF Unlinked
            <4>2. cites'[r] = cites[r] /\ cites[r] \subseteq Ids
                BY <1>0, <3>0, CitesKeep DEF TypeOK, TablesTypeOK
            <4>3. relations[<<r, x>>] = "absent"
                BY <1>0, <1>2, <4>1, <4>2, RelationsKeep DEF Unlinking
            <4> QED
                BY <2>4, <4>1, <4>2, <4>3 DEF Unlinked
        <3>2. Update(w)
            <4>1. records'[r].status = "active" /\ Exists(r)'
                BY <1>1 DEF Unlinked, Exists
            <4>2. CASE At(w, "insert")
                <5>1. ~StoreReport(w)
                    <6>1. CASE StoreReport(w)
                        <7>1. PICK x : /\ records' = [records EXCEPT ![x] = records'[x]]
                                       /\ ~Exists(x)
                            BY <1>0, <6>1, StoreReportEffect
                        <7>2. records'[r] = records[r]
                            BY <1>0, <2>4, <7>1 DEF TypeOK, TablesTypeOK
                        <7> QED
                            BY <3>1, <4>1, <7>2
                    <6> QED
                        BY <6>1
                <5> QED
                    BY <2>1, <3>1, <4>1, <4>2, <5>1 DEF Writes, rowVars
            <4>3. CASE At(w, "erase")
                BY <1>0, <2>1, <3>1, <4>1, <4>3, EraseEffect DEF Writes, NoRow
            <4> QED
                BY <2>1, <3>1, <4>1, <4>2, <4>3 DEF Writes, At, rowVars
        <3>3. \/ Id(w) = r /\ worker[w].op \in Publishing \cup {"restore", "approve"}
              \/ worker[w].op = "batch_publish" /\ r \in worker[w].todo
            BY <1>0, <1>1, <3>1, <3>2, PublishedBy DEF Unlinked
        <3>4. worker[w].op \notin {"restore", "publish_patched_mcp"}
            BY <1>0 DEF WorkersOK, Unlinking
        <3> QED
            BY <2>1, <3>2, <3>3, <3>4
               DEF Update, Stepped, Goes, OwesLink, Linking, Publishing, Jobs, At, Id
    <2> QED
        BY <2>2, <2>3, <2>4
<1>3. ASSUME Still
      PROVE  \E w \in Workers : OwesLink(w, r)
    BY <1>1, <1>3 DEF Still, rowVars, trailVars, Unlinked, LinkOwed
<1>4. CASE \E w \in Workers : Starts(w)
    <2>1. PICK w \in Workers : Starts(w)
        BY <1>4
    <2>2. PICK v \in Workers : OwesLink(v, r)
        BY <1>3, <2>1 DEF Starts
    <2>3. v # w
        BY <1>0, <2>1, <2>2 DEF WorkersOK, OpsAt, Starts, OwesLink, At
    <2> QED
        BY <2>1, <2>2, <2>3 DEF Starts, Others, OwesLink, At, Id
<1>5. CASE Still /\ UNCHANGED worker
    BY <1>3, <1>5 DEF OwesLink, At, Id
<1>6. /\ ~ \E w \in Workers : FailRequest(w)
      /\ ~ \E s \in Servers : Crash(s)
    BY DEF FailRequest, Crash, Unlinking
<1> QED
    BY <1>0, <1>2, <1>4, <1>5, <1>6, NextCases

\* Whoever publishes a record, its sources are in record_relations once every
\* request is over, on any number of loops and threads: all but the requests
\* that write no relations.
THEOREM PublicationsLink ==
    ASSUME Offered \cap Unlinking = {}
    PROVE  Spec => []PublishedIsLinked
<1>1. Init => LinkOwed
    BY DEF Init, TablesInit, NoRow, LinkOwed, Unlinked
<1>2. Base /\ LinkOwed /\ [Next]_vars => LinkOwed'
    BY LinkOwedStep
<1>3. Base /\ LinkOwed => PublishedIsLinked
    <2>1. SUFFICES ASSUME Base, LinkOwed, Quiescent, NEW r \in Ids,
                          records[r].status = "active"
                   PROVE  \A x \in cites[r] : relations[<<r, x>>] # "absent"
        BY DEF PublishedIsLinked
    <2>2. \A w \in Workers : worker[w].pc = "idle" /\ worker[w].op = "none"
        BY <2>1 DEF Quiescent, At, Base, WorkersOK, OpsAt
    <2>3. \A w \in Workers : ~OwesLink(w, r)
        BY <2>2 DEF OwesLink, At
    <2> QED
        BY <2>1, <2>3 DEF LinkOwed, Unlinked
<1> QED
    BY <1>1, <1>2, <1>3, BaseHolds, PTL DEF Spec

-----------------------------------------------------------------------------
(* A buffered record has a timer.                                          *)

\* A patch in a library without a buffer takes the timer away, and goes on to
\* publish what it patched.
OwesPublication(w, r) ==
    /\ Id(w) = r /\ worker[w].at = Never
    /\ \/ /\ worker[w].op \in {"patch_mcp", "patch_portal"}
          /\ worker[w].pc \in {"sync_read", "sync_index", "sync_embed", "reread"}
       \/ /\ worker[w].op \in {"publish_patched_mcp", "publish_patched_portal"}
          /\ worker[w].pc \in {"recheck", "update"}

Untimed(r) == IsBuffered(r) /\ records[r].publishAt \notin Nat

TimerOwed == \A r \in Ids : Untimed(r) => \E w \in Workers : OwesPublication(w, r)

\* What an UPDATE may do to a timer.
LEMMA TimerSetBy ==
    ASSUME TypeOK, NEW w \in Workers, Update(w), NEW r \in Ids, IsBuffered(r)'
    PROVE  \/ records'[r] = records[r]
           \/ /\ Id(w) = r /\ worker[w].op \in {"patch_mcp", "patch_portal"}
              /\ records'[r].publishAt = worker[w].at
<1>1. worker[w].op \in Updating /\ records[r] \in Row
    BY DEF TypeOK, TablesTypeOK, WorkerState, Update, At
<1>2. CASE \E S : PublishRows(S)
    BY <1>1, <1>2 DEF PublishRows, UpdateRows, IsBuffered, Row
<1>3. CASE EditRow(Id(w), worker[w].at) /\ worker[w].op \in {"patch_mcp", "patch_portal"}
    <2> DEFINE edited == [records[r] EXCEPT !.version = @ + 1, !.publishAt = worker[w].at]
    <2>1. edited.publishAt = worker[w].at
        BY <1>1 DEF Row
    <2>2. records'[r] = IF r = Id(w) /\ IsBuffered(r) /\ Exists(r) THEN edited ELSE records[r]
        BY <1>3 DEF EditRow, UpdateRows
    <2> HIDE DEF edited
    <2> QED
        BY <1>3, <2>1, <2>2
<1>4. CASE TrashRow(Id(w))
    BY <1>1, <1>4 DEF TrashRow, UpdateRows, IsBuffered, Row
<1>5. CASE RestoreRow(Id(w))
    BY <1>1, <1>5 DEF RestoreRow, UpdateRows, IsBuffered, Row
<1>6. CASE \E status \in {"active", "invalid"} : SetStatus(Id(w), status)
    BY <1>1, <1>6 DEF SetStatus, UpdateRows, IsBuffered, Row
<1> QED
    BY <1>1, <1>2, <1>3, <1>4, <1>5, <1>6
       DEF Update, Updating, Rechecking, Publishing, Jobs

\* A report that goes into the buffer has a timer.
LEMMA StoredTimed ==
    ASSUME TypeOK, NEW w \in Workers, StoreReport(w), NEW r \in Ids
    PROVE  \/ records'[r] = records[r]
           \/ ~Untimed(r)'
<1>1. PICK x \in Storable(w), kind \in {"draft", "verify", "new"},
           based_on \in SUBSET Ids :
        LET status == StatusOfReport(kind, worker[w].at) IN
        InsertRecord(x, status, IF status = "buffered" THEN worker[w].at ELSE Never, based_on)
    BY DEF StoreReport
<1> DEFINE status == StatusOfReport(kind, worker[w].at)
           at == IF status = "buffered" THEN worker[w].at ELSE Never
<1>2. status = "buffered" => at \in Nat
    BY DEF StatusOfReport, TypeOK, WorkerState, WorkerRecord, Times
<1>3. InsertRecord(x, status, at, based_on)
    BY <1>1
<1> HIDE DEF status, at
<1>4. /\ r # x => records'[r] = records[r]
      /\ r = x => records'[r].status = status /\ records'[r].publishAt = at
    BY <1>3 DEF InsertRecord, TypeOK, TablesTypeOK
<1> QED
    BY <1>2, <1>4 DEF Untimed, IsBuffered

LEMMA TimerOwedStep ==
    ASSUME Base, TimerOwed, [Next]_vars, Offered \cap {"failure", "crash"} = {}
    PROVE  TimerOwed'
<1>0. TypeOK /\ WorkersOK
    BY DEF Base, IndInv
<1>1. SUFFICES ASSUME NEW r \in Ids, Untimed(r)'
               PROVE  \E w \in Workers : OwesPublication(w, r)'
    BY DEF TimerOwed
<1>2. ASSUME NEW w \in Workers, Step(w)
      PROVE  \E v \in Workers : OwesPublication(v, r)'
    <2>1. Stepped(w) /\ Others(w) /\ Writes(w)
        BY <1>0, <1>2, StepCases, StepWrites
    <2>2. CASE Untimed(r)
        <3>1. PICK v \in Workers : OwesPublication(v, r)
            BY <2>2 DEF TimerOwed
        <3>2. CASE v # w
            BY <2>1, <3>1, <3>2 DEF Others, OwesPublication, At, Id
        <3>3. CASE v = w
            <4>1. Exists(r)
                BY <2>2 DEF Untimed, IsBuffered, Exists
            <4>2. CASE worker[w].pc \in {"sync_read", "sync_index", "sync_embed", "reread"}
                BY <2>1, <3>1, <3>3, <4>1, <4>2
                   DEF OwesPublication, Stepped, Goes, AfterSync, Jobs, Id
            <4>3. CASE At(w, "recheck")
                BY <2>1, <2>2, <3>1, <3>3, <4>3
                   DEF OwesPublication, Stepped, Goes, At, Id, Untimed
            <4>4. ~At(w, "update")
                <5>1. CASE At(w, "update")
                    <6>1. PublishRows({r})
                        BY <2>1, <3>1, <3>3, <5>1
                           DEF Writes, Update, OwesPublication, At, Publishing, Jobs
                    <6>2. records'[r] = [records[r] EXCEPT !.status = "active", !.publishAt = Never]
                        BY <2>2, <4>1, <6>1 DEF PublishRows, UpdateRows, Untimed
                    <6>3. records'[r].status = "active"
                        BY <1>0, <6>2 DEF TypeOK, TablesTypeOK, Row
                    <6> QED
                        BY <1>1, <6>3 DEF Untimed, IsBuffered
                <5> QED
                    BY <5>1
            <4> QED
                BY <3>1, <3>3, <4>2, <4>3, <4>4 DEF OwesPublication, At
        <3> QED
            BY <3>2, <3>3
    <2>3. CASE ~Untimed(r)
        <3>1. records'[r] # records[r]
            BY <1>1, <2>3 DEF Untimed, IsBuffered
        <3>2. ~StoreReport(w)
            BY <1>0, <1>1, <3>1, StoredTimed
        <3>3. CASE At(w, "update")
            <4>1. /\ Id(w) = r /\ worker[w].op \in {"patch_mcp", "patch_portal"}
                  /\ records'[r].publishAt = worker[w].at
                BY <1>0, <1>1, <2>1, <3>1, <3>3, TimerSetBy DEF Writes, Untimed
            <4>2. worker[w].at = Never
                BY <1>0, <1>1, <4>1 DEF Untimed, TypeOK, WorkerState, WorkerRecord, Times
            <4> QED
                BY <2>1, <3>3, <4>1, <4>2 DEF Stepped, Goes, OwesPublication, At, Id
        <3>4. CASE At(w, "erase")
            BY <1>0, <1>1, <2>1, <3>1, <3>4, EraseEffect
               DEF Writes, NoRow, Untimed, IsBuffered
        <3> QED
            BY <2>1, <3>1, <3>2, <3>3, <3>4 DEF Writes, At, rowVars
    <2> QED
        BY <2>2, <2>3
<1>3. ASSUME Still
      PROVE  \E w \in Workers : OwesPublication(w, r)
    BY <1>1, <1>3 DEF Still, rowVars, Untimed, IsBuffered, TimerOwed
<1>4. CASE \E w \in Workers : Starts(w)
    <2>1. PICK w \in Workers : Starts(w)
        BY <1>4
    <2>2. PICK v \in Workers : OwesPublication(v, r)
        BY <1>3, <2>1 DEF Starts
    <2> QED
        BY <2>1, <2>2 DEF Starts, Others, OwesPublication, At, Id
<1>5. CASE Still /\ UNCHANGED worker
    BY <1>3, <1>5 DEF OwesPublication, At, Id
<1>6. /\ ~ \E w \in Workers : FailRequest(w)
      /\ ~ \E s \in Servers : Crash(s)
    BY DEF FailRequest, Crash
<1> QED
    BY <1>0, <1>2, <1>4, <1>5, <1>6, NextCases

\* A buffered record that nobody is working on has a timer, so the publication
\* job will find it, whatever patches, settings and threads run beside each
\* other, as long as no request dies half-way.
THEOREM TimersRun ==
    ASSUME Offered \cap {"failure", "crash"} = {}
    PROVE  Spec => []BufferedHasTimer
<1>1. Init => TimerOwed
    BY DEF Init, TablesInit, NoRow, TimerOwed, Untimed, IsBuffered
<1>2. Base /\ TimerOwed /\ [Next]_vars => TimerOwed'
    BY TimerOwedStep
<1>3. Base /\ TimerOwed => BufferedHasTimer
    BY DEF BufferedHasTimer, Quiescent, TimerOwed, Untimed, OwesPublication, At
<1> QED
    BY <1>1, <1>2, <1>3, BaseHolds, PTL DEF Spec

-----------------------------------------------------------------------------
(* One event loop.                                                         *)

\* A single process whose portal pages do not run beside its loop.
OneWorker == \A v, w \in Workers : v = w

\* Time does not go back, and no request changes it.
LEMMA ClockGrows ==
    ASSUME TypeOK, [Next]_vars
    PROVE  now \in Nat /\ now' \in {now, now + 1}
<1>0. now \in Nat
    BY DEF TypeOK, TablesTypeOK
<1> SUFFICES now' \in {now, now + 1}
    BY <1>0
<1>1. CASE \E w \in Workers : Step(w)
    <2>1. PICK w \in Workers : Step(w)
        BY <1>1
    <2>2. CASE Next1(w) \/ Recheck(w) \/ SyncRead(w) \/ Reread(w) \/ Answer(w)
                         \/ BootSelect(w) \/ BootIndex(w) \/ RefuseReport(w)
                         \/ \E r \in Ids : ReplayReport(w, r)
        BY <2>2 DEF Next1, Recheck, SyncRead, Reread, Answer, BootSelect, BootIndex,
                    RefuseReport, ReplayReport, tableVars, worldVars
    <2>3. CASE SyncIndex(w) \/ SyncEmbed(w)
        BY <2>3 DEF SyncIndex, SyncEmbed, UpsertIndex, UpsertEmbedding, worldVars
    <2>4. CASE Relate(w) \/ Unrelate(w) \/ Audit(w) \/ BootAudit(w)
        BY <2>4 DEF Relate, Unrelate, Audit, BootAudit, InsertRelations, EraseRelations,
                    AppendAudit, BackfillAudit, worldVars
    <2>5. CASE HardDelete(w)
        BY <2>5 DEF HardDelete, InsertTombstone, MarkRelations, EraseRow, EraseEmbedding,
                    EraseIndex, worldVars
    <2>6. CASE Update(w)
        BY <2>6, UpdateWrites DEF worldVars
    <2>7. CASE StoreReport(w)
        BY <2>7 DEF StoreReport, InsertRecord, worldVars
    <2> QED
        BY <2>1, <2>2, <2>3, <2>4, <2>5, <2>6, <2>7 DEF Step
<1>2. CASE \E w \in Workers : StartJob(w) \/ FailRequest(w)
    BY <1>2 DEF StartJob, FailRequest, tableVars, worldVars
<1>3. CASE \E s \in Servers : BatchPublish(s) \/ BatchDelete(s) \/ Crash(s) \/ Report(s)
    BY <1>3 DEF BatchPublish, BatchDelete, Crash, Report, tableVars, worldVars
<1>4. CASE \E w \in Workers, r \in Ids : \/ PublishMcp(w, r) \/ PatchMcp(w, r)
                                        \/ OpenEdit(w, r) \/ EditPortal(w, r) \/ Restore(w, r)
                                        \/ Approve(w, r) \/ Reject(w, r)
                                        \/ PublishPortal(w, r) \/ Delete(w, r)
    BY <1>4 DEF PublishMcp, PatchMcp, OpenEdit, EditPortal, Restore, Approve, Reject,
                PublishPortal, Delete, tableVars, worldVars
<1>5. CASE World
    BY <1>0, <1>5 DEF World, Tick, SetBufferHours
<1>6. CASE UNCHANGED vars
    BY <1>6 DEF vars, tableVars, worldVars
<1> QED
    BY <1>0, <1>1, <1>2, <1>3, <1>4, <1>5, <1>6 DEF Next, Workers

\* A record is due, or not in the buffer any more.
DueIfBuffered(r) == IsBuffered(r) => records[r].publishAt \in Nat /\ records[r].publishAt <= now

\* The records the job has selected stay due while it goes through them: on one
\* loop no patch starts the timer of one of them again.
SelectedDue ==
    \A w \in Workers : worker[w].op \in Jobs =>
        \A r \in Ids : r \in worker[w].todo \/ (At(w, "update") /\ Id(w) = r) => DueIfBuffered(r)

LEMMA SelectedDueStep ==
    ASSUME Base, SelectedDue, [Next]_vars, OneWorker
    PROVE  SelectedDue'
<1>0. TypeOK /\ WorkersOK /\ now \in Nat /\ now' \in {now, now + 1}
    BY ClockGrows DEF Base, IndInv
<1>1. SUFFICES ASSUME NEW w \in Workers, worker'[w].op \in Jobs, NEW r \in Ids,
                      \/ r \in worker'[w].todo
                      \/ worker'[w].pc = "update" /\ worker'[w].id = r
               PROVE  DueIfBuffered(r)'
    BY DEF SelectedDue, At, Id
<1>2. ASSUME records'[r] = records[r], DueIfBuffered(r)
      PROVE  DueIfBuffered(r)'
    BY <1>0, <1>2 DEF DueIfBuffered, IsBuffered
<1>3. r \in Due => DueIfBuffered(r)
    BY DEF Due, DueIfBuffered
<1>4. CASE Step(w)
    <2>1. Stepped(w) /\ Writes(w) /\ worker[w] \in WorkerRecord
          /\ worker[w].op \in OpsAt(worker[w].pc)
        BY <1>0, <1>4, StepCases, StepWrites DEF TypeOK, WorkerState, WorkersOK
    <2>2. CASE At(w, "insert")
        BY <1>1, <2>1, <2>2 DEF Stepped, At, IdleWorker, Jobs
    <2>3. CASE At(w, "boot_select")
        BY <1>2, <1>3, <1>1, <2>1, <2>3 DEF Stepped, Writes, At, rowVars
    <2>4. CASE At(w, "next")
        <3>1. /\ worker[w].op \in Jobs /\ r \in worker[w].todo
              /\ UNCHANGED rowVars
            BY <1>1, <2>1, <2>4 DEF Stepped, Writes, Goes, Picks, At, IdleWorker, Jobs
        <3> QED
            BY <1>2, <3>1 DEF SelectedDue, rowVars
    <2>5. CASE ~At(w, "insert") /\ ~At(w, "boot_select") /\ ~At(w, "next")
        <3>1. worker[w].op \in Jobs /\ r \in worker[w].todo
            BY <1>1, <2>1, <2>5
               DEF OpsAt, Stepped, Goes, AfterSync, Done, Listing, At, IdleWorker, Jobs,
                   WorkerRecord, Labels, Rechecking
        <3>2. DueIfBuffered(r)
            BY <3>1 DEF SelectedDue
        <3>3. CASE At(w, "update")
            <4>1. IsBuffered(r)' => records'[r] = records[r] /\ IsBuffered(r)
                BY <1>0, <2>1, <3>1, <3>3, TimerSetBy, UpdateEffect DEF Writes, Jobs
            <4> QED
                BY <1>2, <3>2, <4>1 DEF DueIfBuffered
        <3>4. CASE ~At(w, "update")
            <4>1. UNCHANGED rowVars
                BY <2>1, <2>5, <3>1, <3>4 DEF Writes, OpsAt, At, Jobs
            <4> QED
                BY <1>2, <3>2, <4>1 DEF rowVars
        <3> QED
            BY <3>3, <3>4
    <2> QED
        BY <2>2, <2>3, <2>4, <2>5
<1>5. CASE Starts(w)
    <2>1. r \in Due /\ UNCHANGED rowVars
        BY <1>1, <1>5 DEF Starts, Jobs, Still
    <2> QED
        BY <1>2, <1>3, <2>1 DEF rowVars
<1>6. CASE Still /\ worker'[w] = worker[w]
    <2>1. DueIfBuffered(r)
        BY <1>1, <1>6 DEF SelectedDue, At, Id
    <2> QED
        BY <1>2, <1>6, <2>1 DEF Still, rowVars
<1>7. worker'[w] # IdleWorker
    BY <1>1 DEF IdleWorker, Jobs
<1>8. CASE \E v \in Workers : Step(v) \/ Starts(v)
    BY <1>4, <1>5, <1>8 DEF OneWorker
<1>9. CASE Still /\ \E v \in Workers : FailRequest(v)
    <2>1. FailRequest(w)
        BY <1>9 DEF OneWorker
    <2>2. worker'[w] = IdleWorker
        BY <1>0, <2>1, GotoGoes DEF FailRequest, Goes
    <2> QED
        BY <1>7, <2>2
<1>10. CASE Still /\ \E s \in Servers : Crash(s)
    <2>1. Crash(w)
        BY <1>10 DEF OneWorker, Workers
    <2>2. worker'[w].pc = "boot_audit" /\ worker'[w].todo = {}
        BY <2>1 DEF Crash, IdleWorker
    <2> QED
        BY <1>1, <2>2
<1>11. CASE Still /\ UNCHANGED worker
    BY <1>6, <1>11
<1> QED
    BY <1>0, <1>8, <1>9, <1>10, <1>11, NextCases

\* On one event loop a buffered record that nobody works on has a timer, and the
\* job does not run ahead of it, though patches start the timer again.
THEOREM TimerKept ==
    ASSUME OneWorker, Offered \cap {"failure", "crash"} = {}
    PROVE  Spec => TimerIsKept
<1>1. Init => SelectedDue
    BY DEF Init, IdleWorker, SelectedDue, Jobs
<1>2. Base /\ SelectedDue /\ [Next]_vars => SelectedDue'
    BY SelectedDueStep
<1>3. SelectedDue =>
        \A w \in Workers : \A r \in Ids :
          (/\ At(w, "update") /\ worker[w].op \in Jobs
           /\ worker'[w] # worker[w] /\ Id(w) = r
           /\ IsBuffered(r) /\ records'[r].status = "active")
          => records[r].publishAt \in Nat /\ records[r].publishAt <= now
    BY DEF SelectedDue, DueIfBuffered
<1>4. Spec => []SelectedDue
    BY <1>1, <1>2, BaseHolds, PTL DEF Spec
<1>5. Spec => JobPublishesOnlyDue
    BY <1>3, <1>4, PTL DEF Spec, JobPublishesOnlyDue
<1> QED
    BY <1>5, TimersRun, PTL DEF TimerIsKept

-----------------------------------------------------------------------------
(* Whoever is told that a record was published.                            *)

\* Nothing takes a buffered record away but a publication or a hard deletion:
\* there is no trash, and nobody rejects records.
NoDetour == ~Protected /\ "reject" \notin Offered

Gone(r) == r \in everActive \/ ~Exists(r)

\* ma3_publish_record, and the publication a patch ends with, find the record
\* published or gone once they have run their UPDATE, and answer only if they
\* find it.
AnswerOwed ==
    \A w \in Workers : worker[w].op \in {"publish_mcp", "publish_patched_mcp"} =>
        /\ At(w, "update") => IsBuffered(Id(w)) \/ Gone(Id(w))
        /\ worker[w].pc \in {"sync_read", "sync_index", "sync_embed", "reread"} => Gone(Id(w))
        /\ worker[w].pc \in {"relate", "answer"} => Id(w) \in everActive

LEMMA GoneStays ==
    ASSUME Base, [Next]_vars, ~Overlap, NEW r \in Ids \cap born, Gone(r)
    PROVE  Gone(r)'
<1>1. TypeOK /\ reborn' = {}
    BY FreshStep DEF Base, IndInv, FreshIds, Overlap
<1> QED
    BY <1>1, EverActiveGrows, RowMoves DEF Gone

\* A record leaves the buffer for the readers or for good.
LEMMA BufferedOrGone ==
    ASSUME Base, [Next]_vars, NoDetour, NEW r \in Ids \cap born, IsBuffered(r)
    PROVE  (IsBuffered(r) \/ Gone(r))'
<1>0. TypeOK /\ WorkersOK /\ HistoryFits'
    BY IndInvStep DEF Base, IndInv
<1>1. records'[r].status \in {"active", "buffered", "none"}
    <2>1. CASE UNCHANGED rowVars
        BY <2>1 DEF rowVars, IsBuffered
    <2>2. CASE \E w \in Workers : StoreReport(w)
        <3>1. PICK x : records' = [records EXCEPT ![x] = records'[x]] /\ ~Exists(x)
            BY <1>0, <2>2, StoreReportEffect
        <3>2. records'[r] = records[r]
            BY <1>0, <3>1 DEF TypeOK, TablesTypeOK, Exists, IsBuffered
        <3> QED
            BY <3>2 DEF IsBuffered
    <2>3. CASE \E w \in Workers : Update(w)
        <3>1. PICK w \in Workers : Update(w)
            BY <2>3
        <3>2. /\ worker[w].op \in Updating \ {"delete", "batch_delete", "reject", "restore"}
              /\ records[r] \in Row
            BY <1>0, <3>1
               DEF WorkersOK, NoDetour, TypeOK, TablesTypeOK, WorkerState, Update, At
        <3>3. CASE worker[w].op \in {"patch_mcp", "patch_portal"}
            <4>1. PICK at : EditRow(Id(w), at)
                BY <3>1, <3>3 DEF Update, Publishing, Jobs
            <4>2. [records[r] EXCEPT !.version = @ + 1, !.publishAt = at].status = "buffered"
                BY <3>2 DEF Row, IsBuffered
            <4> QED
                BY <4>1, <4>2 DEF EditRow, UpdateRows, IsBuffered
        <3>4. CASE worker[w].op \in Publishing \cup {"batch_publish"}
            BY <3>1, <3>2, <3>4, ZenonT(60)
               DEF Update, Publishing, Jobs, PublishRows, UpdateRows, IsBuffered, Row
        <3>5. CASE worker[w].op = "approve"
            BY <3>1, <3>2, <3>5
               DEF Update, Publishing, Jobs, SetStatus, UpdateRows, IsBuffered, Row
        <3> QED
            BY <3>2, <3>3, <3>4, <3>5 DEF Updating, Rechecking, Publishing, Jobs
    <2>4. CASE \E w \in Workers : At(w, "erase") /\ EraseRow(Id(w))
        BY <1>0, <2>4, EraseEffect DEF NoRow, IsBuffered
    <2> QED
        BY <2>1, <2>2, <2>3, <2>4, RowsStep
<1> QED
    BY <1>0, <1>1 DEF HistoryFits, IsBuffered, Gone, Exists

LEMMA AnswerOwedStep ==
    ASSUME Base, AnswerOwed, [Next]_vars, OneWorker \/ (NoDetour /\ ~Overlap)
    PROVE  AnswerOwed'
<1>0. TypeOK /\ WorkersOK /\ InHand /\ HistoryFits'
    BY IndInvStep DEF Base, IndInv
<1> DEFINE Tells(x) == x.op \in {"publish_mcp", "publish_patched_mcp"}
<1>1. SUFFICES ASSUME NEW w \in Workers, Tells(worker'[w]), NEW r, r = worker'[w].id
               PROVE  /\ worker'[w].pc = "update" => IsBuffered(r)' \/ Gone(r)'
                      /\ worker'[w].pc \in {"sync_read", "sync_index", "sync_embed", "reread"}
                            => Gone(r)'
                      /\ worker'[w].pc \in {"relate", "answer"} => r \in everActive'
    <2>1. SUFFICES ASSUME NEW w \in Workers, Tells(worker'[w])
                   PROVE  /\ worker'[w].pc = "update" =>
                                (IsBuffered(Id(w)) \/ Gone(Id(w)))'
                          /\ worker'[w].pc \in {"sync_read", "sync_index", "sync_embed",
                                                 "reread"} => Gone(Id(w))'
                          /\ worker'[w].pc \in {"relate", "answer"} => Id(w)' \in everActive'
        BY DEF AnswerOwed, At
    <2>2. PICK r : r = worker'[w].id
        OBVIOUS
    <2> QED
        BY <1>1, <2>1, <2>2 DEF Id, IsBuffered, Gone, Exists
<1>2. ASSUME UNCHANGED rowVars
      PROVE  /\ IsBuffered(r) => IsBuffered(r)'
             /\ Gone(r) => Gone(r)'
             /\ r \in everActive => r \in everActive'
    BY <1>2 DEF rowVars, IsBuffered, Gone, Exists
<1>3. CASE Step(w)
    <2>1. /\ Stepped(w) /\ Writes(w) /\ worker[w].op \in OpsAt(worker[w].pc)
          /\ worker[w] \in WorkerRecord
        BY <1>0, <1>3, StepCases, StepWrites DEF WorkersOK, TypeOK, WorkerState
    <2>2. worker'[w].pc # "recheck" => worker'[w].id = worker[w].id /\ worker'[w].op = worker[w].op
        BY <1>1, <2>1
           DEF OpsAt, Stepped, Goes, Picks, Listing, Jobs, IdleWorker, WorkerRecord, Labels
    <2>3. CASE At(w, "recheck")
        BY <1>1, <1>2, <2>1, <2>3 DEF Stepped, Writes, Goes, At, IdleWorker
    <2>4. CASE At(w, "update")
        <3>1. worker'[w].pc = "sync_read" /\ r = Id(w) /\ Tells(worker[w])
            BY <1>1, <2>1, <2>4 DEF Stepped, Goes, At, Id
        <3>2. r \in Ids
            BY <1>0, <2>4, <3>1 DEF TypeOK, WorkerState, WorkerRecord, At, Id
        <3>3. Update(w) /\ (IsBuffered(r) \/ Gone(r))
            BY <2>1, <2>4, <3>1 DEF Writes, AnswerOwed
        <3>4. CASE Gone(r)
            BY <1>0, <3>1, <3>2, <3>3, <3>4, UpdateEffect DEF Gone
        <3>5. CASE IsBuffered(r)
            <4>1. records'[r] = [records[r] EXCEPT !.status = "active", !.publishAt = Never]
                BY <3>1, <3>2, <3>3, <3>5
                   DEF Update, Publishing, Jobs, PublishRows, UpdateRows, IsBuffered, Exists
            <4>2. records'[r].status = "active"
                BY <1>0, <3>2, <4>1 DEF TypeOK, TablesTypeOK, Row
            <4> QED
                BY <1>0, <3>1, <3>2, <4>2 DEF HistoryFits, Gone
        <3> QED
            BY <3>1, <3>3, <3>4, <3>5
    <2>5. CASE worker[w].pc \in {"sync_read", "sync_index", "sync_embed", "reread", "relate"}
        <3>1. UNCHANGED rowVars
            BY <2>1, <2>5 DEF Writes
        <3>2. CASE worker'[w].pc = "recheck"
            BY <3>2
        <3>3. CASE worker'[w].pc # "recheck"
            <4>1. r = Id(w) /\ Tells(worker[w])
                BY <1>1, <2>2, <3>3 DEF Id
            <4>2. CASE worker[w].pc \in {"sync_read", "sync_index", "sync_embed"}
                <5>1. Gone(r)
                    BY <4>1, <4>2 DEF AnswerOwed
                <5>2. worker'[w].pc \in {"sync_index", "sync_embed", "reread"}
                    BY <2>1, <4>1, <4>2 DEF Stepped, Goes, AfterSync, Id
                <5> QED
                    BY <1>2, <3>1, <5>1, <5>2
            <4>3. CASE At(w, "reread")
                <5>1. Gone(r)
                    BY <4>1, <4>3 DEF AnswerOwed, At
                <5>2. \/ worker'[w].pc \in {"relate", "answer"} /\ Exists(r)
                      \/ worker'[w].pc \in {"idle", "next"}
                    BY <2>1, <4>1, <4>3 DEF Stepped, Goes, Done, At, Id
                <5> QED
                    BY <1>2, <3>1, <5>1, <5>2 DEF Gone
            <4>4. CASE At(w, "relate")
                <5>1. r \in everActive
                    BY <4>1, <4>4 DEF AnswerOwed, At
                <5>2. worker'[w].pc \in {"answer", "idle", "next"}
                    BY <2>1, <4>1, <4>4 DEF Stepped, Goes, Done, At
                <5> QED
                    BY <1>2, <3>1, <5>1, <5>2
            <4> QED
                BY <2>5, <4>2, <4>3, <4>4 DEF At
        <3> QED
            BY <3>2, <3>3
    <2>6. CASE At(w, "answer")
        BY <1>1, <2>1, <2>6 DEF Stepped, Goes, At, IdleWorker
    <2>7. worker[w].pc \in {"recheck", "update", "sync_read", "sync_index", "sync_embed",
                            "reread", "relate", "answer"}
        BY <1>1, <2>1, <2>2
           DEF OpsAt, WorkerRecord, Labels, Jobs, Listing, Stepped, Goes, Picks, IdleWorker
    <2> QED
        BY <2>3, <2>4, <2>5, <2>6, <2>7 DEF At
<1>4. CASE Starts(w)
    BY <1>1, <1>4 DEF Starts
<1>5. CASE worker'[w] = worker[w]
    <2>1. /\ worker[w].pc = "update" => IsBuffered(r) \/ Gone(r)
          /\ worker[w].pc \in {"sync_read", "sync_index", "sync_embed", "reread"} => Gone(r)
          /\ worker[w].pc \in {"relate", "answer"} => r \in everActive
        BY <1>1, <1>5 DEF AnswerOwed, At, Id
    <2>2. CASE NoDetour /\ ~Overlap
        <3>1. CASE worker[w].pc \in {"update", "sync_read", "sync_index", "sync_embed", "reread"}
            <4>1. r \in Ids \cap born
                BY <1>0, <1>1, <1>5, <3>1, LifecycleAssumption
                   DEF InHand, TypeOK, WorkerState, WorkerRecord, Id
            <4> QED
                BY <1>0, <1>5, <2>1, <2>2, <3>1, <4>1, GoneStays, BufferedOrGone
        <3>2. CASE worker[w].pc \notin {"update", "sync_read", "sync_index", "sync_embed",
                                         "reread"}
            BY <1>0, <1>5, <2>1, <3>2, EverActiveGrows
        <3> QED
            BY <3>1, <3>2
    <2>3. CASE UNCHANGED rowVars
        BY <1>2, <1>5, <2>1, <2>3
    <2>4. CASE OneWorker /\ \E v \in Workers : Step(v)
        BY <1>3, <2>4 DEF OneWorker
    <2> QED
        BY <1>0, <2>2, <2>3, <2>4, NextCases DEF Still, Starts
<1> QED
    <2>1. worker'[w] # IdleWorker /\ worker'[w].op # "boot_job"
        BY <1>1 DEF IdleWorker
    <2> QED
        BY <1>0, <1>3, <1>4, <1>5, <2>1, WorkerCases

\* A caller told that its record was published has had it published, on one
\* event loop; and beside any number of threads of one process, in a library
\* without deletion protection in which nobody rejects records.
THEOREM AnswersTrue ==
    ASSUME OneWorker \/ (NoDetour /\ ~Overlap)
    PROVE  Spec => []AnswerIsTrue
<1>1. Init => AnswerOwed
    BY DEF Init, IdleWorker, AnswerOwed
<1>2. Base /\ AnswerOwed /\ [Next]_vars => AnswerOwed'
    BY AnswerOwedStep
<1>3. Base /\ AnswerOwed => AnswerIsTrue
    BY DEF AnswerIsTrue, AnswerOwed, Base, WorkersOK, OpsAt, At
<1> QED
    BY <1>1, <1>2, <1>3, BaseHolds, PTL DEF Spec

-----------------------------------------------------------------------------
(* What the search tables say.                                             *)

Follows(r) ==
    /\ searchIndex[r] = EntryOf(r)
    /\ Embeddings => embeddings[r] = IF records[r].status = "invalid" THEN NoEntry
                                     ELSE EntryOf(r)

\* A request brings both search tables up to date after it has changed a record;
\* a batch that publishes goes through its records one after the other.
OwesSearch(w, r) ==
    \/ /\ Id(w) = r
       /\ \/ At(w, "sync_read") /\ Exists(r)
          \/ worker[w].pc \in {"sync_index", "sync_embed", "erase_embedding", "erase_index"}
    \/ /\ worker[w].op = "batch_publish" /\ ~At(w, "update")
       /\ r \in worker[w].todo /\ Exists(r)

\* What a worker has read for the search tables is still what the record says.
HeldFresh ==
    \A w \in Workers :
        /\ worker[w].pc \in {"sync_index", "sync_embed"} =>
              Exists(Id(w)) /\ worker[w].entry = EntryOf(Id(w))
        /\ At(w, "sync_embed") => searchIndex[Id(w)] = EntryOf(Id(w))
        /\ At(w, "erase_index") => embeddings[Id(w)] = NoEntry

SearchOwed == \A r \in Ids : Follows(r) \/ \E w \in Workers : OwesSearch(w, r)

\* The records an UPDATE changes are those its request indexes next.
LEMMA UpdateTouches ==
    ASSUME TypeOK, NEW w \in Workers, Update(w), NEW r \in Ids, records'[r] # records[r]
    PROVE  /\ Exists(r)'
           /\ IF worker[w].op = "batch_publish" THEN r \in worker[w].todo ELSE r = Id(w)
<1>1. worker[w].op \in Updating
    BY DEF TypeOK, WorkerState, Update, At
<1>2. \E S, rows : /\ UpdateRows(S, rows)
                   /\ S \subseteq IF worker[w].op = "batch_publish" THEN worker[w].todo
                                  ELSE {Id(w)}
    BY <1>1, ZenonT(60) DEF Update, Updating, Rechecking, Publishing, Jobs, PublishRows, EditRow,
                TrashRow, RestoreRow, SetStatus
<1>3. PICK S, rows : /\ UpdateRows(S, rows)
                     /\ S \subseteq IF worker[w].op = "batch_publish" THEN worker[w].todo
                                    ELSE {Id(w)}
    BY <1>2
<1>4. r \in S /\ Exists(r)
    BY <1>3 DEF UpdateRows
<1> QED
    BY <1>3, <1>4, UpdateEffect

\* The report that stores a record holds what it has stored.
LEMMA StoredHeld ==
    ASSUME TypeOK, NEW w \in Workers, StoreReport(w), NEW r, r = worker'[w].id
    PROVE  /\ r \in Ids /\ Exists(r)' /\ worker'[w].entry = EntryOf(r)'
           /\ \A x \in Ids : x # r => records'[x] = records[x]
<1>1. PICK x \in Storable(w), kind \in {"draft", "verify", "new"},
           based_on \in SUBSET Ids :
        LET status == StatusOfReport(kind, worker[w].at) IN
        /\ InsertRecord(x, status, IF status = "buffered" THEN worker[w].at ELSE Never,
                        based_on)
        /\ worker' = [worker EXCEPT ![w] =
               [IdleWorker EXCEPT !.pc = "sync_index", !.op = "report", !.id = x,
                                  !.entry = [status |-> status, version |-> 0]]]
    BY DEF StoreReport
<1> DEFINE status == StatusOfReport(kind, worker[w].at)
<1>2. status # "none" /\ x \in Ids
    BY DEF StatusOfReport, Storable, TypeOK, TablesTypeOK
<1>3. worker' = [worker EXCEPT ![w] =
               [IdleWorker EXCEPT !.pc = "sync_index", !.op = "report", !.id = x,
                                  !.entry = [status |-> status, version |-> 0]]]
    BY <1>1
<1>4. InsertRecord(x, status, IF status = "buffered" THEN worker[w].at ELSE Never, based_on)
    BY <1>1
<1> HIDE DEF status
<1>5. r = x /\ worker'[w].entry = [status |-> status, version |-> 0]
    BY <1>3 DEF TypeOK, IdleWorker
<1>6. /\ records'[x].status = status /\ records'[x].version = 0
      /\ \A y \in Ids : y # x => records'[y] = records[y]
    BY <1>2, <1>4 DEF InsertRecord, TypeOK, TablesTypeOK
<1> QED
    BY <1>2, <1>5, <1>6 DEF Exists, EntryOf

LEMMA FollowsStays ==
    ASSUME NEW r \in Ids, Follows(r), records'[r] = records[r],
           searchIndex'[r] = searchIndex[r], embeddings'[r] = embeddings[r]
    PROVE  Follows(r)'
BY DEF Follows, EntryOf

\* On one loop nothing comes between reading a record and indexing it.
LEMMA HeldFreshStep ==
    ASSUME Base, HeldFresh, NEW w \in Workers, Step(w), NEW r, r = worker'[w].id
    PROVE  /\ worker'[w].pc \in {"sync_index", "sync_embed"} =>
                 Exists(r)' /\ worker'[w].entry = EntryOf(r)'
           /\ worker'[w].pc = "sync_embed" => searchIndex'[r] = EntryOf(r)'
           /\ worker'[w].pc = "erase_index" => embeddings'[r] = NoEntry
<1>0. /\ TypeOK /\ Stepped(w) /\ Writes(w)
      /\ worker[w] \in WorkerRecord /\ worker[w].op \in OpsAt(worker[w].pc)
    BY StepCases, StepWrites DEF Base, IndInv, TypeOK, WorkerState, WorkersOK
<1>1. r = worker'[w].id
    OBVIOUS
<1> DEFINE x == worker'[w]
<1>3. UNCHANGED rowVars => (Exists(r)' <=> Exists(r)) /\ EntryOf(r)' = EntryOf(r)
    BY DEF rowVars, Exists, EntryOf
<1>4. CASE At(w, "insert")
    <2>1. CASE StoreReport(w)
        <3>1. x.pc = "sync_index"
            BY <1>0, <2>1 DEF StoreReport, TypeOK, IdleWorker
        <3> QED
            BY <1>0, <1>1, <2>1, <3>1, StoredHeld
    <2>2. CASE x.op # "report"
        BY <1>0, <1>4, <2>2 DEF Stepped, At, IdleWorker
    <2> QED
        BY <1>0, <1>4, <2>1, <2>2 DEF Writes
<1>5. CASE At(w, "sync_read")
    <2>1. UNCHANGED rowVars
        BY <1>0, <1>5 DEF Writes, At
    <2>2. CASE Exists(worker[w].id)
        <3>1. x.pc = "sync_index" /\ r = worker[w].id /\ x.entry = EntryOf(r)
            BY <1>0, <1>1, <1>5, <2>2 DEF Stepped, At
        <3> QED
            BY <1>3, <2>1, <2>2, <3>1
    <2>3. CASE ~Exists(worker[w].id)
        <3>1. x.pc \in {"idle", "next", "relate", "audit", "unrelate", "reread"}
            BY <1>0, <1>5, <2>3 DEF Stepped, Goes, AfterSync, Done, At
        <3> QED
            BY <3>1
    <2> QED
        BY <2>2, <2>3
<1>6. CASE At(w, "sync_index")
    <2>1. x.pc = "sync_embed" /\ r = worker[w].id /\ x.entry = worker[w].entry
        BY <1>0, <1>1, <1>6 DEF Stepped, Goes, At
    <2>2. r \in Ids /\ Exists(r) /\ worker[w].entry = EntryOf(r)
        BY <1>0, <1>6, <2>1, HandBorn DEF HeldFresh, Base, Id, At
    <2>3. SyncIndex(w)
        BY <1>0, <1>6 DEF Writes
    <2>4. searchIndex'[r] = worker[w].entry /\ UNCHANGED rowVars
        BY <1>0, <2>1, <2>2, <2>3 DEF SyncIndex, UpsertIndex, TypeOK, TablesTypeOK, Id
    <2> QED
        BY <1>3, <2>1, <2>2, <2>4
<1>7. CASE At(w, "erase_embedding")
    <2>1. x.pc = "erase_index" /\ r = worker[w].id
        BY <1>0, <1>1, <1>7 DEF Stepped, Goes, At
    <2>2. r \in Ids
        BY <1>0, <1>7, <2>1, HandBorn DEF Base, Id, At
    <2>3. embeddings'[r] = NoEntry
        BY <1>0, <1>7, <2>1, <2>2 DEF Writes, EraseEmbedding, TypeOK, TablesTypeOK, Id
    <2> QED
        BY <2>1, <2>3
<1>8. CASE worker[w].pc \notin {"insert", "sync_read", "sync_index", "erase_embedding"}
    <2>1. CASE worker[w].pc \in {"next", "recheck", "update", "reread", "relate"}
        BY <1>0, <2>1
           DEF Stepped, Goes, Picks, FirstLabel, Done, OpsAt, Listing, Jobs, Rechecking
    <2>2. CASE At(w, "sync_embed")
        BY <1>0, <2>2 DEF Stepped, Goes, AfterSync, Done, At
    <2>3. CASE worker[w].pc \notin {"next", "recheck", "update", "reread", "relate", "sync_embed"}
        BY <1>0, <1>8, <2>3 DEF Stepped, Goes, Done, At, WorkerRecord, Labels, IdleWorker
    <2> QED
        BY <2>1, <2>2, <2>3 DEF At
<1> QED
    BY <1>4, <1>5, <1>6, <1>7, <1>8 DEF At

\* A request on the way to the search tables gets there.
LEMMA SearchGoesOn ==
    ASSUME Base, NoRowNoText', HeldFresh, OneWorker, SearchOwed, NEW w \in Workers, Step(w),
           NEW r \in Ids
    PROVE  Follows(r)' \/ OwesSearch(w, r)'
<1>0. /\ TypeOK /\ Stepped(w) /\ Writes(w)
      /\ worker[w] \in WorkerRecord /\ worker[w].op \in OpsAt(worker[w].pc)
    BY StepCases, StepWrites DEF Base, IndInv, TypeOK, WorkerState, WorkersOK
<1>1. Follows(r) \/ OwesSearch(w, r)
    BY DEF SearchOwed, OneWorker
<1> DEFINE x == worker'[w]
           Owes == OwesSearch(w, r)'
<1>2. /\ x.id = r /\ x.pc \in {"sync_index", "sync_embed", "erase_embedding", "erase_index"}
            => Owes
      /\ x.id = r /\ x.pc = "sync_read" /\ Exists(r)' => Owes
      /\ x.op = "batch_publish" /\ x.pc # "update" /\ r \in x.todo /\ Exists(r)' => Owes
    BY DEF OwesSearch, At, Id
<1>3. UNCHANGED rowVars => (Exists(r)' <=> Exists(r)) /\ EntryOf(r)' = EntryOf(r)
                           /\ records'[r] = records[r]
    BY DEF rowVars, Exists, EntryOf
<1>4. OwesSearch(w, r) =>
        \/ /\ worker[w].id = r
           /\ \/ worker[w].pc = "sync_read" /\ Exists(r)
              \/ worker[w].pc \in {"sync_index", "sync_embed", "erase_embedding", "erase_index"}
        \/ /\ worker[w].op = "batch_publish" /\ worker[w].pc # "update"
           /\ r \in worker[w].todo /\ Exists(r)
    BY DEF OwesSearch, At, Id
<1> HIDE DEF Owes
<1>5. SUFFICES Follows(r)' \/ Owes
    BY DEF Owes
<1>6. ASSUME records'[r] = records[r], UNCHANGED lookupVars, Follows(r)
      PROVE  Follows(r)'
    BY <1>6, FollowsStays DEF lookupVars
<1>7. CASE At(w, "next")
    <2>1. UNCHANGED <<rowVars, lookupVars>>
        BY <1>0, <1>7 DEF Writes, At
    <2>2. CASE OwesSearch(w, r)
        <3>1. worker[w].op = "batch_publish" /\ r \in worker[w].todo /\ Exists(r)
            BY <1>4, <1>7, <2>2 DEF At
        <3>2. Picks(w)
            BY <1>0, <1>7, <3>1 DEF Stepped, At
        <3>3. /\ x.op = "batch_publish" /\ x.pc = "sync_read"
              /\ x.id = r \/ r \in x.todo
            BY <3>1, <3>2 DEF Picks, FirstLabel, Jobs
        <3> QED
            BY <1>2, <1>3, <2>1, <3>1, <3>3
    <2> QED
        BY <1>1, <1>3, <1>6, <2>1, <2>2
<1>8. CASE At(w, "insert")
    <2>1. Follows(r) /\ UNCHANGED lookupVars
        BY <1>0, <1>1, <1>4, <1>8 DEF OpsAt, Writes, At
    <2>2. CASE StoreReport(w)
        <3>1. x.pc = "sync_index"
            BY <1>0, <2>2 DEF StoreReport, TypeOK, IdleWorker
        <3>2. x.id = r \/ records'[r] = records[r]
            BY <1>0, <2>2, StoredHeld
        <3> QED
            BY <1>2, <1>6, <2>1, <3>1, <3>2
    <2> QED
        BY <1>0, <1>3, <1>6, <1>8, <2>1, <2>2 DEF Writes
<1>9. CASE At(w, "update")
    <2>1. Follows(r) /\ UNCHANGED lookupVars /\ Update(w)
        BY <1>0, <1>1, <1>4, <1>9 DEF Writes, At
    <2>2. CASE records'[r] # records[r]
        <3>1. /\ Exists(r)'
              /\ IF worker[w].op = "batch_publish" THEN r \in worker[w].todo
                 ELSE r = worker[w].id
            BY <1>0, <2>1, <2>2, UpdateTouches DEF Id
        <3> QED
            BY <1>0, <1>2, <1>9, <3>1 DEF Stepped, Goes, At
    <2> QED
        BY <1>6, <2>1, <2>2
<1>10. CASE At(w, "sync_read")
    <2>1. UNCHANGED <<rowVars, lookupVars>>
        BY <1>0, <1>10 DEF Writes, At
    <2>2. CASE worker[w].id = r /\ Exists(r)
        BY <1>0, <1>2, <1>10, <2>2 DEF Stepped, At
    <2>3. CASE worker[w].op = "batch_publish" /\ r \in worker[w].todo /\ Exists(r)
        BY <1>0, <1>2, <1>3, <1>10, <2>1, <2>3 DEF Stepped, Goes, AfterSync, At
    <2> QED
        BY <1>1, <1>3, <1>4, <1>6, <1>10, <2>1, <2>2, <2>3 DEF At
<1>11. CASE At(w, "sync_index")
    <2>1. SyncIndex(w) /\ x.pc = "sync_embed" /\ x.id = worker[w].id
        BY <1>0, <1>11 DEF Writes, Stepped, Goes, At
    <2>2. CASE worker[w].id = r
        BY <1>2, <2>1, <2>2
    <2>3. CASE worker[w].id # r
        <3>1. /\ UNCHANGED <<rowVars, embeddings>>
              /\ searchIndex'[r] = searchIndex[r]
            BY <1>0, <2>1, <2>3 DEF SyncIndex, UpsertIndex, TypeOK, TablesTypeOK, Id
        <3>2. CASE OwesSearch(w, r)
            BY <1>0, <1>2, <1>3, <1>4, <1>11, <2>3, <3>1, <3>2 DEF Stepped, Goes, At
        <3> QED
            BY <1>1, <1>3, <3>1, <3>2, FollowsStays
    <2> QED
        BY <2>2, <2>3
<1>12. CASE At(w, "sync_embed")
    <2>1. SyncEmbed(w)
        BY <1>0, <1>12 DEF Writes
    <2>2. UNCHANGED <<rowVars, searchIndex>>
        BY <2>1 DEF SyncEmbed, UpsertEmbedding
    <2>3. CASE worker[w].id = r
        <3>1. worker[w].entry = EntryOf(r) /\ searchIndex[r] = EntryOf(r)
            BY <1>12, <2>3 DEF HeldFresh, At, Id
        <3>2. embeddings'[r] = IF worker[w].entry.status = "invalid" THEN NoEntry
                               ELSE IF Embeddings THEN worker[w].entry ELSE embeddings[r]
            BY <1>0, <2>1, <2>3 DEF SyncEmbed, UpsertEmbedding, TypeOK, TablesTypeOK, Id
        <3>3. worker[w].entry.status = records[r].status
            BY <3>1 DEF EntryOf
        <3> QED
            BY <1>3, <2>2, <3>1, <3>2, <3>3 DEF Follows
    <2>4. CASE worker[w].id # r
        <3>1. embeddings'[r] = embeddings[r]
            BY <1>0, <2>1, <2>4 DEF SyncEmbed, UpsertEmbedding, TypeOK, TablesTypeOK, Id
        <3>2. CASE OwesSearch(w, r)
            BY <1>0, <1>2, <1>3, <1>4, <1>12, <2>2, <2>4, <3>2
               DEF Stepped, Goes, AfterSync, At
        <3> QED
            BY <1>1, <1>3, <2>2, <3>1, <3>2, FollowsStays
    <2> QED
        BY <2>3, <2>4
<1>13. CASE At(w, "relate")
    <2>1. UNCHANGED <<rowVars, lookupVars>>
        BY <1>0, <1>13 DEF Writes, At
    <2>2. CASE OwesSearch(w, r)
        BY <1>0, <1>2, <1>3, <1>4, <1>13, <2>1, <2>2 DEF Stepped, Goes, Done, Listing, At
    <2> QED
        BY <1>1, <1>3, <1>6, <2>1, <2>2
<1>14. CASE At(w, "erase")
    <2>1. Follows(r) /\ EraseRow(worker[w].id) /\ UNCHANGED lookupVars
        BY <1>0, <1>1, <1>4, <1>14 DEF OpsAt, Writes, At, Id
    <2>2. x.id = worker[w].id /\ x.pc = "erase_embedding"
        BY <1>0, <1>14 DEF Stepped, Goes, At
    <2>3. x.id # r => records'[r] = records[r]
        BY <1>0, <2>1, <2>2, EraseEffect
    <2> QED
        BY <1>2, <1>6, <2>1, <2>2, <2>3
<1>15. CASE At(w, "erase_embedding")
    <2>1. EraseEmbedding(worker[w].id) /\ x.pc = "erase_index" /\ x.id = worker[w].id
        BY <1>0, <1>15 DEF Writes, Stepped, Goes, At, Id
    <2>2. CASE worker[w].id # r
        <3>1. Follows(r)
            BY <1>0, <1>1, <1>4, <1>15, <2>2 DEF OpsAt, At
        <3>2. UNCHANGED <<rowVars, searchIndex>> /\ embeddings'[r] = embeddings[r]
            BY <1>0, <2>1, <2>2 DEF EraseEmbedding, TypeOK, TablesTypeOK
        <3> QED
            BY <1>3, <3>1, <3>2, FollowsStays
    <2> QED
        BY <1>2, <2>1, <2>2
<1>16. CASE At(w, "erase_index")
    <2>1. EraseIndex(worker[w].id)
        BY <1>0, <1>16 DEF Writes, Id
    <2>2. UNCHANGED <<rowVars, embeddings>>
        BY <2>1 DEF EraseIndex
    <2>3. CASE worker[w].id # r
        <3>1. Follows(r)
            BY <1>0, <1>1, <1>4, <1>16, <2>3 DEF OpsAt, At
        <3>2. searchIndex'[r] = searchIndex[r]
            BY <1>0, <2>1, <2>3 DEF EraseIndex, TypeOK, TablesTypeOK
        <3> QED
            BY <1>3, <2>2, <3>1, <3>2, FollowsStays
    <2>4. CASE worker[w].id = r
        <3>1. ~Exists(r) /\ embeddings[r] = NoEntry
            <4>1. reborn = {}
                BY DEF Base, FreshIds, Overlap, OneWorker, Workers
            <4> QED
                BY <1>16, <2>4, <4>1 DEF Base, ErasedGone, HeldFresh, At, Id
        <3>2. searchIndex'[r] = NoEntry
            BY <1>0, <2>1, <2>4 DEF EraseIndex, TypeOK, TablesTypeOK
        <3>3. EntryOf(r)' = NoEntry
            BY <1>3, <2>2, <3>1 DEF NoRowNoText, Exists, EntryOf, NoEntry
        <3> QED
            BY <2>2, <3>1, <3>2, <3>3 DEF Follows
    <2> QED
        BY <2>3, <2>4
<1>17. CASE worker[w].pc \in {"recheck", "reread", "unrelate", "audit", "answer", "tombstone",
                               "mark", "boot_audit", "boot_select", "boot_index"}
    <2>1. UNCHANGED <<rowVars, lookupVars>>
        BY <1>0, <1>17 DEF Writes
    <2>2. worker[w].op # "batch_publish"
        BY <1>0, <1>17 DEF OpsAt, Rechecking, Jobs
    <2> QED
        BY <1>1, <1>3, <1>4, <1>6, <1>17, <2>1, <2>2
<1>18. worker[w].pc \in Labels /\ worker[w].pc # "idle"
    BY <1>0 DEF Stepped, WorkerRecord
<1> QED
    BY <1>7, <1>8, <1>9, <1>10, <1>11, <1>12, <1>13, <1>14, <1>15, <1>16, <1>17, <1>18
       DEF Labels, At

LEMMA SearchStep ==
    ASSUME Base, NoRowNoText', HeldFresh, SearchOwed, OneWorker, [Next]_vars,
           Offered \cap {"failure", "crash"} = {}
    PROVE  HeldFresh' /\ SearchOwed'
<1>0. TypeOK
    BY DEF Base, IndInv
<1>1. CASE \E w \in Workers : Step(w)
    <2>1. PICK w \in Workers : Step(w)
        BY <1>1
    <2>2. HeldFresh'
        <3>1. PICK r : r = worker'[w].id
            OBVIOUS
        <3>2. /\ worker'[w].pc \in {"sync_index", "sync_embed"} =>
                    Exists(r)' /\ worker'[w].entry = EntryOf(r)'
              /\ worker'[w].pc = "sync_embed" => searchIndex'[r] = EntryOf(r)'
              /\ worker'[w].pc = "erase_index" => embeddings'[r] = NoEntry
            BY <2>1, <3>1, HeldFreshStep
        <3>3. \A v \in Workers : v = w
            BY DEF OneWorker
        <3> QED
            BY <3>1, <3>2, <3>3 DEF HeldFresh, Exists, EntryOf, At, Id
    <2>3. SearchOwed'
        BY <2>1, SearchGoesOn DEF SearchOwed
    <2> QED
        BY <2>2, <2>3
<1>2. CASE \E w \in Workers : Starts(w)
    <2>1. PICK w \in Workers : Starts(w)
        BY <1>2
    <2>2. /\ UNCHANGED <<rowVars, lookupVars>> /\ At(w, "idle")
          /\ worker'[w].pc \in {"next", "update", "recheck", "tombstone"}
        BY <2>1 DEF Starts, Still
    <2>3. worker[w].op = "none"
        BY <2>2 DEF Base, WorkersOK, OpsAt, At
    <2>4. \A r \in Ids : Follows(r)
        BY <2>2, <2>3 DEF SearchOwed, OwesSearch, OneWorker, At
    <2>5. \A r \in Ids : Follows(r)'
        BY <2>2, <2>4, FollowsStays DEF rowVars, lookupVars
    <2>6. HeldFresh'
        BY <2>2 DEF HeldFresh, OneWorker, At
    <2> QED
        BY <2>5, <2>6 DEF SearchOwed
<1>3. CASE Still /\ UNCHANGED worker
    BY <1>3 DEF Still, rowVars, lookupVars, SearchOwed, HeldFresh, Follows, OwesSearch, EntryOf,
                Exists, At, Id
<1> QED
    BY <1>0, <1>1, <1>2, <1>3, NextCases DEF FailRequest, Crash

\* On one event loop both search tables say what the record says once every
\* request is over: each request that changes a record reads it back and writes
\* both tables before the loop turns to another.
THEOREM TablesFollow ==
    ASSUME OneWorker, Offered \cap {"failure", "crash"} = {}
    PROVE  Spec => []SearchTablesFollow
<1>1. Init => NoRowNoText /\ HeldFresh /\ SearchOwed
    <2>1. SUFFICES ASSUME Init
                   PROVE  NoRowNoText /\ HeldFresh /\ SearchOwed
        OBVIOUS
    <2>2. \A r \in Ids : records[r] = NoRow /\ searchIndex[r] = NoEntry /\ embeddings[r] = NoEntry
        BY <2>1 DEF Init, TablesInit
    <2>3. \A w \in Workers : At(w, "idle")
        BY <2>1 DEF Init, IdleWorker, At
    <2> QED
        BY <2>2, <2>3
           DEF NoRowNoText, HeldFresh, SearchOwed, Follows, EntryOf, NoRow, NoEntry, At
<1>2. Base /\ NoRowNoText /\ [Next]_vars => NoRowNoText'
    BY NoTextStep DEF Base, PromiseInv
<1>3. Base /\ NoRowNoText' /\ HeldFresh /\ SearchOwed /\ [Next]_vars => HeldFresh' /\ SearchOwed'
    BY SearchStep
<1>4. Base /\ SearchOwed => SearchTablesFollow
    <2>1. SUFFICES ASSUME Base, SearchOwed, Quiescent, NEW r \in Ids
                   PROVE  Follows(r)
        BY DEF SearchTablesFollow, Follows
    <2>2. \A w \in Workers : worker[w].pc = "idle" /\ worker[w].op = "none"
        BY <2>1 DEF Quiescent, Base, WorkersOK, OpsAt, At
    <2> QED
        BY <2>1, <2>2 DEF SearchOwed, OwesSearch, At
<1> QED
    BY <1>1, <1>2, <1>3, <1>4, BaseHolds, PTL DEF Spec

=============================================================================
