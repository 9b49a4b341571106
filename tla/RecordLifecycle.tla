--------------------------- MODULE RecordLifecycle ---------------------------
(***************************************************************************)
(* The life of knowledge records under the requests and background jobs of *)
(* the ma3 server: report, publish, patch, delete, restore, review, the    *)
(* publication of due records, and what a restarted process does.          *)
(*                                                                         *)
(* A server process has one event loop, which runs MCP calls, the portal's *)
(* async handlers and the 60-second publication job one after the other    *)
(* (mcp_post calls its synchronous tool code directly), and thread-pool    *)
(* threads, which run the portal's plain def handlers beside it: publish,  *)
(* delete, and the pages that publish due records before they render.      *)
(* Two processes share the database while a blue-green deployment drains.  *)
(* Each is a worker that runs one request at a time, one transaction per   *)
(* step.                                                                   *)
(*                                                                         *)
(* Two reads are merged into one step only where no other worker can make  *)
(* the difference show in a table.  Permission checks are left out: author *)
(* requests come from the record's author, reviews from a maintainer.      *)
(***************************************************************************)
EXTENDS RecordTables

CONSTANTS
    Servers,    \* server processes; each stands for its event loop as well
    Threads,    \* thread-pool threads
    Host,       \* the process a thread belongs to
    Nobody,     \* the record of an idle worker
    Offered,    \* the kinds of request and of fault this instance exercises
    BufferHours,\* the values the library's settings form may set
    MaxEdits,   \* bound on the edits of one record
    MaxFaults   \* bound on crashes and failed requests

Workers == Servers \cup Threads

ASSUME LifecycleAssumption ==
    /\ Servers \cap Threads = {}
    /\ Host \in [Threads -> Servers]
    /\ Nobody \notin Ids
    /\ BufferHours \subseteq Nat
    /\ MaxEdits \in Nat
    /\ MaxFaults \in Nat

VARIABLES
    worker,     \* what each worker is doing
    forms,      \* the edits of the portal whose handler awaits the form
    faults      \* the crashes and failed requests so far

vars == <<tableVars, worker, forms, faults>>

-----------------------------------------------------------------------------

\* What a worker may be running.  publish_patched_*: the publication a patch
\* ends with when the library has no buffer.  report_job, boot_job: the
\* publication of due records before a report, and at startup.
Ops == {"none", "report", "publish_mcp", "publish_portal", "batch_publish",
        "patch_mcp", "patch_portal", "publish_patched_mcp",
        "publish_patched_portal", "delete", "batch_delete", "restore", "purge",
        "approve", "reject", "job", "report_job", "boot_job", "replay", "backfill"}

\* The next transaction of a worker.
Labels == {"idle", "insert", "recheck", "update", "sync_read", "sync_index", "sync_embed",
           "reread", "relate", "unrelate", "audit", "tombstone", "mark", "erase",
           "erase_embedding", "erase_index", "next", "answer",
           "boot_audit", "boot_select", "boot_index"}

\* The requests that look at the record again before they write it, and those
\* that write table records.
Rechecking == {"publish_mcp", "publish_portal", "publish_patched_mcp",
               "publish_patched_portal", "patch_mcp", "patch_portal"}

\* publish_due_buffered_records, whoever calls it.
Jobs == {"job", "report_job", "boot_job"}

Updating == Rechecking \cup Jobs \cup {"batch_publish", "delete", "batch_delete",
                                        "restore", "approve", "reject"}

\* id: the record at hand; todo: the records still to come; entry: the record
\* as last read for the index; at: the publish_at a report or patch computed;
\* known: the ids a report's idempotency key could have claimed when it looked.
WorkerRecord == [pc : Labels, op : Ops, id : Ids \cup {Nobody}, todo : SUBSET Ids,
                 entry : Entry, at : Times, known : SUBSET Ids]

\* A worker is at a step its request has, with a record at hand where the step
\* needs one; only a library with deletion protection has a trash.
WorkerState ==
    {x \in WorkerRecord :
        /\ x.id = Nobody =>
              \/ x.pc \in {"idle", "next", "insert", "boot_audit", "boot_select",
                            "boot_index"}
              \/ x.pc = "update" /\ x.op = "batch_publish"
        /\ x.pc = "recheck" => x.op \in Rechecking
        /\ x.pc = "update" => x.op \in Updating
        /\ x.op = "restore" => Protected}

IdleWorker == [pc |-> "idle", op |-> "none", id |-> Nobody, todo |-> {},
               entry |-> NoEntry, at |-> Never, known |-> {}]

TypeOK ==
    /\ TablesTypeOK
    /\ worker \in [Workers -> WorkerState]
    /\ forms \subseteq Servers \X Ids
    /\ faults \in 0..MaxFaults

Init ==
    /\ TablesInit
    /\ bufferHours \in BufferHours
    /\ worker = [w \in Workers |-> IdleWorker]
    /\ forms = {}
    /\ faults = 0

-----------------------------------------------------------------------------
(* Moving a worker along.                                                  *)

At(w, label)  == worker[w].pc = label
Id(w)         == worker[w].id
Booting(s)    == worker[s].pc \in {"boot_audit", "boot_select", "boot_index"}
                 \/ worker[s].op \in {"boot_job", "backfill"}
IsFree(w)     == At(w, "idle") /\ (w \in Threads => ~Booting(Host[w]))

Goto(w, label) ==
    worker' = [worker EXCEPT ![w] = IF label = "idle" THEN IdleWorker
                                    ELSE [@ EXCEPT !.pc = label]]

Start(w, op, label, r) ==
    worker' = [worker EXCEPT ![w] = [IdleWorker EXCEPT !.pc = label, !.op = op, !.id = r]]

Become(w, op, label) ==
    worker' = [worker EXCEPT ![w] = [@ EXCEPT !.op = op, !.pc = label]]

\* Requests that go through a list of records return to it.
Listing == Jobs \cup {"batch_publish", "batch_delete", "backfill"}
Done(w) == IF worker[w].op \in Listing THEN "next" ELSE "idle"

\* A request of a kind that starts on worker w.
Accept(w, kind) == kind \in Offered /\ IsFree(w)

\* Bound: a timer that starts now runs out before the clock stops.
WithinHorizon == now + bufferHours <= MaxTime

\* The author names a record once its report is over: the id comes from the
\* report's answer, the list of writes or a search.  An id stored again is known.
Reported(r) == r \in reborn \/ \A w \in Workers : Id(w) = r => worker[w].op # "report"

\* Two processes share the database.
Overlap == \E s, t \in Servers : s # t

-----------------------------------------------------------------------------
(* Requests: the first step, with the checks made before anything changes. *)

\* ma3_report: resolve_report_status reads the buffer, then due records are
\* published before anything else is looked at.
Report(s) ==
    /\ Accept(s, "report") /\ WithinHorizon
    /\ worker' = [worker EXCEPT ![s] = [IdleWorker EXCEPT
                     !.pc = "next", !.op = "report_job", !.todo = Due, !.at = PublishTime]]
    /\ UNCHANGED <<tableVars, forms, faults>>

\* ma3_publish_record.
PublishMcp(s, r) ==
    /\ Accept(s, "publish_mcp") /\ IsBuffered(r) /\ Reported(r)
    /\ Start(s, "publish_mcp", "recheck", r)
    /\ UNCHANGED <<tableVars, forms, faults>>

\* POST /ui/records/{id}/publish.
PublishPortal(t, r) ==
    /\ Accept(t, "publish_portal") /\ IsBuffered(r) /\ Reported(r)
    /\ Start(t, "publish_portal", "recheck", r)
    /\ UNCHANGED <<tableVars, forms, faults>>

\* POST /ui/me/writes/batch: the selection.
BatchPublish(s) ==
    /\ Accept(s, "batch_publish")
    /\ \E chosen \in SUBSET OwnBuffered \ {{}} :
          worker' = [worker EXCEPT ![s] = [IdleWorker EXCEPT
                        !.pc = "update", !.op = "batch_publish", !.todo = chosen]]
    /\ UNCHANGED <<tableVars, forms, faults>>

BatchDelete(s) ==
    /\ Accept(s, "batch_delete")
    /\ \E chosen \in SUBSET OwnBuffered \ {{}} :
          worker' = [worker EXCEPT ![s] = [IdleWorker EXCEPT
                        !.pc = "next", !.op = "batch_delete", !.todo = chosen]]
    /\ UNCHANGED <<tableVars, forms, faults>>

\* ma3_patch_record.
PatchMcp(s, r) ==
    /\ Accept(s, "patch_mcp") /\ IsBuffered(r) /\ Reported(r)
    /\ records[r].version < MaxEdits /\ WithinHorizon
    /\ worker' = [worker EXCEPT ![s] = [IdleWorker EXCEPT
                     !.pc = "recheck", !.op = "patch_mcp", !.id = r, !.at = PublishTime]]
    /\ UNCHANGED <<tableVars, forms, faults>>

\* POST /ui/records/{id}/edit looks at the status, then awaits the form while
\* the loop runs other requests.
OpenEdit(s, r) ==
    /\ Accept(s, "patch_portal") /\ IsBuffered(r) /\ Reported(r)
    /\ forms' = forms \cup {<<s, r>>}
    /\ UNCHANGED <<tableVars, worker, faults>>

EditPortal(s, r) ==
    /\ Accept(s, "patch_portal") /\ <<s, r>> \in forms
    /\ records[r].version < MaxEdits /\ WithinHorizon
    /\ forms' = forms \ {<<s, r>>}
    /\ worker' = [worker EXCEPT ![s] = [IdleWorker EXCEPT
                     !.pc = "recheck", !.op = "patch_portal", !.id = r, !.at = PublishTime]]
    /\ UNCHANGED <<tableVars, faults>>

\* ma3_delete_record, or the portal's delete button: whatever the status.
Delete(w, r) ==
    /\ Accept(w, "delete") /\ Exists(r) /\ Reported(r)
    /\ Start(w, "delete", IF Protected THEN "update" ELSE "tombstone", r)
    /\ UNCHANGED <<tableVars, forms, faults>>

\* ma3_restore_record: too late means purged.
RetentionOver(r) == records[r].trashedAt \in Nat /\ now >= records[r].trashedAt + Retention

Restore(s, r) ==
    /\ Accept(s, "restore") /\ Protected
    /\ records[r].status = "trashed"
    /\ IF RetentionOver(r) THEN Start(s, "purge", "tombstone", r)
                           ELSE Start(s, "restore", "update", r)
    /\ UNCHANGED <<tableVars, forms, faults>>

\* ma3_review_record.  Only an approval looks at the status.
Approve(s, r) ==
    /\ Accept(s, "approve")
    /\ records[r].status = "draft"
    /\ \A x \in cites[r] : records[x].status = "active"
    /\ Start(s, "approve", "update", r)
    /\ UNCHANGED <<tableVars, forms, faults>>

Reject(s, r) ==
    /\ Accept(s, "reject") /\ Exists(r)
    /\ Start(s, "reject", "update", r)
    /\ UNCHANGED <<tableVars, forms, faults>>

\* publish_due_buffered_records: every 60 seconds on the loop, and before a
\* portal page on a thread.
StartJob(w) ==
    /\ Accept(w, "job")
    /\ Due # {}
    /\ worker' = [worker EXCEPT ![w] = [IdleWorker EXCEPT
                     !.pc = "next", !.op = "job", !.todo = Due]]
    /\ UNCHANGED <<tableVars, forms, faults>>

-----------------------------------------------------------------------------
(* The steps requests share.                                               *)

\* What a list does first with a record.
FirstLabel(op, r) ==
    CASE op \in Jobs -> IF IsBuffered(r) THEN "update" ELSE "next"
      [] op = "batch_delete" -> IF Protected THEN "update"
                                ELSE IF Exists(r) THEN "tombstone" ELSE "next"
      [] OTHER -> "sync_read"

\* The next record of a list.  At its end a report looks for its idempotency key.
Next1(w) ==
    /\ At(w, "next")
    /\ IF worker[w].todo = {}
       THEN CASE worker[w].op = "report_job" ->
                     worker' = [worker EXCEPT ![w] = [@ EXCEPT !.pc = "insert",
                                                               !.known = born]]
              [] worker[w].op = "boot_job" -> Goto(w, "boot_index")
              [] OTHER -> Goto(w, "idle")
       ELSE \E r \in worker[w].todo :
            worker' = [worker EXCEPT ![w] = [@ EXCEPT
                !.id = r, !.todo = worker[w].todo \ {r},
                !.pc = FirstLabel(worker[w].op, r)]]
    /\ UNCHANGED <<tableVars, forms, faults>>

\* The rest of ma3_report up to the INSERT: the report is refused, repeats an
\* idempotency key, or is stored; the search tables get the values inserted.
StatusOfReport(kind, at) ==
    IF kind = "draft" THEN "draft"
    ELSE IF kind = "verify" \/ at = Never THEN "active" ELSE "buffered"

RefuseReport(w) ==
    /\ At(w, "insert")
    /\ Goto(w, "idle")
    /\ UNCHANGED <<tableVars, forms, faults>>

ReplayReport(w, r) ==
    /\ At(w, "insert") /\ r \in worker[w].known
    /\ Start(w, "replay", "sync_read", r)
    /\ UNCHANGED <<tableVars, forms, faults>>

\* The ids insert_record may store under.  Another process may have stored the same
\* report after the look-up: while that record is there, this one is answered as its
\* repetition (RefuseReport); if it has been deleted, its id is stored again.  The
\* report is the same one; its status is chosen anew, which allows more.
Storable(w) == (Ids \ born) \cup {r \in born \ worker[w].known : ~Exists(r)}

StoreReport(w) ==
    /\ At(w, "insert")
    /\ \E r \in Storable(w), kind \in {"draft", "verify", "new"},
          based_on \in SUBSET {x \in Ids : records[x].status \in {"active", "buffered"}} :
          LET status == StatusOfReport(kind, worker[w].at) IN
          /\ r \in born => based_on = cites[r]
          /\ InsertRecord(r, status,
                          IF status = "buffered" THEN worker[w].at ELSE Never, based_on)
          /\ worker' = [worker EXCEPT ![w] =
                 [IdleWorker EXCEPT !.pc = "sync_index", !.op = "report", !.id = r,
                                    !.entry = [status |-> status, version |-> 0]]]
    /\ UNCHANGED <<forms, faults>>

\* publish_buffered_record and update_buffered_record read the record again.
Recheck(w) ==
    /\ At(w, "recheck")
    /\ Goto(w, IF IsBuffered(Id(w)) THEN "update"
               ELSE CASE worker[w].op \in {"publish_portal", "publish_patched_portal"} -> "relate"
                      [] worker[w].op = "patch_portal" /\ worker[w].at = Never -> "relate"
                      [] OTHER -> "idle")
    /\ UNCHANGED <<tableVars, forms, faults>>

\* The UPDATE of each request.
Publishing == Jobs \cup {"publish_mcp", "publish_portal", "publish_patched_mcp",
                        "publish_patched_portal"}

Update(w) ==
    /\ At(w, "update")
    /\ CASE worker[w].op \in Publishing                   -> PublishRows({Id(w)})
         [] worker[w].op = "batch_publish"                -> PublishRows(worker[w].todo)
         [] worker[w].op \in {"patch_mcp", "patch_portal"} -> EditRow(Id(w), worker[w].at)
         [] worker[w].op \in {"delete", "batch_delete"}   -> TrashRow(Id(w))
         [] worker[w].op = "restore"                      -> RestoreRow(Id(w))
         [] worker[w].op = "approve"                      -> SetStatus(Id(w), "active")
         [] worker[w].op = "reject"                       -> SetStatus(Id(w), "invalid")
    /\ Goto(w, IF worker[w].op = "batch_publish" THEN "next" ELSE "sync_read")
    /\ UNCHANGED <<forms, faults>>

\* Mistake: a batch writes no relations.
AfterSyncUnlinked(w) ==
    CASE worker[w].op = "report" ->
             IF worker[w].entry.status = "active" THEN "relate" ELSE "audit"
      [] worker[w].op \in {"publish_portal", "publish_patched_portal"} -> "relate"
      [] worker[w].op = "reject" -> "unrelate"
      [] worker[w].op \in {"delete", "restore", "replay", "batch_delete", "batch_publish",
                          "backfill"} -> Done(w)
      [] OTHER -> "reread"

\* Where a request goes on once the record is indexed.
AfterSync(w) ==
    CASE worker[w].op = "report" ->
             IF worker[w].entry.status = "active" THEN "relate" ELSE "audit"
      [] worker[w].op \in {"publish_portal", "publish_patched_portal", "batch_publish"} -> "relate"
      [] worker[w].op = "reject" -> "unrelate"
      [] worker[w].op \in {"delete", "restore", "replay", "batch_delete", "backfill"} ->
             Done(w)
      [] OTHER -> "reread"

\* sync_record_search_index: read, then write each search table.
SyncRead(w) ==
    /\ At(w, "sync_read")
    /\ IF Exists(Id(w))
       THEN worker' = [worker EXCEPT ![w] = [@ EXCEPT !.pc = "sync_index",
                                                      !.entry = EntryOf(Id(w))]]
       ELSE Goto(w, AfterSync(w))
    /\ UNCHANGED <<tableVars, forms, faults>>

SyncIndex(w) ==
    /\ At(w, "sync_index")
    /\ UpsertIndex(Id(w), worker[w].entry)
    /\ Goto(w, "sync_embed")
    /\ UNCHANGED <<forms, faults>>

SyncEmbed(w) ==
    /\ At(w, "sync_embed")
    /\ UpsertEmbedding(Id(w), worker[w].entry)
    /\ Goto(w, AfterSync(w))
    /\ UNCHANGED <<forms, faults>>

\* Mistake: a patch without a buffer does not go on to publish.
RereadUnpublished(w) ==
    /\ At(w, "reread")
    /\ LET op == worker[w].op  found == Exists(Id(w)) IN
       CASE op = "publish_patched_mcp" /\ found -> Goto(w, "answer")
         [] op \in Jobs \cup {"publish_mcp", "approve"} /\ found -> Goto(w, "relate")
         [] OTHER -> Goto(w, Done(w))
    /\ UNCHANGED <<tableVars, forms, faults>>

\* The get_record the database helper returns, and what its caller makes of it.
Reread(w) ==
    /\ At(w, "reread")
    /\ LET op == worker[w].op  found == Exists(Id(w)) IN
       CASE op = "patch_portal" /\ worker[w].at = Never ->
                Become(w, "publish_patched_portal", "recheck")
         [] op = "patch_mcp" /\ worker[w].at = Never /\ found ->
                Become(w, "publish_patched_mcp", "recheck")
         [] op = "publish_patched_mcp" /\ found -> Goto(w, "answer")
         [] op \in Jobs \cup {"publish_mcp", "approve"} /\ found -> Goto(w, "relate")
         [] OTHER -> Goto(w, Done(w))
    /\ UNCHANGED <<tableVars, forms, faults>>

Relate(w) ==
    /\ At(w, "relate")
    /\ InsertRelations(Id(w))
    /\ Goto(w, CASE worker[w].op = "report" -> "audit"
                 [] worker[w].op = "publish_mcp" -> "answer"
                 [] OTHER -> Done(w))
    /\ UNCHANGED <<forms, faults>>

Unrelate(w) ==
    /\ At(w, "unrelate")
    /\ EraseRelations(Id(w))
    /\ Goto(w, "idle")
    /\ UNCHANGED <<forms, faults>>

Audit(w) ==
    /\ At(w, "audit")
    /\ AppendAudit(Id(w))
    /\ Goto(w, "idle")
    /\ UNCHANGED <<forms, faults>>

\* The answer {"status": "active", "published": True} is on its way.
Answer(w) ==
    /\ At(w, "answer")
    /\ Goto(w, "idle")
    /\ UNCHANGED <<tableVars, forms, faults>>

\* Mistake: the tombstone comes after the row is gone.
HardDeleteLateTombstone(w) ==
    /\ \/ At(w, "tombstone") /\ MarkRelations(Id(w)) /\ Goto(w, "mark")
       \/ At(w, "mark") /\ EraseRow(Id(w)) /\ Goto(w, "erase")
       \/ At(w, "erase") /\ InsertTombstone(Id(w)) /\ Goto(w, "erase_embedding")
       \/ At(w, "erase_embedding") /\ EraseEmbedding(Id(w)) /\ Goto(w, "erase_index")
       \/ At(w, "erase_index") /\ EraseIndex(Id(w)) /\ Goto(w, Done(w))
    /\ UNCHANGED <<forms, faults>>

\* hard_delete_record, one transaction per step.
HardDelete(w) ==
    /\ \/ At(w, "tombstone") /\ InsertTombstone(Id(w)) /\ Goto(w, "mark")
       \/ At(w, "mark") /\ MarkRelations(Id(w)) /\ Goto(w, "erase")
       \/ At(w, "erase") /\ EraseRow(Id(w)) /\ Goto(w, "erase_embedding")
       \/ At(w, "erase_embedding") /\ EraseEmbedding(Id(w)) /\ Goto(w, "erase_index")
       \/ At(w, "erase_index") /\ EraseIndex(Id(w)) /\ Goto(w, Done(w))
    /\ UNCHANGED <<forms, faults>>

-----------------------------------------------------------------------------
(* Faults and startup.                                                     *)

\* A request dies of an exception between two transactions.
FailRequest(w) ==
    /\ "failure" \in Offered
    /\ faults < MaxFaults
    /\ ~At(w, "idle")
    /\ w \in Servers => ~Booting(w)
    /\ faults' = faults + 1
    /\ Goto(w, "idle")
    /\ UNCHANGED <<tableVars, forms>>

\* A process dies with all it was doing, and is started again.
Crash(s) ==
    /\ "crash" \in Offered
    /\ faults < MaxFaults
    /\ faults' = faults + 1
    /\ forms' = {f \in forms : f[1] # s}
    /\ worker' = [w \in Workers |->
                    IF w = s
                    THEN [IdleWorker EXCEPT !.pc = "boot_audit", !.op = "boot_job"]
                    ELSE IF w \in Threads /\ Host[w] = s THEN IdleWorker
                    ELSE worker[w]]
    /\ UNCHANGED tableVars

\* initialize_database, then lifespan: audit rows, due records, stale indexes.
BootAudit(s) ==
    /\ At(s, "boot_audit")
    /\ BackfillAudit
    /\ Goto(s, "boot_select")
    /\ UNCHANGED <<forms, faults>>

BootSelect(s) ==
    /\ At(s, "boot_select")
    /\ worker' = [worker EXCEPT ![s] = [@ EXCEPT !.pc = "next", !.todo = Due]]
    /\ UNCHANGED <<tableVars, forms, faults>>

\* Mistake: only records the full-text index lacks.
BootIndexMissing(s) ==
    /\ At(s, "boot_index")
    /\ worker' = [worker EXCEPT ![s] = [@ EXCEPT !.pc = "next", !.op = "backfill",
                     !.todo = {r \in StaleBuffered : searchIndex[r].status = "none"}]]
    /\ UNCHANGED <<tableVars, forms, faults>>

BootIndex(s) ==
    /\ At(s, "boot_index")
    /\ worker' = [worker EXCEPT ![s] = [@ EXCEPT !.pc = "next", !.op = "backfill",
                                              !.todo = StaleBuffered]]
    /\ UNCHANGED <<tableVars, forms, faults>>

\* The clock, and the library's settings form.
World ==
    /\ \/ Tick
       \/ "settings" \in Offered /\ \E h \in BufferHours \ {bufferHours} : SetBufferHours(h)
    /\ UNCHANGED <<worker, forms, faults>>

-----------------------------------------------------------------------------

\* What a worker that is busy does next.
Step(w) ==
    \/ Next1(w) \/ Recheck(w) \/ Update(w)
    \/ RefuseReport(w) \/ StoreReport(w) \/ \E r \in Ids : ReplayReport(w, r)
    \/ SyncRead(w) \/ SyncIndex(w) \/ SyncEmbed(w)
    \/ Reread(w) \/ Relate(w) \/ Unrelate(w) \/ Audit(w) \/ Answer(w)
    \/ HardDelete(w)
    \/ BootAudit(w) \/ BootSelect(w) \/ BootIndex(w)

Next ==
    \/ \E s \in Servers : Report(s) \/ BatchPublish(s) \/ BatchDelete(s) \/ Crash(s)
    \/ \E s \in Servers, r \in Ids :
          \/ PublishMcp(s, r) \/ PatchMcp(s, r) \/ OpenEdit(s, r) \/ EditPortal(s, r)
          \/ Restore(s, r)
          \/ Approve(s, r) \/ Reject(s, r)
    \/ \E t \in Threads, r \in Ids : PublishPortal(t, r)
    \/ \E w \in Workers, r \in Ids : Delete(w, r)
    \/ \E w \in Workers : StartJob(w) \/ Step(w) \/ FailRequest(w)
    \/ World

Spec == Init /\ [][Next]_vars

(***************************************************************************)
(* A busy worker goes on: handlers do not wait for one another.  The       *)
(* publication job runs every 60 seconds and asyncio serves its ready      *)
(* tasks in turn, so the loop starts the job if it is free again and again *)
(* while a record is due.  Time passes.                                    *)
(***************************************************************************)
Fairness ==
    /\ \A w \in Workers : WF_vars(Step(w))
    /\ \A s \in Servers : SF_vars(StartJob(s))
    /\ WF_vars(Tick /\ UNCHANGED <<worker, forms, faults>>)

FairSpec == Spec /\ Fairness

-----------------------------------------------------------------------------
(* Properties.                                                             *)

Quiescent == \A w \in Workers : At(w, "idle")

\* A record that is gone has left a tombstone, wherever a process died:
\* hard_delete_record writes it before it deletes the row, and the lineage
\* warnings of records built on it depend on it.
DeletedLeavesTombstone == \A r \in born : ~Exists(r) => r \in tombstones

\* A record others could read never goes back into the write buffer, where its
\* author could rewrite it, as long as its row is there.
BufferedNeverPublic == \A r \in Ids : IsBuffered(r) => r \notin wentPublic

\* What the search tables offer to every reader has been active: a copy made of
\* a record while it was private is never labelled active, however late it
\* arrives.
IndexNeverAhead ==
    \A r \in Ids : "active" \in {searchIndex[r].status, embeddings[r].status}
                      => r \in everActive

\* The text of a record that has been published does not change again, although
\* the patch handler checks the status two transactions before it writes.
PublishedTextFrozen ==
    [][\A r \in wentPublic :
          records'[r].status # "none" => records'[r].version = records[r].version]_vars

\* Publication never brings a record back from the trash: only a restore does,
\* or an approval whose look at the status is out of date.
PublishingSparesTrash ==
    [][\A r \in Ids : records[r].status = "trashed" /\ records'[r].status = "active"
          => \E w \in Workers : Id(w) = r /\ worker[w].op \in {"restore", "approve"}]_vars

\* The job makes a record active only when its publish_at has passed.
JobPublishesOnlyDue ==
    [][\A w \in Workers : \A r \in Ids :
          (/\ At(w, "update") /\ worker[w].op \in Jobs
           /\ worker'[w] # worker[w] /\ Id(w) = r
           /\ IsBuffered(r) /\ records'[r].status = "active")
          => records[r].publishAt \in Nat /\ records[r].publishAt <= now]_vars

\* A caller told that its record was published has had it published.
AnswerIsTrue == \A w \in Workers : At(w, "answer") => Id(w) \in everActive

\* A draft becomes readable to others by a maintainer's approval only.
DraftNeedsReview == \A r \in awaitingReview : records[r].status # "active"

\* Once every request is over, both search tables say what the record says.
SearchTablesFollow ==
    Quiescent => \A r \in Ids :
        /\ searchIndex[r] = EntryOf(r)
        /\ Embeddings => embeddings[r] = IF records[r].status = "invalid" THEN NoEntry
                                         ELSE EntryOf(r)

\* Once every request is over, a published record is not indexed as private.
PublishedLeavesPrivateIndex ==
    Quiescent => \A r \in Ids : records[r].status = "active"
                                   => searchIndex[r].status # "buffered"

\* A buffered record that nobody is working on has a timer, so the job will find it.
BufferedHasTimer ==
    Quiescent => \A r \in Ids : IsBuffered(r) => records[r].publishAt \in Nat

\* An active record's sources are in record_relations.
PublishedIsLinked ==
    Quiescent => \A r \in Ids : records[r].status = "active" =>
                    \A x \in cites[r] : relations[<<r, x>>] # "absent"

\* Every record has an audit row once the processes that died are back.
EveryRecordAudited == Quiescent => \A r \in Ids : Exists(r) => audit[r] > 0

\* A start repairs the search rows of the records still in the buffer.  Of an id
\* that was stored again, the deletion of its first row may erase them late.
BufferedIndexRepaired == Quiescent => StaleBuffered \subseteq reborn

\* A start mends what a crash between the transactions of a request has left:
\* the missing audit row and the search row that is behind (main.py, lifespan),
\* the search row unless a report was stored under the id of a deleted record.
RestartRepairs == EveryRecordAudited /\ BufferedIndexRepaired

\* While a record is in the buffer and nobody works on it a timer runs, and the
\* job does not run ahead of it, though the library's hours change and patches
\* start the timer again.
TimerIsKept == []BufferedHasTimer /\ JobPublishesOnlyDue

-----------------------------------------------------------------------------
(* The inductive invariant the proofs use.                                 *)

\* The histories fit the table.
HistoryFits ==
    \A r \in Ids :
        /\ Exists(r) => r \in born
        /\ records[r].status = "active" => r \in everActive /\ r \in wentPublic
        /\ r \in everActive => r \in born
        /\ r \in wentPublic => Exists(r)
        /\ r \in awaitingReview => r \in born /\ ~IsBuffered(r)
        /\ r \in reborn => r \in born

\* What a worker holds on its way into the search tables may be shown.
HeldNeverAhead ==
    \A w \in Workers :
        worker[w].pc \in {"sync_index", "sync_embed"} /\ worker[w].entry.status = "active"
            => Id(w) \in everActive

\* A hard deletion that is past its first step has left the tombstone.
ErasesWithTombstone ==
    \A w \in Workers : worker[w].pc \in {"mark", "erase"} => Id(w) \in tombstones

IndInv ==
    /\ TypeOK
    /\ HistoryFits
    /\ BufferedNeverPublic
    /\ HeldNeverAhead
    /\ IndexNeverAhead
    /\ ErasesWithTombstone
    /\ DeletedLeavesTombstone
    /\ ~Protected => DraftNeedsReview

-----------------------------------------------------------------------------
(* The life of a record seen from outside.                                 *)

\* What the row of a record, or its absence, stands for.
PhaseOf(r) ==
    CASE records[r].status = "buffered" -> "private"
      [] records[r].status = "draft"    -> "review"
      [] records[r].status = "active"   -> "public"
      [] records[r].status = "invalid"  -> "withdrawn"
      [] records[r].status = "trashed"  -> "trash"
      [] OTHER -> IF r \in born THEN "gone" ELSE "unborn"

Promise == INSTANCE RecordPromise
             WITH Overlap <- Overlap,
                  life <- [r \in Ids |-> [phase |-> PhaseOf(r), text |-> records[r].version]]

\* Whatever its requests interleave with, and wherever they die, the server
\* keeps the promise: text changes in the buffer only, nothing comes back into
\* the buffer, and a deleted record stays deleted unless another process has its
\* report on the way, although the handlers of
\* patch, publish, restore and review write on the strength of a status they
\* read in an earlier transaction.
KeepsPromise == Promise!Spec

-----------------------------------------------------------------------------

\* A record does not stay in the write buffer forever.
BufferedLeaves == \A r \in Ids : IsBuffered(r) ~> ~IsBuffered(r)
=============================================================================
