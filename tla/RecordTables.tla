---------------------------- MODULE RecordTables ----------------------------
(***************************************************************************)
(* The tables a knowledge record lives in, and the single-transaction      *)
(* helpers of code/server/app/storage/db.py that write them.               *)
(*                                                                         *)
(* Every db.py helper opens its own connection and commits on exit, so     *)
(* each operator below is one atomic transaction.  A request is a sequence *)
(* of them (module RecordLifecycle); nothing holds the tables still in     *)
(* between.                                                                *)
(*                                                                         *)
(* Abstractions.  A record's text is a version number, bumped by each      *)
(* edit.  All records belong to one library.  Time is counted in hours.    *)
(*                                                                         *)
(* An operator whose comment says "Mistake" is no part of the model: it is *)
(* what the operator after it would be with a plausible bug, and shows     *)
(* that a property notices the bug.                                        *)
(***************************************************************************)
EXTENDS Naturals, FiniteSets

CONSTANTS
    Ids,        \* the record ids new_id("vk") may generate
    Never,      \* SQL NULL in publish_at and trashed_at
    Protected,  \* libraries.deletion_protection
    Retention,  \* libraries.retention_days, in the clock's unit
    Embeddings, \* TRUE unless MA3_DISABLE_EMBEDDINGS is set
    MaxTime     \* bound of the clock

ASSUME TablesAssumption ==
    /\ Never \notin Nat
    /\ Protected \in BOOLEAN
    /\ Retention \in Nat
    /\ Embeddings \in BOOLEAN
    /\ MaxTime \in Nat

VARIABLES
    records,        \* table records: [Ids -> Row], NoRow where there is no row
    cites,          \* payload.based_on_record_ids, fixed when the report is stored
    searchIndex,    \* table record_search_index
    embeddings,     \* table record_embeddings
    relations,      \* table record_relations, by <<source_id, target_id>>
    audit,          \* table write_audit_log: how many rows each record has
    tombstones,     \* table record_deletions
    bufferHours,    \* libraries.write_buffer_hours
    now,            \* wall clock
    born,           \* history: the ids generated so far
    reborn,         \* history: the ids stored again after their row was deleted
    everActive,     \* history: the ids that have had status active
    wentPublic,     \* history: the rows that have had it since they were inserted
    awaitingReview  \* history: reported as drafts and not approved since

rowVars    == <<records, cites, born, reborn, everActive, wentPublic, awaitingReview>>
lookupVars == <<searchIndex, embeddings>>
trailVars  == <<relations, audit, tombstones>>
worldVars  == <<bufferHours, now>>
tableVars  == <<rowVars, lookupVars, trailVars, worldVars>>

-----------------------------------------------------------------------------

Statuses == {"active", "buffered", "draft", "invalid", "trashed"}
Times    == Nat \cup {Never}

Row == [status : Statuses \cup {"none"}, publishAt : Times, trashedAt : Times,
        version : Nat]

NoRow == [status |-> "none", publishAt |-> Never, trashedAt |-> Never,
          version |-> 0]

\* What a row of the two search tables copies from the record.
Entry   == [status : Statuses \cup {"none"}, version : Nat]
NoEntry == [status |-> "none", version |-> 0]

Exists(r)     == records[r].status # "none"
IsBuffered(r) == records[r].status = "buffered"

\* get_record as sync_record_search_index uses it.
EntryOf(r) == [status |-> records[r].status, version |-> records[r].version]

\* Mistake: the clock is not looked at.
DueAlways == {r \in Ids : IsBuffered(r) /\ records[r].publishAt \in Nat}

\* Mistake: = for <=.
DueExactly == {r \in Ids : IsBuffered(r) /\ records[r].publishAt = now}

\* The rows publish_due_buffered_records selects.
Due == {r \in Ids : /\ IsBuffered(r)
                    /\ records[r].publishAt \in Nat
                    /\ records[r].publishAt <= now}

\* The rows backfill_buffered_search_indexes selects.
StaleBuffered ==
    {r \in Ids : /\ IsBuffered(r)
                 /\ \/ searchIndex[r].status # "buffered"
                    \/ Embeddings /\ embeddings[r].status # "buffered"}

\* The rows fetch_buffered_records_for_principal selects for the writer.
OwnBuffered == {r \in Ids : IsBuffered(r) /\ audit[r] > 0 /\ r \notin tombstones}

\* compute_publish_at, NULL when the library's buffer is switched off.
PublishTime == IF bufferHours = 0 THEN Never ELSE now + bufferHours

TablesInit ==
    /\ records = [r \in Ids |-> NoRow]
    /\ cites = [r \in Ids |-> {}]
    /\ searchIndex = [r \in Ids |-> NoEntry]
    /\ embeddings = [r \in Ids |-> NoEntry]
    /\ relations = [p \in Ids \X Ids |-> "absent"]
    /\ audit = [r \in Ids |-> 0]
    /\ tombstones = {}
    /\ now = 0
    /\ born = {}
    /\ reborn = {}
    /\ everActive = {}
    /\ wentPublic = {}
    /\ awaitingReview = {}

TablesTypeOK ==
    /\ records \in [Ids -> Row]
    /\ cites \in [Ids -> SUBSET Ids]
    /\ searchIndex \in [Ids -> Entry]
    /\ embeddings \in [Ids -> Entry]
    /\ relations \in [Ids \X Ids -> {"absent", "linked", "source_deleted"}]
    /\ audit \in [Ids -> Nat]
    /\ tombstones \subseteq Ids
    /\ bufferHours \in Nat
    /\ now \in Nat
    /\ born \subseteq Ids
    /\ reborn \subseteq Ids
    /\ everActive \subseteq Ids
    /\ wentPublic \subseteq Ids
    /\ awaitingReview \subseteq Ids

-----------------------------------------------------------------------------
(* Transactions on table records.                                          *)

\* The history that goes with any change of records.
RememberActive ==
    LET active == {r \in Ids : records'[r].status = "active"}
    IN  /\ everActive' = everActive \cup active
        /\ wentPublic' = active \cup {r \in wentPublic : records'[r].status # "none"}

\* An UPDATE of the existing rows of S, to what rows says.
UpdateRows(S, rows) ==
    /\ records' = [r \in Ids |-> IF r \in S /\ Exists(r) THEN rows[r] ELSE records[r]]
    /\ RememberActive
    /\ UNCHANGED <<cites, born, reborn, lookupVars, trailVars, worldVars>>

\* insert_record: the INSERT into records, of a fresh id, or of the id that the
\* report's idempotency key has claimed for a row that is not there any more.
InsertRecord(r, status, at, based_on) ==
    /\ ~Exists(r)
    /\ records' = [records EXCEPT ![r] = [status |-> status, publishAt |-> at,
                                          trashedAt |-> Never, version |-> 0]]
    /\ cites' = [cites EXCEPT ![r] = based_on]
    /\ born' = born \cup {r}
    /\ reborn' = IF r \in born THEN reborn \cup {r} ELSE reborn
    /\ RememberActive
    /\ awaitingReview' = IF status = "draft" THEN awaitingReview \cup {r}
                                             ELSE awaitingReview \ {r}
    /\ UNCHANGED <<lookupVars, trailVars, worldVars>>

\* Mistake: no WHERE status = 'buffered'.
PublishRowsUnguarded(S) ==
    /\ UpdateRows(S, [r \in Ids |-> [records[r] EXCEPT !.status = "active",
                                                    !.publishAt = Never]])
    /\ UNCHANGED awaitingReview

\* Mistake: publishes only what is due, whoever asks.
PublishRowsDue(S) ==
    /\ UpdateRows(S \cap Due,
                  [r \in Ids |-> [records[r] EXCEPT !.status = "active",
                                                !.publishAt = Never]])
    /\ UNCHANGED awaitingReview

\* publish_buffered_record(s_batch): WHERE status = 'buffered'.
PublishRows(S) ==
    /\ UpdateRows({r \in S : IsBuffered(r)},
                  [r \in Ids |-> [records[r] EXCEPT !.status = "active",
                                                !.publishAt = Never]])
    /\ UNCHANGED awaitingReview

\* Mistake: no WHERE status = 'buffered'.
EditRowUnguarded(r, at) ==
    /\ UpdateRows({r}, [x \in Ids |-> [records[x] EXCEPT !.version = @ + 1,
                                                     !.publishAt = at]])
    /\ UNCHANGED awaitingReview

\* update_buffered_record: WHERE status = 'buffered'.
EditRow(r, at) ==
    /\ UpdateRows({x \in {r} : IsBuffered(x)},
                  [x \in Ids |-> [records[x] EXCEPT !.version = @ + 1,
                                                !.publishAt = at]])
    /\ UNCHANGED awaitingReview

\* soft_delete_record: whatever the status.
TrashRow(r) ==
    /\ UpdateRows({r}, [x \in Ids |-> [records[x] EXCEPT !.status = "trashed",
                                                     !.trashedAt = now]])
    /\ UNCHANGED awaitingReview

\* restore_trashed_record: whatever the status.
RestoreRow(r) ==
    /\ UpdateRows({r}, [x \in Ids |-> [records[x] EXCEPT !.status = "active",
                                                     !.trashedAt = Never]])
    /\ UNCHANGED awaitingReview

\* set_record_status: whatever the status.
SetStatus(r, status) ==
    /\ UpdateRows({r}, [x \in Ids |-> [records[x] EXCEPT !.status = status]])
    /\ awaitingReview' = IF status = "active" THEN awaitingReview \ {r}
                                              ELSE awaitingReview

\* hard_delete_record: DELETE FROM records.
EraseRow(r) ==
    /\ records' = [records EXCEPT ![r] = NoRow]
    /\ RememberActive
    /\ UNCHANGED <<cites, born, reborn, awaitingReview, lookupVars, trailVars, worldVars>>

-----------------------------------------------------------------------------
(* Transactions on the search tables.                                      *)

\* Mistake: the status column gets its default.
UpsertIndexDefault(r, entry) ==
    /\ searchIndex' = [searchIndex EXCEPT ![r] = [entry EXCEPT !.status = "active"]]
    /\ UNCHANGED <<rowVars, embeddings, trailVars, worldVars>>

UpsertIndex(r, entry) ==
    /\ searchIndex' = [searchIndex EXCEPT ![r] = entry]
    /\ UNCHANGED <<rowVars, embeddings, trailVars, worldVars>>

\* Mistake: an invalid record keeps its embedding.
UpsertEmbeddingKept(r, entry) ==
    /\ embeddings' = [embeddings EXCEPT ![r] = IF Embeddings THEN entry ELSE @]
    /\ UNCHANGED <<rowVars, searchIndex, trailVars, worldVars>>

\* The tail of index_record: an invalid record loses its embedding.  The encoder
\* answers; where it fails, index_record leaves the old row.
UpsertEmbedding(r, entry) ==
    /\ embeddings' = [embeddings EXCEPT ![r] =
                         IF entry.status = "invalid" THEN NoEntry
                         ELSE IF Embeddings THEN entry ELSE @]
    /\ UNCHANGED <<rowVars, searchIndex, trailVars, worldVars>>

EraseEmbedding(r) ==
    /\ embeddings' = [embeddings EXCEPT ![r] = NoEntry]
    /\ UNCHANGED <<rowVars, searchIndex, trailVars, worldVars>>

EraseIndex(r) ==
    /\ searchIndex' = [searchIndex EXCEPT ![r] = NoEntry]
    /\ UNCHANGED <<rowVars, embeddings, trailVars, worldVars>>

-----------------------------------------------------------------------------
(* Transactions on relations, the audit log and the tombstones.            *)

\* insert_record_relations: ON CONFLICT DO NOTHING.
InsertRelations(r) ==
    /\ relations' = [p \in Ids \X Ids |->
                        IF p[1] = r /\ p[2] \in cites[r] /\ relations[p] = "absent"
                        THEN "linked" ELSE relations[p]]
    /\ UNCHANGED <<rowVars, lookupVars, audit, tombstones, worldVars>>

\* delete_record_relations_for_source.
EraseRelations(r) ==
    /\ relations' = [p \in Ids \X Ids |-> IF p[1] = r THEN "absent" ELSE relations[p]]
    /\ UNCHANGED <<rowVars, lookupVars, audit, tombstones, worldVars>>

\* mark_relations_source_deleted.
MarkRelations(r) ==
    /\ relations' = [p \in Ids \X Ids |->
                        IF r \in {p[1], p[2]} /\ relations[p] = "linked"
                        THEN "source_deleted" ELSE relations[p]]
    /\ UNCHANGED <<rowVars, lookupVars, audit, tombstones, worldVars>>

\* append_write_audit_log.
AppendAudit(r) ==
    /\ audit' = [audit EXCEPT ![r] = @ + 1]
    /\ UNCHANGED <<rowVars, lookupVars, relations, tombstones, worldVars>>

\* Mistake: active records only.
BackfillAuditActive ==
    /\ audit' = [r \in Ids |-> IF records[r].status = "active" /\ audit[r] = 0 THEN 1
                               ELSE audit[r]]
    /\ UNCHANGED <<rowVars, lookupVars, relations, tombstones, worldVars>>

\* backfill_write_audit_log: one row for each record that lacks one.
BackfillAudit ==
    /\ audit' = [r \in Ids |-> IF Exists(r) /\ audit[r] = 0 THEN 1 ELSE audit[r]]
    /\ UNCHANGED <<rowVars, lookupVars, relations, tombstones, worldVars>>

\* insert_record_deletion: ON CONFLICT DO NOTHING.
InsertTombstone(r) ==
    /\ tombstones' = tombstones \cup {r}
    /\ UNCHANGED <<rowVars, lookupVars, relations, audit, worldVars>>

-----------------------------------------------------------------------------

Tick ==
    /\ now < MaxTime
    /\ now' = now + 1
    /\ UNCHANGED <<rowVars, lookupVars, trailVars, bufferHours>>

\* set_library_write_buffer_hours.
SetBufferHours(hours) ==
    /\ bufferHours' = hours
    /\ UNCHANGED <<rowVars, lookupVars, trailVars, now>>
=============================================================================
