# ma3: models, model checks and proofs

TLA+ for the ma3 server of this repository: modules that model its code, TLC
configurations that check them on small instances, and theorems that TLAPS
proves for every value of the constants. All paths below are relative to the
repository; `db.py` is `code/server/app/storage/db.py`.

    tlc -workers 2 -config one_process.cfg MCRecordLifecycle.tla
    tlapm RecordLifecycleProofs.tla

`PROJECT.json` maps every definition to the lines it models, lists the runs, the
mutants that show each property can fail, the hazards and the theorems.

## 1. The system and its parts

ma3 stores what agents learned ("knowledge records") in libraries and lets other
agents search them. A FastAPI process serves MCP tools to agents and HTML pages
to people; PostgreSQL (SQLite in tests) keeps all state. Nothing in the process
locks a record: every helper of `db.py` opens its own connection and commits
when it returns, so a request is a sequence of transactions, and what other
requests do in between is the main source of difficulty.

Who runs what, and at the same time as whom:

* one event loop per process: MCP calls (`mcp_post` calls the synchronous tool
  code directly, so two of them never overlap), the portal's `async def`
  handlers (which interleave at `await request.form()`), the publication job
  (`main._buffer_publish_loop`, every 60 s) and the billing job;
* a thread pool: the portal's plain `def` handlers (publish, delete, and the
  pages that publish due records before they render) run beside the loop;
* two processes on one database while a blue-green deployment drains
  (`deploy/common/bluegreen_remote.sh`), and a process that dies and restarts.

| Component | State | Operations | Interacts with | Hard behaviour | What makes it correct | Model |
|---|---|---|---|---|---|---|
| Record life cycle (`mcp_tool_service`, `buffer_service`, `write_audit_service`, `routes_portal`, `db.py`) | `records`, `record_search_index`, `record_embeddings`, `record_relations`, `write_audit_log`, `record_deletions` | report, publish, patch, delete, restore, review, batches, publication job, startup | library settings, search | interleaved transactions, crashes and failures between them, timers | private text stays private, published text stays, the search tables follow, the buffer drains | `RecordTables`, `RecordLifecycle`, `RecordPromise`, `RecordLifecycleProofs` |
| Report idempotency, counters, cases (`db.insert_record`, `get_or_create_case`) | `report_idempotency`, `libraries.active_record_count`/`storage_bytes`, `cases` | a report repeated with its key | life cycle, quotas | two reports with one key in two processes | one record and one answer per key, counters equal to the rows | `IdempotentReport`, `IdempotentReportProofs` |
| Quotas (`storage_quota_service`, `library_quota_service`, `org_quota_service`, `entitlement_service`) | sums over the tables | check before an insert | reports, plans | check in one transaction, insert in another | a limit is exceeded by at most the reports in flight | `IdempotentReport`, partly |
| Organisations and invites (`org_service`, `org_invite_service`, `billing_service.admit_org_member`) | `org_members`, `org_invites`, `org_invite_redemptions` | add, change role, remove; create, redeem, revoke an invite | seats of the plan | check then act; one of the writers takes the seat lock | an admission fits the plan, an invite's uses are bounded | `OrgSeats`, `OrgSeatsProofs`, partly |
| Billing accounts and Stripe (`billing_service`, `stripe_billing_service`, `onboarding_service`) | `billing_accounts`, `billing_events`, the label in `organizations` | webhook events, administrator's plan changes, backfill | grace, quotas | duplicated, reordered, failed events | the plan paid for is the plan in force | `BillingAccount`, `BillingAccountProofs` |
| Grace period (`billing_grace_service`, `billing_jobs`) | `billing_grace_notifications`, reader grants | daily job | billing events | when the period starts, a job that aborts | readers lose grants after the period only, and do lose them | `BillingAccount`, `BillingAccountProofs` |
| Read-unit usage (`usage_service`, `rate_limit_service`) | `usage_monthly`, `usage_events`, a list in memory | check, read, charge, flush | plans, the account a key pays for | flush that clears first, process that dies, two processes at the limit | the total agrees with the events | `AgentAccess` |
| MCP OAuth (`mcp_oauth_as_service`, `mcp_oauth_token_service`) | authorisation codes, tokens | authorise, exchange, expire | rights of the user | racing exchanges | a code is worth one token | `AgentAccess`, partly |
| API keys and authorisation (`api_key_service`, `entitlement_service`, `core/security.py`) | `api_keys`, `api_key_grants`, `library_grants` | mint, edit, delete, look-up; the checks of tools and pages | every request | rights looked up by several transactions while they change; overlapping edits | a right held throughout is found, one that was never held is not | `AgentAccess`, partly |
| Local accounts and setup (`local_auth_service`, `principal_service`, `setup_service`, `bootstrap_selfhost`) | `local_accounts`, `principals`, `instance_settings`, the key file | register, promote, demote, open and close registration, finish, rotate the key | invites, onboarding | racing first registrations, a registration broken off and repeated | there is an administrator, an account is complete, the key file opens the server | `LocalAccounts`, `LocalAccountsProofs` |
| Search and ranking (`storage/search.py`, `storage/ranking.py`, `mcp_tool_service._context_payload`) | reads the search tables, votes, relations | search, open a record or a case | life cycle | ten reads in ten transactions | what is answered may be read, nothing sound is lost, what is wrong sinks | `RecordSearch`, `RecordSearchProofs` |
| Cases and feedback (`feedback_service`, `get_or_create_case`) | `cases`, `record_feedback` | find or create; vote | ranking | two creations of a title; votes during a search | | `IdempotentReport`, `RecordSearch` |
| Client sync (`code/client/lib/ma3_sync_core.py`, `sync_ma3_client.py`, `mcp_server_info`) | the files and the state file of a client directory | sync, self-update, bootstrap | manifest of the server | interrupted, overlapping, or the release changes half-way | the state file speaks of one release, and the client gets there | `ClientSync`, `ClientSyncProofs` |
| Blue-green deployment (`bluegreen_remote.sh`) | ports, proxy upstream, state file | cutover, roll-back | processes | two processes on one database, script stops half-way | a live process behind the proxy | what it means for the server only |
| MCP transport and schemas | none | parse, dispatch, attach the server block | all tools | decides who interleaves with whom | | `AgentAccess.ToolCall`, `ClientSync.Asks` |
| Configuration, administration | settings read at start | administrator's changes of a plan, ranking settings | billing, search | | | in `BillingAccount`, `RecordSearch` |
| Pages, theme, translations; migration and maintenance scripts; evaluation harness; docs | none of their own | | | no protocol of their own | | not modelled |

## 2. What is modelled

### RecordTables

The tables a record lives in, as VARIABLES, and one operator per transaction of
`db.py` that writes them. `records` keeps the columns that control depends on
(status, `publish_at`, `trashed_at`); the text is a version number that each edit
bumps. A row of the two search tables is the status and the version copied from
the record. The `WHERE status = 'buffered'` of `publish_buffered_record` and
`update_buffered_record`, and its absence from `soft_delete_record`,
`restore_trashed_record` and `set_record_status`, are the heart of it.
`InsertRecord` stores a fresh id, or the id that the report's key has claimed for a row
that has been deleted (db.py:1266). Five history variables: `everActive`,
`awaitingReview`, `reborn` (the ids stored again), `wentPublic` (the rows that have
been active since they were inserted) and `born` are read by
properties and by no guard but those of the ids that `ma3_report` may store or repeat.

Abstractions: one library; hours as the unit of time; titles, evidence and vectors are not
there; `based_on_record_ids` is a set of ids fixed at the report; `new_id` never
generates an id twice; the encoder always answers (where it fails, embedding_service.py:50,
the old vector stays). `deletion_protection` is a constant because nothing in the
application calls its setter (db.py:3290); `write_buffer_hours` is a variable,
because the settings form and the libraries API change it at any time.

### RecordLifecycle

Workers (the event loops of `Servers`, and `Threads`, each with a `Host`) run one
request at a time. `worker[w]` holds the next transaction (`pc`), the kind of
request (`op`), the record, the list still to process, the copy read for the
index, the `publish_at` computed at the start, and in a report the ids stored before it
looked for its key (`known`): the local variables of the handler. The first action of a request makes the checks the handler makes before
it changes anything; the rest are shared steps, in the order of the code:

| Request | Steps |
|---|---|
| `ma3_report` | `Report`: due records are published first; `RefuseReport`, `ReplayReport` (a repeated idempotency key) or `StoreReport`; index, embedding, relations if active, audit row. `Storable` are the ids it may store: a fresh one, or one that another process stored for the same key after the look-up and that has been deleted since |
| `ma3_publish_record`, portal publish | `Recheck`, `Update`, `SyncRead`, `SyncIndex`, `SyncEmbed`, `Reread` (MCP only), `Relate`, `Answer` (MCP only) |
| portal batch | one `Update` for all, then `SyncRead` .. `Relate` for each; or `Delete`'s steps for each |
| `ma3_patch_record`, portal edit | `Recheck`, `Update`, sync, `Reread`; with the buffer off the same worker `Become`s a publication. The portal's edit first awaits its form (`OpenEdit`, `EditPortal`; `forms`) |
| delete | with protection `Update` and sync; without, the five transactions of `HardDelete` |
| restore | `Update` and sync, or `HardDelete` when retention is over |
| review | `Update` and sync, then relations written (approve) or erased (reject) |
| publication job | `StartJob` selects, `Next1` takes each record through `Update`, sync, `Reread`, `Relate` |
| startup | `BootAudit`, `BootSelect` and the job, `BootIndex` and the backfill |

`FailRequest` is an exception between two transactions; `Crash` ends a process,
its threads and its waiting forms, and starts it again.

What is merged or left out. Two reads are one step only where no other worker
can make a table show the difference (the checks on `based_on` records and the
INSERT of a report). A report stored again cites what it cited; its status is chosen anew,
which allows more than a repetition of one payload does. Permission checks are assumed passed. The job's `LIMIT 500`
and its order are left out: it takes any due record. `Reported` says that an
author names a record only once its report has answered. Bounds, all in guards:
`MaxTime` (clock), `MaxEdits` (edits of a record), `MaxFaults`, the set `Ids`,
and `WithinHorizon` (no timer is set beyond the end of the clock, or it would
never fire).

`_publish_record_with_relations` and `_delete_owned_record` (routes_portal.py:182)
have no caller and are not modelled.

### MCRecordLifecycle

Names the sets of requests the runs offer, the host of the threads, and the
symmetry of ids (sound: no id is named by a definition, and no run with symmetry
checks liveness).

### OrgSeats

The members of one team organisation and the invites that reserve seats.
`role` stands for the active rows of `org_members` ("none": no row, or a row
marked removed; no handler here tells the two apart), `invites` for
`org_invites`, `redemptions` for `org_invite_redemptions`, `account` for the plan
and the state of `billing_accounts`. `lock` is the advisory lock of
`admit_org_member`. The handlers are plain `def` functions on pool threads;
`task[w]` holds what worker `w` does next and its local variables: `bound` is the
number of seats it has read, or the uses it is about to grant, and `time` the
clock it read when it began, which it goes on using after it has waited.

| Request | Steps |
|---|---|
| `add_org_member` | `AddMember` (`assert_org_admin`), `TakeLock` and the first read, `ReadUsage`, `CommitAdmission` |
| `redeem_invite`, and `register_local_user` which calls it | `RedeemInvite`; a newcomer goes through `TakeLock`, `ReadInvite`, `ReadUsage`, `CommitAdmission`; a member only through `Consume`, which takes no lock |
| `update_org_member`, `remove_org_member` | `UpdateMember` or `RemoveMember`, `CountAdmins` unless it promotes, `SetRole` or `MarkRemoved` |
| `create_org_invite` | `CreateInvite` reads the seats left, `InsertInvite` writes |
| `revoke_org_invite` | `RevokeInvite`, `WriteRevocation` |

`Fail` is an exception or the death of a process: the open transaction rolls back
and its lock is free. `ChangePlan` sets the billing account to any value of
`Accounts`, for whatever event did it; nobody waits for the seat lock to do so.
A place is one use that a valid invite has left; `Used` counts members and places,
as `seat_usage` does (its two counts are one step). Under READ COMMITTED each
statement of an admission sees what was committed before it; that is why its reads are
steps of their own. Its writes are one step: nobody reads them before the commit, and
`Fail` covers the rest. Aliases are left out, and with them their
conflicts; a cancelled account is not past due. Bounds: `MaxTime` for the clock,
`MaxUses` for an invite, the sets of ids. There is no liveness here, so no fairness.

### RecordPromise

The abstract life of a record: `life[r]` is a phase (unborn, private, review, public,
withdrawn, trash, gone) and a version of the text. There are no requests, processes,
timers or search tables. `RecordLifecycle` implements it (`KeepsPromise ==
Promise!Spec`) under the refinement mapping at the end of that module: the
status of the row gives the phase, `born` tells a record that is gone from one that
never was. Its constant `Overlap` says whether two processes serve the library: only then may
a gone record be stored again by its own report (`Returned`). Steps of the search tables, of the audit and of the workers map
to stuttering.

### IdempotentReport

`insert_record`, statement by statement. Two processes (a process runs one report at a
time) and PostgreSQL's READ COMMITTED: a statement sees what was committed when it
starts, so what a transaction has written stands in `task[s]` until it commits.

| Code | Steps |
|---|---|
| `ma3_report` before the transaction | `Report`, `CheckQuota` (`assert_personal_library_write_allowed`), `FindCase`, `NewCase` (`get_or_create_case`), `ReadKey` (`get_idempotent_report`) |
| `insert_record` | `Lookup` (the key again), `Insert`, `Lock` (the first UPDATE of the library's row, which a second report waits for), `Recount`, then `Commit` without a key or `Claim` (the unique key of `report_idempotency`; the loser deletes its record) |
| the answer | `Answer` |
| beside it | `Remove` (a deletion for good), `StartupCount` and `StartupWrite` (`initialize_database` counts in one statement that may wait for a report before it writes), `Fail` (roll-back) |

`drifted` is the history of what the counters may miss: `hard_delete_record`, a
rejection, and a report that loses its key do not correct them. Abstractions: all reports are one
principal's, ask for one case title, and a payload is its hash, size and library.
Bound: `MaxReports`.

### BillingAccount

One personal organisation, its account, its subscriptions at Stripe. A worker is an
event loop (webhooks, the job) or a pool thread (the administrator's API);
`task[w].todo` lists the transactions it has still to make, and for the job the
statements of its one transaction.

| Code | Steps |
|---|---|
| Stripe (external) | `Checkout`, `PaymentFails`, `PaymentMade`, `Cancel` make events; `Deliver` hands any of them to any worker, again and again |
| `handle_webhook_event` | `Record` (the event row, with the unique index), then a transaction each for `Find` (the account of a subscription), `SetPlan`, `SetLink` |
| administrator | `PatchAccount`; `SetUserPaid`, which leaves `plan:pro` in the organisation's column |
| `ensure_personal_org`, `run_billing_backfill` | `OpenPage`, `Boot`, `Choose`, `Ensure`, `SetLabel` |
| `run_past_due_grace_job` | `StartJob`, `SelectUnpaid`, `ReadStart`, `InsertNotices`, `Revoke`, `Commit` |
| beside it | `Share` (a reader is granted a library), `Tick`, `Fail` |

Days are counted from the last change and stop counting a day after the period's end.
A notice that is there already aborts the whole transaction on PostgreSQL
(billing_grace_service.py:33): the exception is caught, the transaction is not usable
any more. `others` stands for another account's notice in that transaction.
`Scenes` bounds a behaviour: either three events of two subscriptions and no calendar, or two events
of one subscription, the job twice a day, and the calendar; either with one trouble (an
administrator's change or a failure).

### LocalAccounts

A server with local accounts, without single sign-on. `task[w].todo` lists the
transactions (`with connect()`) a request has still to make; what the earlier ones
wrote stays when it fails.

| Code | Steps |
|---|---|
| `register_local_user`, form and API | `Register`, `CountAccounts`, `ReadSetting`, `Preview` (the invite), `CheckTaken`, `CheckFirst`, then the display name (`Upsert`, `CheckLocked`, `FindTitle`, `Rename`), `EnsureLibrary`, `StoreLibrary`, `Insert`, the personal organisation (`FindOrg`, `CreateOrg`, `JoinOrg`), `Redeem` |
| a signed-in user's visit | `Visit`: the organisation is completed if it is not |
| `api_patch_local_user` | `Patch`, `ReadRow`, `CountAdmins`, `SetAdmin` |
| set-up | `OpenRegistration`, `CloseRegistration`, `KeepOpen`, `KeepOpenOnPage`, `Finish` and their transactions |
| `initialize_database`, `ensure_bootstrap_key` | `LockTitles`; `FindFile`, `FindRow`, `DeleteRow`, `InsertRow`, `OpenFile`, `FillFile`, of the server's start and of the script `--force` (`Rotate`) |
| beside it | `MintKey`, `RevokeKeys`, `Crash`, `ScriptDies` |

A title is a display name folded to one case; `Odd` are those
`normalize_display_name` refuses, and the unique index of `principals` (db.py:330)
refuses one that another user has. `crossed` names the checks that another request has
overtaken, `broken` says that the last writer of the key file died before it had filled it; a property names what it excepts. One single-use invite stands for
those of `OrgSeats`. Bounds: `MaxRequests` (a rotation is worth two), `MaxKeys`, `MaxCrashes`.

### AgentAccess

One user: his seat in a team, his role on each of its libraries, his API keys with their grants,
the codes and tokens of his agents, and the read units they use.
Agents' requests (`mcp_post`, `oauth_token`) and the flush run on the event
loop of a server, portal handlers on a thread; two servers overlap during a deployment.

| Code | Steps |
|---|---|
| `_handle_rpc`, credentials | `ToolCall`, `FindCredential`, `FindGrants` (a key), or the questions of `AskAll` one by one (a token): `Answer`, `ListGranted`, `ListOrgs` |
| a metered read | `FindAccount`, `CheckQuota`, `Read` or `ReadNothing`, `Meter`, `Buffer`; `Flush`, `StoreEvents` |
| portal pages and API | `AskListing`, `LibraryPage`, `LibraryApi`, `StoragePage`, `SettingsPage`, `GrantsPage`, `RecordsPage`, `RecordPage`, `Serve` |
| keys | `CreateKey`, `CheckMember`, `CountKeys`, `InsertKey`; `EditKey`, `PatchKey`, `FindOwned`, `DeleteRows`, `ReplaceGrants`; `DeleteKey`, `DeleteOtherKey`, `DropKey` |
| OAuth | `Authorize`, `Exchange`, `FindCode`, `ConsumeCode`, `MintToken`, `ExpireToken` |
| beside it | `SetSeat`, `SetGrant`, `NextMonth`, `Break`, `Die` |

`ever[w]` and `lasting[w]` are the rights held at some and at every moment since the
request of `w` began. `DeleteRows` and `ReplaceGrants` are the two statements of one
transaction: `api_key_grants` has no foreign key, so nothing but row locks orders two
replacements, and a DELETE that waited does not see the rows inserted meanwhile. A library's
visibility is fixed; the quota is enforced (`read_quota_enforce`, off by default); the
rate limiter is a free refusal. Bounds: `MaxEvents`, `MaxMonths`, `MaxTroubles`.

### RecordSearch

One search, one writer and one voter interleave, each read of the search being an action
(`SearchBegins` .. `SearchEnds`): the candidates by full text with its fallback
(`ReadFulltext`, `FulltextFails`), by vectors (`ReadNeighbours`, `ListNewest`, `ScanVectors`) or
by words (`FindCandidates`, `ScoreCandidates`), the context and the gate
(`BoostAndGate`), supersession, votes, rows and ranking (`ReadSuperseded`,
`ReadVotes`, `FetchAndRank`), grouping, warnings and relations (`AttachFeedback`,
`CheckSource`, `ReadRelations`). `Locate`, `OpenCase` and `OpenPage` open what was
answered. The writer publishes, edits, trashes, restores and erases; its copies into
the search tables are steps of their own, and it may fail between them.

Scores are counted in ten-thousandths, rounded down; how well a text matches
the query is a constant for each kind of search. `ReadNeighbours` may miss any record, the scan of the index
being approximate; `search.missed` notes what the reads did not give the search. The Wilson bounds are compared
exactly, as squares (`UpperAtMost`, `LowerAtLeast`). `touched` and `lagged` are the
records changed since the search began and those whose search tables are behind.
Bounds: `MaxChanges`, `MaxFaults`.

### ClientSync

A release is a manifest and its files; a deployment replaces it between any two
requests of a run. The run of an agent is a cycle of `FetchManifest`, `LoadState`,
then for each file `SkipTool` or `Fetch`, `Open`, `Fill`, and at the end `OpenState`,
`SaveState`; files are written in place, so a run that is cut off (`CutOff`) leaves
one empty. `Call` is a call of the MCP server and its answer, which asks for a sync
(`Asks`); `Invoke` is a run by hand, with `--force` or as `self-update`;
`Bootstrap` is the documented `curl` after which the tool works again; nothing asks for it
when a file is torn, so it has no fairness. `lapses` is the
history of what the tool does not see. Files are their digests. Bounds: `Scenes`.

## 3. What the runs check

Each run takes between 25 s and 3.5 min with two workers. `CHECK_DEADLOCK FALSE` stands
where the instance really may rest, because the clock, the supply of ids or the number
of requests ends: in the core's runs, `report_once`, `first_run` and `access`. In the
others something can always happen.

| Run | Instance | Shows |
|---|---|---|
| `one_process` (4.1 M states) | 1 loop, 1 thread, 1 record, trash, buffer 0 or 1 h, clock to 2, 1 edit, 1 failed request; every request | `KeepsPromise`: the server implements `RecordPromise`; `IndexNeverAhead`: a late copy never labels a private record active; `PublishedTextFrozen`; `PublishingSparesTrash`: of all writers with a stale view only a review or a restore takes a record from the trash |
| `two_processes` (5.3 M states) | 2 loops, 1 record, no trash, 1 crash; every request but the portal's form | `DeletedLeavesTombstone` wherever the crash falls; `RestartRepairs`: the next start writes the audit row and mends the search row that the crash left out, the latter but for an id that was stored again; `IndInv`, the invariant of the proofs with its type invariant and `DraftNeedsReview` |
| `event_loop` (4.8 M states) | 1 loop, 2 records, trash, no fault; every request | `SearchTablesFollow`: when the loop rests both search tables equal the records; `TimerIsKept`: a buffered record has a timer, and the job does not run ahead of it; `AnswerIsTrue` |
| `linked` (5.4 M states) | 1 loop, 1 thread, 2 records, no trash | `PublishedIsLinked`: an active record's sources are in `record_relations` |
| `drains` (624 k states) | 1 loop, 1 thread, 1 record, buffer 1 or 2 h, 1 edit, 1 crash; fairness | `BufferedLeaves`: every buffered record leaves the buffer |
| `org_seats` (6.1 M states) | 3 people, 1 invite of up to 2 uses, 2 workers, plans of 3 and 2 seats, clock to 1, symmetry of workers and of the two who did not found | `AdmissionFitsPlan`; `OverusedOnceAtMost`; `RedemptionsPaid` |
| `report_once` (1.1 M states) | 2 processes, 3 ids, 1 key, 3 payloads (one twice as large), 2 libraries with room for 2, 3 calls, a removal, failures, one start | `OneRecordPerKey`; `AnswersAgree`: everyone who repeats a report is told the same record; `CounterFollows`: the counter equals the rows when no report holds the library's row, unless it has drifted; `OvershootBounded`: the quota and the one case per title are passed by what the other process has on the way at most |
| `billing` (1.4 M states) | 2 workers; 3 events of 2 subscriptions; or 2 events of one, a grace period of 2 days with a notice on each, the job twice a day; 1 trouble; fairness | `AppliedOnce`; `FollowsStripe`: with events in Stripe's order the account is what Stripe sold; `RevokedAfterGrace`; `UnpaidLosesReaders`: in the end, unless the label has replaced the account |
| `first_run` (3.1 M states) | 2 workers, 2 usernames, 2 titles (one odd), 4 requests or 2 and a rotation of the server key, 2 keys, 1 crash of the server or the script | `AdminRemains`; `TitleStands`; `AccountIsReady`: with library, organisation and membership; `SetupStands`; `KeyFileOpens`: the file opens the server unless its last writer died in the middle |
| `access` (863 k states) | 2 servers, 1 thread, an org-wide and a private library, 3 keys with a limit of 2, 2 codes, quota of 1, 2 months, 3 requests or changes, 1 trouble | `FindsWhatIsHeld`: what a look-up finds lies between what was held throughout and what was held at some moment; `KeysAsAsked`; `OneTokenPerCode`; `UsageAddsUp` |
| `search` (3.4 M states) | 3 records (one cited, one buffered, one superseding the first from a team's library, clearly voted down), the first two of one case, 3 texts, 3 callers, 3 modes (full text hiding what is wrong or not, hybrid hiding it, vectors alone not), production thresholds, pool of 2, scan of 2, 1 case of 2 hits, 2 changes or votes, 1 failure | `ShownIsReadable`; `SoundHitsAnswered`: what the reads gave the search and is sound is lost only to what ranks before it; `RelevanceGapStands`: votes never turn a gap of epsilon; `DoubtsShow`: what is wrong sinks, and sources that do not stand are warned of; `AnswerOpens`: tool and page agree with the search |
| `client_sync` (586 k states) | 3 releases (the second and third differ in a version only); one agent, 2 deployments, 2 cuts, `--force`; or two agents, 1 deployment, 1 cut; fairness | `RunsBringRelease`: a finished run has brought one release; `StaleIsSeen`: a file that is not what the state file says is fetched by the next run; `AskedIsAnswered`: a client that is asked to sync stops being asked, unless its tool stays torn |

Why the bounds are enough. *Core*: every guard and every UPDATE concerns one record, but
for the relations and the job's list; so one record and two workers reach every
interleaving of a pair of requests, and two records are used where a list or a
relation matters. A clock of 2 with buffers of 0 and 1 lets a timer be reset, run
out, and be due while a request runs. One fault falls between any two
transactions of any request. *Seats*: three people and plans of three and
two seats make the last seat contested by two admissions and let a plan shrink
below its members; an invite of two uses can be half used, used up by a member while
a newcomer redeems it, and used once more than it allows. *Reports*: a third call
repeats the key after a race of two has been decided or its record removed, and the third id is what the loser of a race
generated. *Billing*: three events make a change, its reversal and one that overtakes;
a grace period of two days has a first, a last and an ordinary day, and a day after. *First run*: two
requests race, the other two came before or follow. *Access*: an answer depends on one
library at a time, and the two differ in visibility; two keys at the limit and a third make
the limit contested; three events are a request, a change in its middle and a second request.
*Search*: three records are enough for one before, one behind and one left out at each cut
(pool, scan, limit, group), and the scores are chosen on both sides of each
threshold. *Client*: a run that reads the manifest of one release, files of the next
and is overtaken by a third. The theorems of section 5 hold for all values.

Some properties state a promise in two parts (`RestartRepairs`, `TimerIsKept`,
`OvershootBounded`, `TitleStands`, `SetupStands`, `FindsWhatIsHeld`,
`KeysAsAsked`, `UsageAddsUp`, `SoundHitsAnswered`, `DoubtsShow`, `RunsBringRelease`); each part is a
definition of its own beside it. Properties with exceptions name the overtaken check
they except (`crossed`, `drifted`, `lagged`, `lapses`): these are the races of section 4.

Every property has a mutant in `PROJECT.json`: a plausible bug in one definition
(a dropped `WHERE`, a default column, a step out of order) under which TLC finds
the property violated. The mutated forms stand in the modules, marked *Mistake*; the mutant
of a property of several parts breaks one of them.
But for the one in `IndInv`, the type invariants are in no run; they hold in each run's instance (add `INVARIANT TypeOK`); all
are proved.

### Fairness

Three specifications state fairness; no request, edit, event of Stripe's or fault is fair in any.

`RecordLifecycle.Fairness`. A busy worker goes on (`WF` on `Step`): handlers wait
for no one another. The loop starts the publication job again and again while a
record is due (`SF` on `StartJob`): the loop sleeps 60 seconds, after which its
task is in the ready queue, and asyncio serves that queue in turn, so the job is
not passed over for ever by MCP calls; it is not continuously enabled, hence `SF`.
Time passes (`WF` on the clock alone).

`BillingAccount.Fairness`. A request goes on (`WF` on `Step`); the job is started
again and again (`SF`, since webhooks keep the loop busy: `billing_maintenance_loop`
sleeps and returns to the queue as above); days go by (`WF` on `Tick`).

`ClientSync.Fairness`. A run goes on unless it is cut off (`WF` on `Step`; the number
of cuts is bounded, so an agent cannot be cut off for ever); an agent calls the server again and again, whatever it does in
between, and syncs when the answer's flags ask for it (`SF` on `Call`): the agent's part, which
`code/client/agent-onboarding.md:89` and :123 ask of it. Without an agent that calls, nothing
syncs. There is no fairness on `Bootstrap`: of a torn tool nobody is told.

## 4. Where code and documents differ

The modules follow the code; where a document, comment or docstring promises more, the
properties of section 3 are stated as far as the code keeps them. What it does not keep
is listed here. Where a definition or a configuration is named, TLC shows the behaviour
when it is added to the run's configuration.

Records:

* `restore_trashed_record` (db.py:4339) sets `active` whatever
  the record was, so delete and restore publish a draft without the review of
  `docs/02-architecture/data-model.md:36` (`DraftNeedsReview` with `Protected = TRUE`,
  `Offered <- DraftThroughTrash`). A buffered record is published that
  way too, and without its relations, which is why `linked` offers no restore.
* `publish_buffered_record` commits its UPDATE before it writes the
  index (db.py:4015). When that fails, the record is no longer due, so nothing is
  retried "on the next tick" (`docs/03-backend/background-jobs.md:18`), and the
  active record stays indexed as private (`PublishedLeavesPrivateIndex`, `Offered <- JobAndFailure`).
* `JobPublishesOnlyDue` fails with a thread beside the loop (report,
  ma3_patch_record, job): a job that selected a record before a patch publishes
  it ahead of the timer the patch set (db.py:4012 checks the status only;
  `docs/03-backend/write-buffer.md:25`).
* `PublishedLeavesPrivateIndex` fails without any fault (report, patch, portal
  publish on a thread): two `sync_record_search_index` interleave and the older
  copy is written last (`docs/03-backend/write-buffer.md:114`).
* `AnswerIsTrue` fails with two workers (report, ma3_publish_record, delete): the
  answer "active" is not taken from the UPDATE (buffer_service.py:94).
* `BufferedHasTimer` fails with a crash and buffers of 0 and 1 h (report,
  ma3_patch_record, settings): between the two updates of a patch in a library
  without a buffer the record is buffered with `publish_at` NULL, which no job
  selects (buffer_service.py:142). `drains` therefore offers buffers of 1 and 2 h.
* `PublishedIsLinked` fails when ma3_patch_record is offered and the buffer may
  be 0: that path alone inserts no relations (buffer_service.py:142).
* An approval that looked at a draft before its author trashed it makes the
  trashed record active (`set_record_status`, db.py:1532);
  `PublishingSparesTrash` names that writer as its exception.

Seats and invites:

* `add_org_member` overwrites the role of someone who is a member
  already (org_service.py:165 calls no `_assert_not_last_admin` before it), so the last
  administrator can become a member, against the protection that
  `docs/09-engineering/design-archive/24-org-library-management-decisions.md:21`
  promises (`AdminRemains` in `org_seats`, one worker is enough). With two workers,
  two administrators also demote each other, each having counted two.
* The seats are counted in a statement after the one that read
  the invite (billing_service.py:225), and `Used <= Included` takes for granted that the
  redemption's own place is among those counted. If it has been revoked, has
  expired or was used up meanwhile, the redemption goes one seat beyond, against
  "Atomically check capacity" (billing_service.py:204; `AdmissionIsAtomic` in `org_seats`).
* An invite can be used `max_uses + 1` times: the UPDATE of `admit_org_member` has no
  condition on the uses (billing_service.py:228), and a member redeems without
  the lock. `OverusedOnceAtMost` states the bound that does hold.
* Who redeems, is removed, and redeems the same invite again consumes a second
  use, although org_invite_service.py:208 says a redemption is counted once;
  `RedemptionsPaid` is therefore an inequality.

Reports, counters and quotas:

* Deletions, rejections and a report that loses its key do not correct the library's
  counters, although `docs/09-engineering/design-archive/27-org-billing-p1-acceptance-fable.md:44`
  has them maintained "on insert/status change"; the next report or start counts anew. A start whose UPDATE has waited for a report
  writes the count it made before (db.py:498). Nothing in the server reads the counters.
* A report whose key names a deleted record stores itself under the deleted record's id
  (db.py:1271-1275). It takes two processes: A has looked for the key in vain, B stores the same report,
  publishes and deletes it, A stores it again. Then a public id is back in the write buffer, in
  a new row with the reported text; the last step of B's deletion may erase A's search
  rows, which only the next start writes again (`reborn` in `BufferedIndexRepaired`); and the answer of a ma3_publish_record of the first row can be
  untrue of the second (`~Overlap` in `AnswersTrue`).
* A restore from the trash makes no quota check.

Billing:

* Stripe's events are applied in the order of their arrival (stripe_billing_service.py:206), against
  `docs/09-engineering/design-archive/27-org-billing-implementation-fable.md:508`: a `failed` that
  arrives after the later `paid` leaves a paying account past due
  (`FollowsStripeInAnyOrder` in `billing`).
* The event row commits before its handler runs (stripe_billing_service.py:260), so the event of a
  handler that failed is lost: Stripe's repetition is answered as a duplicate.
* Every change of the account starts the grace period again, one that another
  `payment_failed` or an administrator makes as well; :389 of the same document counts from the first.
* The second run of the job on one day revokes nothing if there is a notice to
  repeat: its transaction is aborted (billing_grace_service.py:33).
* `set_user_paid` leaves the label `plan:pro` (onboarding_service.py:58). After Stripe has cancelled the
  subscription, the backfill of the next start makes it `pro` again; and while the label stands, no
  reader of the organisation is revoked.
* Of two paid checkouts the link of the second replaces that of the first, whose events then find no account.

Accounts and set-up:

* On a new server two overlapping first registrations may both become administrators; two
  overlapping demotions leave none.
* A display name another user has is refused by the index (db.py:333) in
  `upsert_user_principal`, before the "Name collision" fallback of local_auth_service.py:121 is
  reached; the request fails with an unhandled error. The fallback serves only names that `normalize_display_name` refuses.
* A principal left behind by a failed registration keeps its title, which the next start locks (db.py:322).
* A second registration of a username that was past its look at the lock renames
  the first one's account, although principal_service.py:62 calls the name immutable.
* An organisation whose creation was interrupted before its owner joined stays without one
  (onboarding_service.py:75-82).
* A rotation of the server key (`--force`) that dies after it has deleted the row and before its file is written leaves a file that
  opens nothing. So does a start that dies inside the write of its first file (bootstrap_selfhost.py:98, in place): the
  empty file counts as one at every later start (:38). No start repairs either, only a rotation (`broken` in `KeyFileOpens`).
* One single-use invite can let several accounts be created while registration is closed; one of them joins.
* "Keep open" is accepted while registration is closed, and counts when it opens.

Keys, rights and usage:

* Two overlapping replacements of a key's grants (db.py:3523) leave the union of both, or one fails on
  the primary key; rows of a deleted key can remain. No key is found without its row, so they open nothing.
* A key that pays from the team's account keeps doing so after its owner's seat is removed.
* A crash between `consume_mcp_oauth_auth_code` and the token loses the code.
* Usage events taken out of memory and not stored are lost (usage_service.py:65); the monthly
  counter is right.

Search:

* What is hidden as wrong, or cannot be read, takes places of the pool (a multiple of the limit),
  so a long list of such records can push sound ones out of it.
* The vector search is a scan of an HNSW index with `ef_search` 80, and library, status and author are
  tested on what it came upon only (db.py:1197-1212, the index at db.py:827-834): a sound, readable hit can be missed
  though the pool has room, and the exact scan of the vectors runs only when the query fails (search.py:206).
  `SoundHitsAnswered` excepts, record by record, what a `LIMIT` cut off, what this scan missed (`missed`) and, when there
  was no embedding of the query, all of them.
* In the hybrid mode the full-text part is divided by the best one of the pool: whether a record passes
  the gate depends on which others are in the pool.
* Hits are cut to the limit before they are grouped by cases: an answer may have fewer than the limit,
  while its warnings speak of hits dropped.
* A vote on another author's buffered record is accepted by its id (feedback_service.py:37).

Client sync (ADR-009 is `docs/02-architecture/decisions/009-client-sync-scheme-b.md`):

* After the documented bootstrap, or a run that stopped between the tool's files and the state file,
  tooling that is right on disk is skipped and never recorded: `check` then reports an update for ever
  (ADR-009:71), and each sync rewrites the state file.
* The state file is written in place: a crash in the middle leaves JSON that
  no later sync can read, with `--force` or without. `AskedIsAnswered` excepts it.
* The tool's own files are written in place too, and the wrapper looks only whether its script is there
  (sync_ma3_client.sh:18). A run cut off while it wrote one leaves an empty script, which ends at once with
  success, or an empty core, which ends in a traceback. Nothing then names the bootstrap, and the
  client stays behind: the exception `ToolStaysTorn` of `AskedIsAnswered`.
* A cut `--force` run, a roll-back after a cut, or overlapping runs leave a stale
  file that the state file calls current; hence `Orderly` in `StaleIsSeen` and `EndsWithRelease`.
* ADR-009 forbids writes to a client that must update; the server sets a flag only
  (mcp_server_info.py:92).
* After the server was rolled back, a client is asked to sync only for its tool schema.
* Of two agents on one directory the second is not told to reload its tools.

## 5. What is proved

`RecordLifecycleProofs` proves about `Spec`, for any sets of records, processes
and threads, any clock, any number of edits and faults, and any set of requests
offered, from the assumptions `TablesAssumption` and `LifecycleAssumption` only:

| Theorem | States |
|---|---|
| `TypeCorrect` | `Spec => []TypeOK` |
| `Inductive` | `Spec => []IndInv` |
| `TombstonesLeft` | `Spec => []DeletedLeavesTombstone` |
| `NeverBackInBuffer` | `Spec => []BufferedNeverPublic` |
| `SearchNeverAhead` | `Spec => []IndexNeverAhead` |
| `PublishedTextStays` | `Spec => PublishedTextFrozen` |
| `ReviewGatesDrafts` | `~Protected` implies `Spec => []DraftNeedsReview` |
| `TrashSpared` | `Spec => PublishingSparesTrash` |

The argument. The module begins with what each transaction of `RecordTables` preserves. None of these is inductive alone. `IndexNeverAhead` needs to know
what a worker holds between its read of a record and its writes of the index:
`HeldNeverAhead` says that a copy labelled active was made of a record that had
been active, which stays true however late it is written, because `everActive`
only grows. `DeletedLeavesTombstone` needs `ErasesWithTombstone`: a worker past
the first transaction of `hard_delete_record` has left the tombstone, and
tombstones are never removed. `BufferedNeverPublic` rests on no UPDATE setting
`buffered`; only the INSERT does, where there is no row, and `HistoryFits` says that
`wentPublic` holds rows that are there. Both it and `PublishedTextFrozen` speak of a row from
its INSERT to its deletion: a report stored again under its id is another row. `PublishedTextFrozen` follows from `BufferedNeverPublic`
and the `WHERE` of the patch, without any fact about the handler's stale check.
`DraftNeedsReview` needs `WorkerState`'s last conjunct: without protection no
worker is restoring. `IndInv` is the conjunction, checked by TLC in
`two_processes` before it was proved. `TrashSpared` needs of a worker only that its request
has the step it is at.

The same module proves that `RecordLifecycle` implements `RecordPromise`:

| Theorem | States |
|---|---|
| `IdsAreFresh` | `~Overlap` implies `Spec => [](reborn = {})` |
| `LifecycleKeepsPromise` | `Spec => KeepsPromise` |

The initial states map to the initial state, and each step to a `Change` or a stutter: for
each transaction of `RecordTables` a lemma says what it may do to the phase and the text
of a record, and the steps of a request are those transactions or leave `records`
alone. The simulation needs `PromiseInv`: `IndInv`, which types the tables and says that
every row's id is in `born`, and that where there is no row there is no text. What is gone comes
back with two processes only: with one, a report at its INSERT knew every id in `born`
(`FreshIds`), because between its look-up and its INSERT its loop, the only one that stores
reports, runs nothing else.

and what the tables say once every request is over:

| Theorem | States | For requests and workers such that |
|---|---|---|
| `RestartMends` | `Spec => []RestartRepairs` (search rows: but for `reborn`) | `"failure" \notin Offered` |
| `PublicationsLink` | `Spec => []PublishedIsLinked` | `Offered \cap Unlinking = {}` |
| `TimersRun` | `Spec => []BufferedHasTimer` | no failure and no crash is offered |
| `TimerKept` | `Spec => TimerIsKept` | `OneWorker`, no failure, no crash |
| `AnswersTrue` | `Spec => []AnswerIsTrue` | `OneWorker \/ (NoDetour /\ ~Overlap)` |
| `TablesFollow` | `Spec => []SearchTablesFollow` | `OneWorker`, no failure, no crash |

The conditions are the code's, not the prover's: each names requests of the program under which
the statement is false. A request that dies of an exception while its process lives on is
mended by the next start only. The requests of `Unlinking` publish without writing relations,
or erase them (section 4). Of two threads the one that read a row first may write its copy
last, so the search tables follow on one event loop, where a request changes a record, reads
it back and writes the tables before another runs; `AnswerIsTrue` needs the same, or
that no request takes a published record away again (`NoDetour`: no deletion protection and no reject) and no
other process stores it anew (`~Overlap`).
The argument has one form. While a record at rest would lack something (an audit row, a search
row, a timer, its relations, an answer that is true), some worker *owes* it: it is at a
step from which its request goes on to write it. Each step keeps the debts of the other workers,
and pays its own or passes it to its next step; an idle worker owes nothing.

`OrgSeatsProofs` proves about `OrgSeats`, for any people, invites, workers, plans
and clocks, from `SeatsAssumption` only:

| Theorem | States |
|---|---|
| `SeatsTypeCorrect` | `Spec => []TypeOK` |
| `AdmissionsFit` | `Spec => AdmissionFitsPlan` |
| `OverusedOnce` | `Spec => []OverusedOnceAtMost` |
| `EveryRedemptionPaid` | `Spec => []RedemptionsPaid` |

The argument. `LockGuards` says that a worker in the middle of an admission holds
the lock, so there is one at most. `RoomLeft` is what the lock buys: when an admission has
counted and is about to write, the members together with its person are no more than its `bound`, or its invite has
lapsed and they are one more at most. Other steps keep this, because without the
lock members only leave, and a lapsed invite stays lapsed. `UsesBounded` allows the one
use beyond `max` only to an invite that nobody is about to consume without a look:
`admit_org_member` read it with a use left, and while it holds the lock no second
admission can; `Consume` never goes beyond `max`. `IdsFresh` says that an id about to be
inserted has no redemptions, without which the INSERT would reset a paid count.

`IdempotentReportProofs` proves about `IdempotentReport`, for any processes, ids, keys,
payloads, libraries, quotas and number of reports, from `ReportAssumption` only:

| Theorem | States |
|---|---|
| `ReportsTypeCorrect` | `Spec => []TypeOK` |
| `OneRecord` | `Spec => []OneRecordPerKey` |
| `OneAnswer` | `Spec => []AnswersAgree` |
| `OneText` | `Spec => []IdNamesOneText` |
| `CountersFollow` | `Spec => []CounterFollows` |
| `CasesAreBounded` | `Spec => []CasesBounded` |
| `OvershootIsBounded` | `Spec => []OvershootBounded` |

The argument. A claim in `report_idempotency`, once made, never changes. A report on its way from the
look-up to the claim carries either a fresh id, which nothing else in the system names, or
the id its key is claimed for (`WorkingHasId`, `FreshApart`). `Claim` then either makes the
claim, for an id nobody else has, or finds it made and answers what it says; its own row is deleted
before it was ever committed. So a committed row with a key is the claimed one
(`RecordIsClaimed`), two rows with one key are the same, and every answer is the claim. `ReportInv` is the conjunction; TLC has checked it in the instance of
`report_once`. `CountersFollow` rests on the lock of the library's row (`LockHeld`): between the count of a
report and its commit no other report counts the same library, so what it counted, its own
uncommitted row included (`Uncommitted`), is what it writes. A report that gives up after its count, and a removal that runs
beside one, make the library `drifted`. `CasesAreBounded` strengthens the bound: the cases of a title, together with the servers that
have looked for it in vain and not yet inserted it, are no more than the servers, unless the title has no case yet;
for the look-up finds a case that is there. `OvershootIsBounded` adds the quota. The bound alone is not inductive: it says nothing of
the reports that the quota has let in and that are not stored yet (`Coming`). `QuotaInv` says that the library has room for all of them
under the ceiling: for one of them as large as it is, for each other as large as a report can be
(`WithRoom`). A report let in is that one, since what was there and its own bytes were within the
quota; where that one is stored or given up, any other takes its place, because its largest size is reserved. A removal only
takes bytes away. Beneath it, `BytesOf` adds a row's bytes when the row is stored (`OneRowMore`), in whatever order it folds over the
rows (`PartsTakeAny`, by induction on the finite parts of the ids), and the largest report exists (`LargestThere`): the code
refuses more than `max_record_bytes`, so `ReportAssumption` takes the payloads for a finite set. TLC has checked `QuotaInv` in the
instance of `report_once` and in one with three processes.

`BillingAccountProofs` proves about `BillingAccount`, for any workers, subscriptions, events,
scenes, days of notices and grace period, from `BillingAssumption` only:

| Theorem | States |
|---|---|
| `BillingInvariant` | `Spec => []BillingInv` |
| `EventsApplyOnce` | `Spec => []AppliedOnce` |
| `GraceIsWhole` | `Spec => RevokedAfterGrace` |
| `AccountFollowsStripe` | `Spec => []FollowsStripe` |

The argument. `TasksKnown` lists what a request may still have to do, so that each step knows
the steps after it. `AppliedInv`: of the requests that carry one event, one at most has got past
the INSERT and not yet changed the account, and while there is one the event has not been
applied; it rests on the unique index only, not on what the handler finds, and a request that
fails in between only leaves an event that is never applied. `GraceInv` compares two
clocks: `age`, which the job reads and every change of the account starts again, and `unpaid`,
the days past due without a break, which only a payment or the administrator starts again. While
the account is past due the first is never ahead of the second; a job keeps what `unpaid` was when
it selected the account (`streak`), and the day it then reads is no later, because a change in
between only sets `age` to 0 and no day goes by within a job.

`AccountFollowsStripe` compares the account with the whole history of events, and has an invariant of three parts (`OrderInv`), which TLC has checked
in the instance of `billing`. `OfEvents`, always: a request for an event sets what the kind of that event asks for. The others hold as long as
the events come in order (`InOrder`). At Stripe, its events are of one subscription after another: a checkout only after a
cancellation, every other event of the subscription of the event before it (`Chained`). So the last event alone tells what is sold, and
`AsSold` ties it to the state at Stripe. In the server, `AccountFits`: the account is what the recorded events have sold (`Sold`), while
no request is past the INSERT of an event; while one is, it is the only one, its event is the last recorded, and the
account is still what the events before it have sold, or differs in the link to the subscription only. From this
`_ba_by_subscription` finds the account for every event but a checkout (`FindInOrder`), and no change is lost. When all is
recorded and every worker idle, the account is `Sold` of the last event, which is what Stripe has sold.

`LocalAccountsProofs` proves about `LocalAccounts`, for any users, titles, workers, requests, keys
and crashes, from `AccountsAssumption` only:

| Theorem | States |
|---|---|
| `AccountsTypeCorrect` | `Spec => []TypeOK` |
| `FileOpens` | `Spec => []KeyFileOpens` |
| `SetupGoesForward` | `Spec => SetupStands` |
| `TitleStandsForever` | `Spec => TitleStands` |
| `AnAdminRemains` | `Spec => []AdminRemains` |
| `AccountBecomesReady` | `Spec => []AccountIsReady` |

The argument. A request is a sequence of steps in `todo`, so the base (`TasksOK`) says which sequences there
are: each step is followed by one that `After` allows, and the last is one that `Ends` allows. From it a worker at
one step is known to have the later ones still before it. On this base each theorem has an invariant of the
tables it is about: the row, the file and the start or rotation that is under way for the key (`KeysOK`: they differ only between a DELETE and the end of the write, or once a writer has died there); what a request has
read of the policy before it writes it; for the title, the registration that holds the lock or will find it;
for the administrator, that while there is none every registration past its INSERT will make its account one, because
it counted no account before; for the account, that what is missing of its home is still
in somebody's `todo`, unless a crash took it.

`RecordSearchProofs` proves about `RecordSearch`, for any records, callers, texts, scores, votes, modes, thresholds
that `validate_ranking_config` accepts, and bounds, from `SearchAssumption` only:

| Theorem | States |
|---|---|
| `SearchTypes` | `Spec => []TypeOK` |
| `OnlyReadableIsShown` | `Spec => []ShownIsReadable` |
| `SoundHitsAreAnswered` | `Spec => []SoundHitsAnswered` |
| `GapAlwaysStands` | `Spec => []RelevanceGapStands` |
| `DoubtsAreShown` | `Spec => []DoubtsShow` |
| `AnswersAlwaysOpen` | `Spec => []AnswerOpens` |

The argument has two halves. The ranking: `Ahead` is a strict total order of what was fetched (`AheadTotal`,
`AheadTransitive`, `NotAheadOfItself`), so the first n of a set stand ahead of the others
(`FirstStandAhead`), there is one if the set is not empty (`SomeIsFirst`), and there are n if one is left out
(`FirstIsFull`). Votes move a score by less than half of epsilon either way (`AdjustmentIsSmall`). These lemmas hold for any
scores. The reads: what a step has read of a record is still true of it while nobody touches it, so steps that read at
different times agree on the untouched records (`Shown`, `Warned`, `Judged`, `Current`). `Kept` says where a record is that the search must
not lose, if no read of the candidates missed it: in the pool, among the scores, among the rows; its score only grows on the way, by the fusion
(`FusedIsPartial`) and the boost (`BoostKeepsOrder`), above the gate. TLC checked
the conjunction `SearchInv` in the instance of `search` before it was proved.

`ClientSyncProofs` proves about `ClientSync`, for any agents, files, scenes and numbers of releases, from
`ClientAssumption`:

| Theorem | States | For releases such that |
|---|---|---|
| `ClientTypes` | `Spec => []TypeOK` | |
| `StateSpeaksOfOneRelease` | `Spec => []StateIsOneRelease` | |
| `FinishedRunsBringRelease` | `Spec => RunsBringRelease` | `ReleasesGoForward` |
| `StaleFilesAreSeen` | `Spec => []StaleIsSeen` | `ReleasesGoForward` |

`ReleasesGoForward`: a file that has changed between two releases, in content or by its version, is still changed in every later one. The
condition is needed: where a third release takes a file back to what the first had, under one version, a run to the second that
is cut off after it has opened the file leaves it empty, and the third's manifest calls it up to date (TLC shows this with three
such releases). The releases of the run `client_sync` satisfy it. The argument: a run is true to its own manifest
(`TasksOK`), whatever is deployed meanwhile, so the state file names one release; the files on disk are true to it only while one run works
at a time (`Alone`), and where a file is not what the state file says, it is among those the run at work has planned (`Planned`)
or was left by a cut run whose manifest called it due, as do all later ones (`Marked`).

`AgentAccessProofs` proves about `AgentAccess`, for any servers, threads, libraries, keys, codes, offers and
limits, from `AccessAssumption` only (there is a server; servers, the team's libraries and the counts a search may find
are finite; the limit of keys allows the first one):

| Theorem | States |
|---|---|
| `AccessTypes` | `Spec => []TypeOK` |
| `OneTokenEach` | `Spec => []OneTokenPerCode` |
| `KeysFollowRequests` | `Spec => []KeysAsAsked` |
| `RequestsFindWhatIsHeld` | `Spec => []FindsWhatIsHeld` |
| `UsageAlwaysAddsUp` | `Spec => []UsageAddsUp` |

The argument. What a request still has to do is a tail of its plan (`Plans`, `Shape`), and its questions come in the order of
their stages, each after those whose answers it needs (`Before`); an answer only passes over later questions. From
this the step a worker is at says which steps it has behind and before it. `OneTokenEach`: of the requests that
carry one code, the one whose DELETE returned the row is alone in going on to mint. `KeysFollowRequests` has `KeyOrder`: ids are
new, the grants of a key are queued behind one request's two statements or its row is gone (`Queued`), and the keys
together with those about to be inserted are within the limit unless two counts have overlapped (`RoomLeft`).
`RequestsFindWhatIsHeld` has `RightsFound`. One way, what was found was held at some moment (`Carried`), and a request
whose key is gone gets no further, since a deleted key is never made again (`DeadEnds`). The other way, for each right
held throughout, what leads to it has been found or is still in `todo`, right after the question it needs
(`Sought`, `KeyRead`); so none is left out when the request comes to its answer.
`UsageAlwaysAddsUp` has two invariants. `UnitsFit`: what an account has used this month and the dearest read for each server
that has passed the quota for it together stay below the quota and one such read for each server; so the look
at the quota is paid for when the read is metered. `EventsFit`: events stored, in lists, in the hands of flushes
and still to be listed (`Audited`) add up to what was charged until something fails, and to no more ever after; a
flush has units in its hand only until it stores them. The lemmas on sums
(`SumType`, `SumChange`, `SumOfNothing`) say what `SumOf` yields when one entry of a table changes. They go through `Parts`,
the sums `SumOf` folds over the subsets of the domain: that the order of the fold is no matter is shown for the smallest subset where
it would be (`SmallestPart`), by the library's theorem on finite cardinalities.

Every safety invariant and action property that a run checks is stated by a theorem. Only model-checked: liveness under
fairness, which is outside the prover's reach: `BufferedLeaves`, `UnpaidLosesReaders`, `AskedIsAnswered`. No module declares a recursive operator.

## 6. Not modelled, and what could follow

* Aliases of organisations, the founding of a team and its libraries: rows one
  administrator writes in one transaction.
* Organisation quota and the quota before an edit: the form of the check is that of
  `IdempotentReport`; quota overrides are single rows.
* `bluegreen_remote.sh`: ssh, systemd and a proxy, whose states the repository does not keep. Two
  processes and the death of one, which it brings about, are in the models.
* The call-back of single sign-on, the comparison of client, redirect and
  verifier of an OAuth request, validation and redaction of payloads: conditions on one request,
  without state.
* The window of the rate limiter: lives in one process and is a free refusal here.
* `revoke_access_token`: no route calls it. `_publish_record_with_relations` and `_delete_owned_record`
  (routes_portal.py:182): no caller.
* Pages, theme, translations, observability: rendering.
* Migration and maintenance scripts: an operator runs one alone. Evaluation harness: drives agents,
  no state of the server's.

What could follow: the composition of a report's transaction with the life cycle after it; two administrators of an
organisation who demote one another; the proxy of `bluegreen_remote.sh`.
