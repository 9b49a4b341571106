-------------------------- MODULE ClientSyncProofs --------------------------
(***************************************************************************)
(* What a run of the sync tool leaves behind, for any agents, files,       *)
(* releases, deployments and interruptions.                                *)
(*                                                                         *)
(* A run reads the manifest and the state file once and then writes file   *)
(* after file, while deployments go on.  What a run holds agrees with its  *)
(* manifest whatever the others do, and that makes the state file true to  *)
(* one release.  The files themselves are true to it only while one run    *)
(* works at a time.                                                        *)
(***************************************************************************)
EXTENDS ClientSync, FiniteSetTheorems, WellFoundedInduction, TLAPS

-----------------------------------------------------------------------------
(* The invariant.                                                          *)

\* What the manifest of a run says of a file.
Due(t, p) == Release(t.manifest).files[p]

\* The run has read the manifest; it has planned what it writes.
Told    == {"load", "pick", "open", "fill", "save"}
Working == {"pick", "open", "fill", "save"}

\* A run is true to its manifest: what it has in hand, and what it will record of
\* the bundle's files it is through with.
TaskOK(t) ==
    /\ t.at \in Told => t.manifest \in 1..Len(Releases)
    /\ t.at \in {"load", "save"} => t.command = "sync"
    /\ t.at = "save" => t.pending = {}
    /\ t.at \in {"open", "fill"} => t.path \in t.pending /\ t.content = Due(t, t.path)
    /\ t.command = "self-update" => t.pending \subseteq ToolFiles
    /\ t.at \in Working /\ t.command = "sync" =>
           \A p \in Bundle \ t.pending : t.written[p] = Due(t, p)

TasksOK == \A a \in Agents : TaskOK(task[a])

\* The state file speaks of release r.
Records(r) ==
    /\ state.skill = Release(r).skill /\ state.schema = Release(r).schema
    /\ \A p \in Bundle : state.files[p] = Release(r).files[p]

Alone == \A a, b \in Agents : ~IsIdle(a) /\ ~IsIdle(b) => a = b

\* Nobody but the run that opened it finds the state file torn.
SaveOpens == \A a \in Agents : task[a].at = "save" => state = Torn

\* Without a rollback, what is read later is no older.
Onward ==
    /\ \A a \in Agents : task[a].at \in Told => task[a].manifest <= release
    /\ HasState => \E r \in 1..release :
           /\ Records(r)
           /\ \A a \in Agents : task[a].at \in Told => r <= task[a].manifest

\* The directory is what the manifest says, as far as the run has come.
Brought ==
    \A a \in Agents : task[a].at \in Working =>
        /\ task[a].command = "sync" =>
               \A p \in Bundle \ task[a].pending : disk[p] = Due(task[a], p)
        /\ task[a].tooling =>
               \A p \in ToolFiles \ task[a].pending : disk[p] = Due(task[a], p)

Rewrites(a) == task[a].at \in Working /\ task[a].command = "sync"

Stale(p) == HasState /\ disk[p] # state.files[p]

\* What a run without --force writes is what it found to be out of date, and what is
\* not as the state file says while it works is among that.
Planned ==
    \A a \in Agents : Rewrites(a) /\ ~task[a].force =>
        /\ task[a].at # "save" =>
               task[a].pending \cap Bundle \subseteq FilesToUpdate(state, Release(task[a].manifest))
        /\ \A p \in Bundle : Stale(p) => p \in FilesToUpdate(state, Release(task[a].manifest))

\* What is not as the state file says while nobody writes was left by a run that was
\* cut off: it had read a manifest that is out by now, for which the file was due.
Marked ==
    (\A a \in Agents : ~Rewrites(a)) =>
        \A p \in Bundle : Stale(p) =>
            /\ "cut" \in lapses
            /\ \E r, m \in 1..release :
                /\ r <= m /\ Records(r)
                /\ p \in FilesToUpdate(state, Release(m))
                /\ \A a \in Agents : task[a].at \in Told => m <= task[a].manifest

DirectoryInv ==
    /\ "overlap" \notin lapses => Alone /\ SaveOpens
    /\ lapses \cap {"overlap", "rollback"} = {} => Onward
    /\ Orderly => Brought /\ Planned /\ Marked

\* A file that a release replaces stays replaced: no later release brings it back
\* without a new version.
Changed(r, m) ==
    {p \in Bundle : \/ Release(r).files[p] # Release(m).files[p]
                    \/ IF p = ToolList THEN Release(r).schema # Release(m).schema
                                       ELSE Release(r).skill # Release(m).skill}

ReleasesGoForward ==
    \A r, m, q \in 1..Len(Releases) : r <= m /\ m <= q => Changed(r, m) \subseteq Changed(r, q)

-----------------------------------------------------------------------------
(* Releases and files.                                                     *)

LEMMA ReleasesKnown ==
    ASSUME NEW r \in 1..Len(Releases)
    PROVE  /\ Release(r).files \in [Paths -> Digests]
           /\ Release(r).skill \in Versions /\ Release(r).schema \in Versions
<1>1. Release(r).files \in [Paths -> Nat]
    BY ClientAssumption DEF Release
<1>2. \A p \in Paths : Release(r).files[p] \in Digests
    BY DEF Digests, Release
<1> QED
    BY <1>1, <1>2 DEF Versions, Release

LEMMA DigestsAreNumbers == Digests \subseteq Nat /\ Torn \notin Digests /\ Missing \notin Digests
BY ClientAssumption DEF Digests

LEMMA PathsApart == /\ ToolList \in Paths /\ ToolFiles \cap Bundle = {}
                    /\ Paths = ToolFiles \cup Bundle
BY ClientAssumption DEF Paths

\* A set of numbers has a least one.
LEMMA LeastIn ==
    ASSUME NEW n \in Nat, NEW D, D \subseteq 1..n, D # {}
    PROVE  \E i \in D : \A j \in D : i <= j
<1> DEFINE T == {1..i : i \in D}
<1>1. T \subseteq FiniteSubsetsOf(Nat)
    <2> SUFFICES ASSUME NEW i \in D PROVE 1..i \in FiniteSubsetsOf(Nat)
        OBVIOUS
    <2>1. i \in Nat
        OBVIOUS
    <2>2. IsFiniteSet(1..i)
        BY <2>1, FS_Interval
    <2> QED
        BY <2>1, <2>2 DEF FiniteSubsetsOf
<1>2. PICK S \in T : \A U \in T : ~(<<U, S>> \in StrictSubsetOrdering(Nat))
    <2>1. T # {}
        OBVIOUS
    <2>2. IsWellFoundedOn(StrictSubsetOrdering(Nat), FiniteSubsetsOf(Nat))
        BY FS_StrictSubsetOrderingWellFounded
    <2> HIDE DEF T
    <2> QED
        BY <1>1, <2>1, <2>2, WFMin
<1>3. PICK i \in D : S = 1..i
    BY <1>2
<1>4. ASSUME NEW j \in D, j < i PROVE FALSE
    <2>1. 1..j \subseteq 1..i /\ 1..j # 1..i
        BY <1>3, <1>4
    <2>2. 1..i \subseteq Nat
        BY <1>3
    <2> QED
        BY <1>2, <1>3, <2>1, <2>2 DEF StrictSubsetOrdering
<1> QED
    BY <1>4

\* The next file is one of those to go through.
LEMMA TurnIsPending ==
    ASSUME NEW S, NEW p \in Turn(S)
    PROVE  p \in S
<1> DEFINE due == {i \in 1..Len(Tooling) : Tooling[i] \in S}
<1>1. CASE due = {}
    BY <1>1 DEF Turn
<1>2. CASE due # {}
    <2>1. Len(Tooling) \in Nat
        BY ClientAssumption
    <2>2. \E i \in due : \A j \in due : i <= j
        BY <1>2, <2>1, LeastIn
    <2> QED
        BY <1>2, <2>2 DEF Turn
<1> QED
    BY <1>1, <1>2

-----------------------------------------------------------------------------
(* Types, and runs true to their manifests.                                *)

LEMMA IdleIsTask == Idle \in Task /\ TaskOK(Idle) /\ Idle.at = "idle"
<1>1. Nothing \in [Paths -> Digests \cup {Missing}]
    BY DEF Nothing
<1>2. 0 \in 0..Len(Releases)
    BY ClientAssumption
<1> QED
    BY <1>1, <1>2, PathsApart DEF Idle, Task, TaskOK, Phases, Contents, Told, Working

LEMMA AdvanceKeeps ==
    ASSUME TypeOK, TasksOK, NEW a \in Agents, NEW t \in Task, TaskOK(t), Advance(a, t)
    PROVE  /\ task' \in [Agents -> Task] /\ TasksOK'
           /\ \A b \in Agents : task'[b] = IF b = a THEN t ELSE task[b]
<1>1. task' = [task EXCEPT ![a] = t] /\ task \in [Agents -> Task]
    BY DEF Advance, TypeOK
<1>2. \A b \in Agents : task'[b] = IF b = a THEN t ELSE task[b]
    BY <1>1
<1>3. \A b \in Agents : TaskOK(task'[b])
    BY <1>2 DEF TasksOK
<1> QED
    BY <1>1, <1>2, <1>3 DEF TasksOK

RunInv == TypeOK /\ TasksOK /\ StateIsOneRelease

\* A run that starts, reads, plans, fetches or is cut off touches neither the files
\* nor the state file.
LEMMA MoveRuns ==
    ASSUME RunInv, NEW a \in Agents, NEW t \in Task, TaskOK(t), Advance(a, t),
           UNCHANGED <<server, disk, state>>,
           cuts' \in 0..scene.cuts,
           lapses' \subseteq {"overlap", "cut", "forced", "rollback"}
    PROVE  RunInv'
<1>1. task' \in [Agents -> Task] /\ TasksOK'
    BY AdvanceKeeps DEF RunInv
<1>2. TypeOK'
    BY <1>1 DEF RunInv, TypeOK, server
<1>3. StateIsOneRelease'
    BY DEF RunInv, StateIsOneRelease, HasState
<1> QED
    BY <1>1, <1>2, <1>3 DEF RunInv

LEMMA StartRuns ==
    ASSUME RunInv, NEW a \in Agents, NEW command \in {"sync", "self-update"},
           NEW force \in BOOLEAN, Start(a, command, force)
    PROVE  RunInv'
<1> DEFINE t == [Idle EXCEPT !.at = "manifest", !.command = command, !.force = force]
<1>1. t \in Task /\ t.at = "manifest" /\ t.pending = {} /\ t.command = command
    BY IdleIsTask DEF Task, Phases, Idle
<1>2. Advance(a, t)
    BY DEF Start
<1> HIDE DEF t
<1>3. TaskOK(t)
    BY <1>1 DEF TaskOK, Told, Working
<1> QED
    BY <1>1, <1>2, <1>3, MoveRuns DEF Start, RunInv, TypeOK

LEMMA FetchManifestRuns ==
    ASSUME RunInv, NEW a \in Agents, FetchManifest(a)
    PROVE  RunInv'
<1>1. task[a] \in Task /\ task[a].at = "manifest" /\ release \in 1..Len(Releases)
    BY DEF FetchManifest, RunInv, TypeOK
<1>2. release \in 0..Len(Releases) /\ ToolFiles \subseteq Paths
    BY <1>1 DEF Paths
<1> DEFINE t == [task[a] EXCEPT !.manifest = release, !.at = "load"]
           u == [task[a] EXCEPT !.manifest = release, !.pending = ToolFiles,
                                !.tooling = TRUE, !.at = "pick"]
<1>3. t \in Task /\ t.at = "load" /\ t.manifest = release /\ t.command = task[a].command
      /\ t.pending = task[a].pending
    BY <1>1, <1>2 DEF Task, Phases
<1>4. u \in Task /\ u.at = "pick" /\ u.manifest = release /\ u.command = task[a].command
      /\ u.pending = ToolFiles
    BY <1>1, <1>2 DEF Task, Phases
<1>5. \/ Advance(a, t) /\ task[a].command = "sync"
      \/ Advance(a, u) /\ task[a].command = "self-update"
    BY <1>1 DEF FetchManifest, Task
<1> HIDE DEF t, u
<1>6. task[a].command = "sync" => TaskOK(t)
    BY <1>1, <1>3 DEF TaskOK, Told, Working
<1>7. task[a].command = "self-update" => TaskOK(u)
    BY <1>1, <1>4 DEF TaskOK, Told, Working
<1>8. UNCHANGED <<server, disk, state, cuts, lapses>>
    BY DEF FetchManifest
<1> QED
    BY <1>3, <1>4, <1>5, <1>6, <1>7, <1>8, MoveRuns DEF RunInv, TypeOK

\* What a run plans.
Loaded(a) ==
    LET rel   == Release(task[a].manifest)
        tools == task[a].force \/ ToolingUpdate(state, rel)
        files == IF task[a].force THEN Bundle ELSE FilesToUpdate(state, rel)
    IN  [task[a] EXCEPT !.at = "pick", !.tooling = tools,
                        !.pending = files \cup (IF tools THEN ToolFiles ELSE {}),
                        !.written = IF state = Missing THEN Nothing ELSE state.files,
                        !.reload = McpReload(state, rel)]

LEMMA LoadedIsTask ==
    ASSUME RunInv, NEW a \in Agents, task[a].at = "load", state # Torn
    PROVE  /\ Loaded(a) \in Task /\ Loaded(a).at = "pick" /\ Loaded(a).command = "sync"
           /\ Loaded(a).manifest = task[a].manifest /\ Loaded(a).force = task[a].force
           /\ task[a].manifest \in 1..Len(Releases)
           /\ Loaded(a).pending \cap Bundle =
                  IF task[a].force THEN Bundle
                  ELSE FilesToUpdate(state, Release(task[a].manifest))
           /\ Loaded(a).tooling => ToolFiles \subseteq Loaded(a).pending
           /\ Loaded(a).written = IF state = Missing THEN Nothing ELSE state.files
<1>1. task[a] \in Task /\ task[a].command = "sync" /\ task[a].manifest \in 1..Len(Releases)
    BY DEF RunInv, TypeOK, TasksOK, TaskOK, Told
<1>2. state = Missing \/ state \in ClientState
    BY DEF RunInv, TypeOK
<1> DEFINE rel   == Release(task[a].manifest)
           tools == task[a].force \/ ToolingUpdate(state, rel)
           files == IF task[a].force THEN Bundle ELSE FilesToUpdate(state, rel)
           pending == files \cup (IF tools THEN ToolFiles ELSE {})
           written == IF state = Missing THEN Nothing ELSE state.files
           reload  == McpReload(state, rel)
<1>3. files \subseteq Bundle
    BY DEF FilesToUpdate
<1>4. pending \in SUBSET Paths
    BY <1>3 DEF Paths
<1>5. written \in [Paths -> Digests \cup {Missing}]
    BY <1>2 DEF Nothing, ClientState
<1>6. tools \in BOOLEAN /\ reload \in BOOLEAN
    BY <1>1 DEF ToolingUpdate, McpReload, Task
<1>7. Loaded(a) = [task[a] EXCEPT !.at = "pick", !.tooling = tools, !.pending = pending,
                                  !.written = written, !.reload = reload]
    BY DEF Loaded
<1>8. pending \cap Bundle = files
    BY <1>3, PathsApart
<1>9. tools => ToolFiles \subseteq pending
    OBVIOUS
<1> HIDE DEF tools, pending, written, reload
<1> QED
    BY <1>1, <1>4, <1>5, <1>6, <1>7, <1>8, <1>9 DEF Task, Phases, written

LEMMA LoadStateRuns ==
    ASSUME RunInv, NEW a \in Agents, LoadState(a)
    PROVE  RunInv'
<1>1. task[a].at = "load" /\ UNCHANGED <<server, disk, state, cuts, lapses>>
    BY DEF LoadState
<1>2. Advance(a, Idle) \/ (state # Torn /\ Advance(a, Loaded(a)))
    BY DEF LoadState, Loaded
<1>3. CASE Advance(a, Idle)
    BY <1>1, <1>3, IdleIsTask, MoveRuns DEF RunInv, TypeOK
<1>4. CASE state # Torn /\ Advance(a, Loaded(a))
    <2> DEFINE t == Loaded(a)
    <2>1. /\ t \in Task /\ t.at = "pick" /\ t.command = "sync"
          /\ t.manifest = task[a].manifest /\ t.manifest \in 1..Len(Releases)
          /\ t.pending \cap Bundle = IF task[a].force THEN Bundle
                                     ELSE FilesToUpdate(state, Release(t.manifest))
          /\ t.written = IF state = Missing THEN Nothing ELSE state.files
        BY <1>1, <1>4, LoadedIsTask
    <2>2. Advance(a, t)
        BY <1>4
    <2> HIDE DEF t
    <2>3. \A p \in Bundle \ t.pending : t.written[p] = Due(t, p)
        BY <2>1 DEF FilesToUpdate, Due
    <2>4. TaskOK(t)
        BY <2>1, <2>3 DEF TaskOK, Told, Working
    <2> QED
        BY <1>1, <2>1, <2>2, <2>4, MoveRuns DEF RunInv, TypeOK
<1> QED
    BY <1>2, <1>3, <1>4

\* What a step of a run that is picking a file finds.
LEMMA PickingRun ==
    ASSUME RunInv, NEW a \in Agents, task[a].at \in Working
    PROVE  /\ task[a] \in Task /\ task[a].manifest \in 1..Len(Releases)
           /\ task[a].pending \subseteq Paths
           /\ \A p \in Paths : Expected(a, p) \in Digests /\ Expected(a, p) = Due(task[a], p)
<1>1. task[a] \in Task /\ task[a].manifest \in 1..Len(Releases)
    BY DEF RunInv, TypeOK, TasksOK, TaskOK, Told, Working
<1>2. \A p \in Paths : Release(task[a].manifest).files[p] \in Digests
    BY <1>1, ReleasesKnown
<1> QED
    BY <1>1, <1>2 DEF Task, Expected, Due

LEMMA SkipToolRuns ==
    ASSUME RunInv, NEW a \in Agents, SkipTool(a)
    PROVE  RunInv'
<1>1. task[a].at = "pick" /\ UNCHANGED <<server, disk, state, cuts, lapses>>
    BY DEF SkipTool
<1>2. PICK p \in ToolFiles : Advance(a, [task[a] EXCEPT !.pending = @ \ {p}])
    BY DEF SkipTool
<1>3. task[a] \in Task /\ TaskOK(task[a])
    BY DEF RunInv, TypeOK, TasksOK
<1> DEFINE t == [task[a] EXCEPT !.pending = @ \ {p}]
<1>4. /\ t \in Task /\ t.at = task[a].at /\ t.manifest = task[a].manifest
      /\ t.command = task[a].command /\ t.pending = task[a].pending \ {p}
      /\ t.written = task[a].written
    BY <1>3 DEF Task
<1>5. Advance(a, t)
    BY <1>2
<1> HIDE DEF t
<1>6. p \notin Bundle
    BY PathsApart
<1>7. TaskOK(t)
    BY <1>1, <1>3, <1>4, <1>6 DEF TaskOK, Due, Told, Working
<1> QED
    BY <1>1, <1>4, <1>5, <1>7, MoveRuns DEF RunInv, TypeOK

\* The file to write next, as the manifest has it.
Fetched(a, p) == [task[a] EXCEPT !.path = p, !.at = "open", !.content = Release(release).files[p]]

LEMMA FetchedIsTask ==
    ASSUME RunInv, NEW a \in Agents, task[a].at = "pick", NEW p \in task[a].pending,
           Release(release).files[p] = Expected(a, p)
    PROVE  /\ Fetched(a, p) \in Task /\ TaskOK(Fetched(a, p)) /\ Fetched(a, p).at = "open"
           /\ Fetched(a, p).pending = task[a].pending /\ Fetched(a, p).path = p
           /\ Fetched(a, p).manifest = task[a].manifest /\ Fetched(a, p).force = task[a].force
           /\ Fetched(a, p).command = task[a].command
           /\ Fetched(a, p).tooling = task[a].tooling
<1>1. /\ task[a] \in Task /\ p \in Paths /\ Expected(a, p) \in Digests
      /\ Expected(a, p) = Due(task[a], p) /\ TaskOK(task[a])
    BY PickingRun DEF Working, RunInv, TasksOK
<1>2. Expected(a, p) \in Contents
    BY <1>1 DEF Contents
<1> DEFINE t == Fetched(a, p)
<1>3. /\ t \in Task /\ t.at = "open" /\ t.pending = task[a].pending /\ t.path = p
      /\ t.manifest = task[a].manifest /\ t.force = task[a].force
      /\ t.command = task[a].command /\ t.tooling = task[a].tooling
      /\ t.content = Expected(a, p) /\ t.written = task[a].written
    BY <1>1, <1>2 DEF Task, Phases, Fetched
<1> HIDE DEF t
<1>4. TaskOK(t)
    BY <1>1, <1>3 DEF TaskOK, Due, Told, Working
<1> QED
    BY <1>3, <1>4 DEF t

LEMMA FetchCases ==
    ASSUME RunInv, NEW a \in Agents, Fetch(a)
    PROVE  /\ task[a].at = "pick" /\ UNCHANGED <<server, disk, state, cuts>>
           /\ \/ /\ lapses' = lapses
                 /\ \E p \in task[a].pending : /\ Release(release).files[p] = Expected(a, p)
                                               /\ Advance(a, Fetched(a, p))
              \/ Advance(a, Idle) /\ Cut(a)
<1>1. \A p \in Turn(task[a].pending) : p \in task[a].pending
    BY TurnIsPending
<1> QED
    BY <1>1 DEF Fetch, Fetched

LEMMA FetchRuns ==
    ASSUME RunInv, NEW a \in Agents, Fetch(a)
    PROVE  RunInv'
<1>1. task[a].at = "pick" /\ UNCHANGED <<server, disk, state, cuts>>
    BY FetchCases
<1>2. CASE Advance(a, Idle) /\ Cut(a)
    BY <1>1, <1>2, IdleIsTask, MoveRuns DEF Cut, RunInv, TypeOK
<1>3. ASSUME lapses' = lapses, NEW p \in task[a].pending,
             Release(release).files[p] = Expected(a, p), Advance(a, Fetched(a, p))
      PROVE  RunInv'
    <2>1. Fetched(a, p) \in Task /\ TaskOK(Fetched(a, p))
        BY <1>1, <1>3, FetchedIsTask
    <2> QED
        BY <1>1, <1>3, <2>1, MoveRuns DEF RunInv, TypeOK
<1> QED
    BY <1>2, <1>3, FetchCases

LEMMA OpenRuns ==
    ASSUME RunInv, NEW a \in Agents, Open(a)
    PROVE  RunInv'
<1>1. /\ task[a] \in Task /\ TaskOK(task[a]) /\ task[a].at = "open"
      /\ disk' = [disk EXCEPT ![task[a].path] = Torn]
      /\ UNCHANGED <<server, state, cuts, lapses>>
    BY DEF Open, RunInv, TypeOK, TasksOK
<1> DEFINE t == [task[a] EXCEPT !.at = "fill"]
<1>2. /\ t \in Task /\ t.at = "fill" /\ t.manifest = task[a].manifest
      /\ t.command = task[a].command /\ t.pending = task[a].pending
      /\ t.written = task[a].written /\ t.path = task[a].path /\ t.content = task[a].content
    BY <1>1 DEF Task, Phases
<1>3. Advance(a, t)
    BY DEF Open
<1> HIDE DEF t
<1>4. TaskOK(t)
    BY <1>1, <1>2 DEF TaskOK, Due, Told, Working
<1>5. task' \in [Agents -> Task] /\ TasksOK'
    BY <1>2, <1>3, <1>4, AdvanceKeeps DEF RunInv
<1>6. disk' \in [Paths -> Contents]
    BY <1>1 DEF RunInv, TypeOK, Contents
<1>7. TypeOK'
    BY <1>1, <1>5, <1>6 DEF RunInv, TypeOK, server
<1>8. StateIsOneRelease'
    BY <1>1 DEF RunInv, StateIsOneRelease, HasState
<1> QED
    BY <1>5, <1>7, <1>8 DEF RunInv

\* The run after it has written the file.
Filled(a) == [task[a] EXCEPT !.at = "pick", !.pending = @ \ {task[a].path},
                             !.written[task[a].path] = task[a].content]

LEMMA FilledIsTask ==
    ASSUME RunInv, NEW a \in Agents, task[a].at = "fill"
    PROVE  /\ Filled(a) \in Task /\ TaskOK(Filled(a)) /\ Filled(a).at = "pick"
           /\ Filled(a).pending = task[a].pending \ {task[a].path}
           /\ Filled(a).manifest = task[a].manifest /\ Filled(a).force = task[a].force
           /\ Filled(a).command = task[a].command /\ Filled(a).tooling = task[a].tooling
           /\ task[a].path \in task[a].pending /\ task[a].path \in Paths
           /\ task[a].content = Due(task[a], task[a].path) /\ task[a].content \in Digests
<1>1. /\ task[a] \in Task /\ TaskOK(task[a]) /\ task[a].manifest \in 1..Len(Releases)
      /\ task[a].path \in task[a].pending /\ task[a].path \in Paths
      /\ task[a].content = Due(task[a], task[a].path)
    BY PickingRun DEF RunInv, TypeOK, TasksOK, TaskOK, Working, Task
<1>2. task[a].content \in Digests
    BY <1>1, ReleasesKnown DEF Due
<1>3. PICK f \in [Paths -> Digests \cup {Missing}] :
          f = [task[a].written EXCEPT ![task[a].path] = task[a].content]
    BY <1>1, <1>2 DEF Task
<1> DEFINE t == Filled(a)
<1>4. t = [task[a] EXCEPT !.at = "pick", !.pending = @ \ {task[a].path}, !.written = f]
    BY <1>1, <1>3 DEF Filled, Task
<1> HIDE DEF t
<1>5. /\ t \in Task /\ t.at = "pick" /\ t.pending = task[a].pending \ {task[a].path}
      /\ t.manifest = task[a].manifest /\ t.force = task[a].force
      /\ t.command = task[a].command /\ t.tooling = task[a].tooling /\ t.written = f
    BY <1>1, <1>4 DEF Task, Phases
<1>6. task[a].written \in [Paths -> Digests \cup {Missing}]
    BY <1>1 DEF Task
<1>7. \A p \in Paths : f[p] = IF p = task[a].path THEN task[a].content ELSE task[a].written[p]
    BY <1>3, <1>6
<1>8. TaskOK(t)
    BY <1>1, <1>5, <1>7, PathsApart DEF TaskOK, Due, Told, Working
<1> QED
    BY <1>1, <1>2, <1>5, <1>8 DEF t

LEMMA FillRuns ==
    ASSUME RunInv, NEW a \in Agents, Fill(a)
    PROVE  RunInv'
<1>1. /\ task[a].at = "fill" /\ disk' = [disk EXCEPT ![task[a].path] = task[a].content]
      /\ Advance(a, Filled(a)) /\ UNCHANGED <<server, state, cuts, lapses>>
    BY DEF Fill, Filled
<1>2. Filled(a) \in Task /\ TaskOK(Filled(a)) /\ task[a].content \in Digests
    BY <1>1, FilledIsTask
<1>3. task' \in [Agents -> Task] /\ TasksOK'
    BY <1>1, <1>2, AdvanceKeeps DEF RunInv
<1>4. disk' \in [Paths -> Contents]
    BY <1>1, <1>2 DEF RunInv, TypeOK, Contents
<1>5. TypeOK'
    BY <1>1, <1>3, <1>4 DEF RunInv, TypeOK, server
<1>6. StateIsOneRelease'
    BY <1>1 DEF RunInv, StateIsOneRelease, HasState
<1> QED
    BY <1>3, <1>5, <1>6 DEF RunInv

LEMMA OpenStateRuns ==
    ASSUME RunInv, NEW a \in Agents, OpenState(a)
    PROVE  RunInv'
<1>1. /\ task[a] \in Task /\ TaskOK(task[a]) /\ task[a].at = "pick" /\ task[a].pending = {}
      /\ UNCHANGED <<server, disk, cuts, lapses>>
    BY DEF OpenState, RunInv, TypeOK, TasksOK
<1> DEFINE t == [task[a] EXCEPT !.at = "save"]
<1>2. CASE task[a].command # "sync"
    <2>1. Advance(a, Idle) /\ state' = state
        BY <1>2 DEF OpenState
    <2> QED
        BY <1>1, <2>1, IdleIsTask, MoveRuns DEF RunInv, TypeOK
<1>3. CASE task[a].command = "sync"
    <2>1. Advance(a, t) /\ state' = Torn
        BY <1>3 DEF OpenState
    <2>2. /\ t \in Task /\ t.at = "save" /\ t.manifest = task[a].manifest
          /\ t.command = task[a].command /\ t.pending = task[a].pending
          /\ t.written = task[a].written
        BY <1>1 DEF Task, Phases
    <2> HIDE DEF t
    <2>3. TaskOK(t)
        BY <1>1, <1>3, <2>2 DEF TaskOK, Due, Told, Working
    <2>4. task' \in [Agents -> Task] /\ TasksOK'
        BY <2>1, <2>2, <2>3, AdvanceKeeps DEF RunInv
    <2>5. TypeOK'
        BY <1>1, <2>1, <2>4 DEF RunInv, TypeOK, server
    <2> QED
        BY <2>1, <2>4, <2>5 DEF RunInv, StateIsOneRelease, HasState
<1> QED
    BY <1>2, <1>3

\* The state file now speaks of the run's manifest.
LEMMA SaveStateSays ==
    ASSUME RunInv, NEW a \in Agents, SaveState(a)
    PROVE  /\ task[a].manifest \in 1..Len(Releases) /\ task[a].pending = {}
           /\ task[a].at = "save" /\ task[a].command = "sync"
           /\ state' \in ClientState
           /\ state'.skill = Release(task[a].manifest).skill
           /\ state'.schema = Release(task[a].manifest).schema
           /\ \A p \in Bundle : state'.files[p] = Due(task[a], p)
<1>1. /\ task[a] \in Task /\ TaskOK(task[a]) /\ task[a].at = "save"
      /\ task[a].manifest \in 1..Len(Releases) /\ task[a].pending = {}
      /\ task[a].command = "sync"
    BY DEF SaveState, RunInv, TypeOK, TasksOK, TaskOK, Told
<1>2. \A p \in Bundle : task[a].written[p] = Due(task[a], p)
    BY <1>1 DEF TaskOK, Working
<1>3. /\ Release(task[a].manifest).skill \in Versions
      /\ Release(task[a].manifest).schema \in Versions
    BY <1>1, ReleasesKnown
<1>4. state' = [files |-> task[a].written, skill |-> Release(task[a].manifest).skill,
                schema |-> Release(task[a].manifest).schema, reload |-> task[a].reload]
    BY DEF SaveState
<1> QED
    BY <1>1, <1>2, <1>3, <1>4 DEF ClientState, Task

LEMMA SaveStateRuns ==
    ASSUME RunInv, NEW a \in Agents, SaveState(a)
    PROVE  RunInv'
<1>1. Advance(a, Idle) /\ UNCHANGED <<server, disk, cuts, lapses>>
    BY DEF SaveState
<1>2. task' \in [Agents -> Task] /\ TasksOK'
    BY <1>1, IdleIsTask, AdvanceKeeps DEF RunInv
<1>3. TypeOK'
    BY <1>1, <1>2, SaveStateSays DEF RunInv, TypeOK, server
<1>4. StateIsOneRelease'
    BY SaveStateSays DEF StateIsOneRelease, Due
<1> QED
    BY <1>2, <1>3, <1>4 DEF RunInv

LEMMA CutOffRuns ==
    ASSUME RunInv, NEW a \in Agents, CutOff(a)
    PROVE  RunInv'
<1>1. /\ Advance(a, Idle) /\ UNCHANGED <<server, disk, state>> /\ cuts < scene.cuts
      /\ cuts' = cuts + 1
      /\ lapses' \subseteq {"overlap", "cut", "forced", "rollback"}
    BY DEF CutOff, Cut, RunInv, TypeOK
<1>2. cuts' \in 0..scene.cuts
    BY <1>1, ClientAssumption DEF RunInv, TypeOK
<1> QED
    BY <1>1, <1>2, IdleIsTask, MoveRuns

LEMMA BesideRuns ==
    ASSUME RunInv, \/ \E r \in 1..Len(Releases) : Deploy(r)
                   \/ \E a \in Agents : Bootstrap(a)
                   \/ UNCHANGED vars
    PROVE  RunInv'
<1>1. CASE \E r \in 1..Len(Releases) : Deploy(r)
    <2>1. deploys' \in 0..scene.deploys /\ release' \in 1..Len(Releases)
        BY <1>1, ClientAssumption DEF Deploy, RunInv, TypeOK
    <2>2. UNCHANGED <<scene, disk, state, task, cuts>>
        BY <1>1 DEF Deploy
    <2>3. lapses' \subseteq {"overlap", "cut", "forced", "rollback"}
        BY <1>1 DEF Deploy, RunInv, TypeOK
    <2> QED
        BY <2>1, <2>2, <2>3 DEF RunInv, TypeOK, TasksOK, StateIsOneRelease, HasState
<1>2. CASE \E a \in Agents : Bootstrap(a)
    <2>1. UNCHANGED <<server, state, task, cuts>>
        BY <1>2 DEF Bootstrap
    <2>2. disk' \in [Paths -> Contents]
        <3>1. \A p \in Paths : Release(release).files[p] \in Contents
            BY ReleasesKnown DEF RunInv, TypeOK, Contents
        <3> QED
            BY <1>2, <3>1 DEF Bootstrap, RunInv, TypeOK
    <2>3. lapses' \subseteq {"overlap", "cut", "forced", "rollback"}
        BY <1>2 DEF Bootstrap, RunInv, TypeOK
    <2> QED
        BY <2>1, <2>2, <2>3 DEF server, RunInv, TypeOK, TasksOK, StateIsOneRelease, HasState
<1>3. CASE UNCHANGED vars
    BY <1>3 DEF vars, server, RunInv, TypeOK, TasksOK, StateIsOneRelease, HasState
<1> QED
    BY <1>1, <1>2, <1>3

LEMMA NextRuns == RunInv /\ [Next]_vars => RunInv'
<1> SUFFICES ASSUME RunInv, [Next]_vars PROVE RunInv'
    OBVIOUS
<1>1. ASSUME NEW a \in Agents, Step(a) PROVE RunInv'
    BY <1>1, FetchManifestRuns, LoadStateRuns, SkipToolRuns, FetchRuns, OpenRuns, FillRuns,
       OpenStateRuns, SaveStateRuns DEF Step
<1>2. ASSUME NEW a \in Agents, Call(a) PROVE RunInv'
    BY <1>2, StartRuns DEF Call
<1>3. ASSUME NEW a \in Agents, NEW cmd \in {"sync", "self-update"}, NEW force \in BOOLEAN,
             Invoke(a, cmd, force)
      PROVE  RunInv'
    BY <1>3, StartRuns DEF Invoke
<1>4. ASSUME NEW a \in Agents, CutOff(a) PROVE RunInv'
    BY <1>4, CutOffRuns
<1> QED
    BY <1>1, <1>2, <1>3, <1>4, BesideRuns DEF Next

LEMMA InitRuns == Init => RunInv
<1> SUFFICES ASSUME Init PROVE RunInv
    OBVIOUS
<1>1. 1 \in 1..Len(Releases)
    BY ClientAssumption
<1>2. disk \in [Paths -> Contents]
    BY <1>1, ReleasesKnown DEF Init, Contents
<1>3. TypeOK
    BY <1>1, <1>2, IdleIsTask, ClientAssumption DEF Init, TypeOK
<1>4. TasksOK
    BY IdleIsTask DEF Init, TasksOK
<1> QED
    BY <1>3, <1>4 DEF Init, RunInv, StateIsOneRelease, HasState

LEMMA RunsInvariant == Spec => []RunInv
BY InitRuns, NextRuns, PTL DEF Spec
-----------------------------------------------------------------------------
(* The directory.                                                          *)

\* While no two runs have overlapped, whoever works works alone.
LEMMA Sole ==
    ASSUME DirectoryInv, "overlap" \notin lapses, NEW a \in Agents, ~IsIdle(a),
           NEW b \in Agents, b # a
    PROVE  task[b].at = "idle"
BY DEF DirectoryInv, Alone, IsIdle

\* What was out of date when a release came out stays so.
LEMMA StaysChanged ==
    ASSUME ReleasesGoForward, NEW r \in 1..Len(Releases), NEW m \in 1..Len(Releases),
           NEW q \in 1..Len(Releases), r <= m, m <= q, HasState, Records(r), NEW p \in Bundle,
           p \in FilesToUpdate(state, Release(m))
    PROVE  p \in FilesToUpdate(state, Release(q))
<1>1. \A x \in 1..Len(Releases) : p \in Changed(r, x) <=> p \in FilesToUpdate(state, Release(x))
    BY DEF Changed, FilesToUpdate, Records, HasState
<1> QED
    BY <1>1 DEF ReleasesGoForward

\* A run that is about to plan knows of every file that is not as the state file says.
LEMMA PlanSeesStale ==
    ASSUME ReleasesGoForward, RunInv, DirectoryInv, Orderly, NEW a \in Agents,
           task[a].at = "load", NEW p \in Bundle, Stale(p)
    PROVE  p \in FilesToUpdate(state, Release(task[a].manifest))
<1>1. "overlap" \notin lapses
    BY DEF Orderly
<1>2. \A b \in Agents : ~Rewrites(b)
    BY <1>1, Sole DEF IsIdle, Rewrites, Working
<1>3. /\ "cut" \in lapses
      /\ \E r, m \in 1..release :
             /\ r <= m /\ Records(r) /\ p \in FilesToUpdate(state, Release(m))
             /\ m <= task[a].manifest
    BY <1>2 DEF DirectoryInv, Marked, Told
<1>4. release \in 1..Len(Releases) /\ task[a].manifest \in 1..Len(Releases)
    BY DEF RunInv, TypeOK, TasksOK, TaskOK, Told
<1>5. 1..release \subseteq 1..Len(Releases)
    BY <1>4, ClientAssumption
<1> QED
    BY <1>3, <1>4, <1>5, StaysChanged DEF Stale

\* A run that stops where it is: what it leaves is marked, or it has left nothing.
LEMMA CutMarks ==
    ASSUME RunInv, DirectoryInv, NEW a \in Agents, ~IsIdle(a), Advance(a, Idle), Cut(a),
           UNCHANGED <<server, disk, state>>
    PROVE  DirectoryInv'
<1>1. \A b \in Agents : task'[b] = IF b = a THEN Idle ELSE task[b]
    BY DEF Advance, RunInv, TypeOK
<1>2. lapses \subseteq lapses' /\ "cut" \in lapses' /\ (task[a].force => "forced" \in lapses')
    BY DEF Cut
<1>3. Idle.at = "idle"
    BY DEF Idle
<1>4. "overlap" \notin lapses' => \A b \in Agents : task'[b].at = "idle"
    BY <1>1, <1>2, <1>3, Sole
<1>5. "overlap" \notin lapses' => Alone' /\ SaveOpens'
    BY <1>4 DEF Alone, SaveOpens, IsIdle
<1>6. lapses' \cap {"overlap", "rollback"} = {} => Onward'
    <2> SUFFICES ASSUME lapses' \cap {"overlap", "rollback"} = {} PROVE Onward'
        OBVIOUS
    <2>1. Onward
        BY <1>2 DEF DirectoryInv
    <2>2. \A b \in Agents : task'[b].at \notin Told
        BY <1>4 DEF Told
    <2> QED
        BY <2>1, <2>2 DEF Onward, HasState, Records, server
<1>7. Orderly' => Brought' /\ Planned' /\ Marked'
    <2> SUFFICES ASSUME Orderly' PROVE Brought' /\ Planned' /\ Marked'
        OBVIOUS
    <2>1. /\ lapses' = {"cut"} /\ Orderly /\ lapses \cap {"overlap", "rollback"} = {}
          /\ ~task[a].force
        BY <1>2 DEF Orderly
    <2>2. \A b \in Agents : task'[b].at = "idle"
        BY <1>4, <2>1
    <2>3. Brought' /\ Planned'
        BY <2>2 DEF Brought, Planned, Rewrites, Working
    <2>4. Marked'
        <3> SUFFICES ASSUME NEW p \in Bundle, Stale(p)
                     PROVE  \E r, m \in 1..release :
                                r <= m /\ Records(r) /\ p \in FilesToUpdate(state, Release(m))
            BY <2>1, <2>2 DEF Marked, Stale, HasState, Records, server, Told
        <3>1. CASE Rewrites(a)
            <4>1. p \in FilesToUpdate(state, Release(task[a].manifest))
                BY <2>1, <3>1 DEF DirectoryInv, Planned
            <4>2. /\ task[a].at \in Told /\ task[a].manifest <= release
                  /\ \E r \in 1..release : Records(r) /\ r <= task[a].manifest
                BY <2>1, <3>1 DEF DirectoryInv, Onward, Rewrites, Working, Told, Stale
            <4>3. task[a].manifest \in 1..Len(Releases) /\ release \in 1..Len(Releases)
                BY <4>2 DEF RunInv, TypeOK, TasksOK, TaskOK
            <4>4. task[a].manifest \in 1..release
                BY <4>2, <4>3, ClientAssumption
            <4> QED
                BY <4>1, <4>2, <4>4
        <3>2. CASE ~Rewrites(a)
            <4>1. \A b \in Agents : ~Rewrites(b)
                BY <2>1, <3>2, Sole DEF Rewrites, Working
            <4> QED
                BY <2>1, <4>1 DEF DirectoryInv, Marked
        <3> QED
            BY <3>1, <3>2
    <2> QED
        BY <2>3, <2>4
<1> QED
    BY <1>5, <1>6, <1>7 DEF DirectoryInv

\* A run stops that has written nothing of the bundle.
LEMMA LeavesDirectory ==
    ASSUME RunInv, DirectoryInv, NEW a \in Agents, ~IsIdle(a), ~Rewrites(a), Advance(a, Idle),
           UNCHANGED <<server, disk, state, lapses>>
    PROVE  DirectoryInv'
<1>1. \A b \in Agents : task'[b] = IF b = a THEN Idle ELSE task[b]
    BY DEF Advance, RunInv, TypeOK
<1>2. Idle.at = "idle"
    BY DEF Idle
<1>3. "overlap" \notin lapses => \A b \in Agents : task'[b].at = "idle"
    BY <1>1, <1>2, Sole
<1>4. "overlap" \notin lapses => Alone' /\ SaveOpens'
    BY <1>3 DEF Alone, SaveOpens, IsIdle
<1>5. lapses \cap {"overlap", "rollback"} = {} => Onward'
    BY <1>3 DEF DirectoryInv, Onward, HasState, Records, server, Told
<1>6. Orderly => Brought' /\ Planned' /\ Marked'
    <2> SUFFICES ASSUME Orderly PROVE Brought' /\ Planned' /\ Marked'
        OBVIOUS
    <2>1. "overlap" \notin lapses
        BY DEF Orderly
    <2>2. \A b \in Agents : task'[b].at = "idle"
        BY <1>3, <2>1
    <2>3. \A b \in Agents : ~Rewrites(b)
        BY <2>1, Sole DEF Rewrites, Working
    <2>4. Brought' /\ Planned'
        BY <2>2 DEF Brought, Planned, Rewrites, Working
    <2>5. Marked'
        BY <2>2, <2>3 DEF DirectoryInv, Marked, Stale, HasState, Records, server, Told
    <2> QED
        BY <2>4, <2>5
<1> QED
    BY <1>4, <1>5, <1>6 DEF DirectoryInv, Orderly

LEMMA StartDirectory ==
    ASSUME RunInv, DirectoryInv, NEW a \in Agents, NEW command \in {"sync", "self-update"},
           NEW force \in BOOLEAN, Start(a, command, force)
    PROVE  DirectoryInv'
<1> DEFINE t == [Idle EXCEPT !.at = "manifest", !.command = command, !.force = force]
<1>1. t.at = "manifest"
    BY DEF Idle
<1>2. \A b \in Agents : task'[b] = IF b = a THEN t ELSE task[b]
    BY DEF Start, Advance, RunInv, TypeOK
<1> HIDE DEF t
<1>3. UNCHANGED <<release, disk, state>> /\ lapses \subseteq lapses' /\ task[a].at = "idle"
    BY DEF Start, server, IsIdle
<1>4. "overlap" \notin lapses' => lapses' = lapses /\ \A b \in Agents : task[b].at = "idle"
    BY <1>3 DEF Start, IsIdle
<1>5. "overlap" \notin lapses' => \A b \in Agents : task'[b].at # "idle" => b = a
    BY <1>2, <1>4
<1>6. "overlap" \notin lapses' => \A b \in Agents : task'[b].at \in {"idle", "manifest"}
    BY <1>1, <1>2, <1>4
<1>7. "overlap" \notin lapses' => Alone' /\ SaveOpens'
    BY <1>5, <1>6 DEF Alone, SaveOpens, IsIdle
<1>8. lapses' \cap {"overlap", "rollback"} = {} => Onward'
    BY <1>3, <1>4, <1>6 DEF DirectoryInv, Onward, HasState, Records, Told
<1>9. Orderly' => Brought' /\ Planned' /\ Marked'
    <2> SUFFICES ASSUME Orderly' PROVE Brought' /\ Planned' /\ Marked'
        OBVIOUS
    <2>1. "overlap" \notin lapses' /\ lapses' = lapses /\ Orderly
        BY <1>4 DEF Orderly
    <2>2. \A b \in Agents : task'[b].at \in {"idle", "manifest"} /\ task[b].at = "idle"
        BY <1>4, <1>6, <2>1
    <2>3. Brought' /\ Planned'
        BY <2>2 DEF Brought, Planned, Rewrites, Working
    <2>4. Marked'
        BY <1>3, <2>1, <2>2 DEF DirectoryInv, Marked, Stale, HasState, Records, Told, Rewrites,
                                Working
    <2> QED
        BY <2>3, <2>4
<1> QED
    BY <1>7, <1>8, <1>9 DEF DirectoryInv

LEMMA FetchManifestDirectory ==
    ASSUME RunInv, DirectoryInv, NEW a \in Agents, FetchManifest(a)
    PROVE  DirectoryInv'
<1>1. /\ task[a] \in Task /\ task[a].at = "manifest" /\ release \in 1..Len(Releases)
      /\ UNCHANGED <<server, disk, state, cuts, lapses>>
    BY DEF FetchManifest, RunInv, TypeOK
<1> DEFINE t == [task[a] EXCEPT !.manifest = release, !.at = "load"]
           u == [task[a] EXCEPT !.manifest = release, !.pending = ToolFiles,
                                !.tooling = TRUE, !.at = "pick"]
<1>2. t.at = "load" /\ t.manifest = release
    BY <1>1 DEF Task
<1>3. u.at = "pick" /\ u.manifest = release /\ u.command = task[a].command /\ u.pending = ToolFiles
    BY <1>1 DEF Task
<1>4. \/ Advance(a, t)
      \/ Advance(a, u) /\ task[a].command = "self-update"
    BY <1>1 DEF FetchManifest, Task
<1> HIDE DEF t, u
<1>5. /\ \A b \in Agents : b # a => task'[b] = task[b]
      /\ task'[a].manifest = release /\ task'[a].at \in {"load", "pick"}
      /\ task'[a].at = "pick" => task'[a].command = "self-update" /\ task'[a].pending = ToolFiles
    BY <1>2, <1>3, <1>4 DEF Advance, RunInv, TypeOK
<1>6. "overlap" \notin lapses =>
          \A b \in Agents : b # a => task[b].at = "idle" /\ task'[b].at = "idle"
    BY <1>1, <1>5, Sole DEF IsIdle
<1>7. "overlap" \notin lapses => Alone' /\ SaveOpens'
    BY <1>5, <1>6 DEF Alone, SaveOpens, IsIdle
<1>8. lapses \cap {"overlap", "rollback"} = {} => Onward'
    <2> SUFFICES ASSUME lapses \cap {"overlap", "rollback"} = {} PROVE Onward'
        OBVIOUS
    <2>1. Onward /\ \A b \in Agents : task'[b].at \in Told => task'[b].manifest = release
        BY <1>5, <1>6 DEF DirectoryInv, Told
    <2>2. release' = release /\ state' = state
        BY <1>1 DEF server
    <2>3. release <= release /\ \A r \in 1..release : r <= release
        BY <1>1
    <2> QED
        BY <2>1, <2>2, <2>3 DEF Onward, HasState, Records
<1>9. Orderly => Brought' /\ Planned' /\ Marked'
    <2> SUFFICES ASSUME Orderly PROVE Brought' /\ Planned' /\ Marked'
        OBVIOUS
    <2>1. "overlap" \notin lapses
        BY DEF Orderly
    <2>2. \A b \in Agents : b # a => task[b].at = "idle" /\ task'[b].at = "idle"
        BY <1>6, <2>1
    <2>3. \A b \in Agents : ~Rewrites(b)
        BY <1>1, <2>2 DEF Rewrites, Working
    <2>4. Brought'
        BY <1>1, <1>5, <2>2 DEF Brought, Working
    <2>5. Planned'
        BY <1>5, <2>2 DEF Planned, Rewrites, Working
    <2>6. \A b \in Agents : task'[b].at \in Told => task'[b].manifest = release
        BY <1>5, <2>2 DEF Told
    <2>7. \A m \in 1..release : m <= release
        BY <1>1
    <2>8. Marked'
        BY <1>1, <2>3, <2>6, <2>7 DEF DirectoryInv, Marked, Stale, HasState, Records, server
    <2> QED
        BY <2>4, <2>5, <2>8
<1> QED
    BY <1>1, <1>7, <1>8, <1>9 DEF DirectoryInv, Orderly

\* A plan: what it leaves out is as its manifest says.
LEMMA LoadStateDirectory ==
    ASSUME ReleasesGoForward, RunInv, DirectoryInv, NEW a \in Agents, LoadState(a)
    PROVE  DirectoryInv'
<1>1. task[a].at = "load" /\ UNCHANGED <<server, disk, state, cuts, lapses>>
    BY DEF LoadState
<1>2. Advance(a, Idle) \/ (state # Torn /\ Advance(a, Loaded(a)))
    BY DEF LoadState, Loaded
<1>3. CASE Advance(a, Idle)
    BY <1>1, <1>3, LeavesDirectory DEF IsIdle, Rewrites, Working
<1>4. CASE state # Torn /\ Advance(a, Loaded(a))
    <2> DEFINE t == Loaded(a)
    <2>1. /\ t.at = "pick" /\ t.command = "sync"
          /\ t.manifest = task[a].manifest /\ t.force = task[a].force
          /\ t.manifest \in 1..Len(Releases)
          /\ t.pending \cap Bundle = IF task[a].force THEN Bundle
                                     ELSE FilesToUpdate(state, Release(t.manifest))
          /\ t.tooling => ToolFiles \subseteq t.pending
        BY <1>1, <1>4, LoadedIsTask
    <2>2. \A b \in Agents : task'[b] = IF b = a THEN t ELSE task[b]
        BY <1>4 DEF Advance, RunInv, TypeOK
    <2> HIDE DEF t
    <2>3. "overlap" \notin lapses => \A b \in Agents : b # a => task'[b].at = "idle"
        BY <1>1, <2>2, Sole DEF IsIdle
    <2>4. "overlap" \notin lapses => Alone' /\ SaveOpens'
        BY <2>1, <2>2, <2>3 DEF Alone, SaveOpens, IsIdle
    <2>5. \A b \in Agents : task'[b].at \in Told =>
              task[b].at \in Told /\ task'[b].manifest = task[b].manifest
        BY <1>1, <2>1, <2>2 DEF Told
    <2>6. lapses \cap {"overlap", "rollback"} = {} => Onward'
        BY <1>1, <2>5 DEF DirectoryInv, Onward, HasState, Records, server
    <2>7. ASSUME Orderly PROVE Brought' /\ Planned' /\ Marked'
        <3>1. "overlap" \notin lapses
            BY <2>7 DEF Orderly
        <3>2. \A b \in Agents : b # a => task'[b].at = "idle"
            BY <2>3, <3>1
        <3>3. task'[a] = t
            BY <2>2
        <3>4. \A p \in Bundle : Stale(p) => p \in FilesToUpdate(state, Release(t.manifest))
            BY <1>1, <2>1, <2>7, PlanSeesStale
        <3>5. ASSUME NEW p \in Bundle, p \notin t.pending
              PROVE  disk[p] = Due(t, p)
            <4>1. p \notin FilesToUpdate(state, Release(t.manifest)) /\ ~task[a].force
                BY <2>1, <3>5
            <4>2. HasState /\ state.files[p] = Due(t, p)
                BY <1>4, <4>1 DEF FilesToUpdate, HasState, Due
            <4> QED
                BY <3>4, <4>1, <4>2 DEF Stale
        <3>6. Brought'
            BY <1>1, <2>1, <3>2, <3>3, <3>5 DEF Brought, Working, Due
        <3>7. Planned'
            BY <1>1, <2>1, <3>2, <3>3, <3>4 DEF Planned, Rewrites, Working, Stale, HasState
        <3>8. Marked'
            BY <2>1, <3>3 DEF Marked, Rewrites, Working
        <3> QED
            BY <3>6, <3>7, <3>8
    <2> QED
        BY <1>1, <2>4, <2>6, <2>7 DEF DirectoryInv, Orderly
<1> QED
    BY <1>2, <1>3, <1>4

\* A run that goes on with what it has planned: what it has brought, and what it has
\* still to bring, is all there is to see to.
LEMMA WorkDirectory ==
    ASSUME RunInv, DirectoryInv, NEW a \in Agents, NEW t, Advance(a, t),
           task[a].at \in Working, t.at \in Working,
           t.manifest = task[a].manifest, t.command = task[a].command,
           t.force = task[a].force, t.tooling = task[a].tooling,
           UNCHANGED <<server, lapses>>,
           state' = state \/ state' = Torn,
           t.at = "save" => state' = Torn,
           t.command # "sync" => state' = state /\ \A p \in Bundle : disk'[p] = disk[p],
           Orderly => /\ \A p \in Bundle \ t.pending : t.command = "sync" => disk'[p] = Due(t, p)
                      /\ \A p \in ToolFiles \ t.pending : t.tooling => disk'[p] = Due(t, p),
           Orderly /\ t.command = "sync" /\ ~t.force =>
               /\ t.at # "save" =>
                      t.pending \cap Bundle \subseteq FilesToUpdate(state', Release(t.manifest))
               /\ \A p \in Bundle : HasState' /\ disk'[p] # state'.files[p] =>
                      p \in FilesToUpdate(state', Release(t.manifest))
    PROVE  DirectoryInv'
<1>1. \A b \in Agents : task'[b] = IF b = a THEN t ELSE task[b]
    BY DEF Advance, RunInv, TypeOK
<1>2. /\ task'[a] = t
      /\ "overlap" \notin lapses =>
             \A b \in Agents : b # a => task[b].at = "idle" /\ task'[b].at = "idle"
    BY <1>1, Sole DEF IsIdle, Working
<1>3. "overlap" \notin lapses => Alone' /\ SaveOpens'
    BY <1>2 DEF Alone, SaveOpens, IsIdle
<1>4. \A b \in Agents : task'[b].at \in Told =>
          task[b].at \in Told /\ task'[b].manifest = task[b].manifest
    BY <1>1 DEF Told, Working
<1>5. HasState' => HasState /\ state' = state
    BY DEF HasState
<1>6. lapses \cap {"overlap", "rollback"} = {} => Onward'
    BY <1>4, <1>5 DEF DirectoryInv, Onward, Records, server
<1>7. ASSUME Orderly PROVE Brought' /\ Planned' /\ Marked'
    <2>1. "overlap" \notin lapses
        BY <1>7 DEF Orderly
    <2>2. \A b \in Agents : b # a => task[b].at = "idle" /\ task'[b].at = "idle"
        BY <1>2, <2>1
    <2>3. Brought'
        BY <1>2, <1>7, <2>2 DEF Brought, Working, Due
    <2>4. Planned'
        BY <1>2, <1>7, <2>2 DEF Planned, Rewrites, Working, Stale, HasState
    <2>5. Marked'
        <3>1. CASE t.command = "sync"
            BY <1>2, <3>1 DEF Marked, Rewrites
        <3>2. CASE t.command # "sync"
            <4>1. \A b \in Agents : ~Rewrites(b)
                BY <2>2, <3>2 DEF Rewrites, Working
            <4>2. Marked
                BY <1>7 DEF DirectoryInv
            <4> QED
                BY <1>4, <3>2, <4>1, <4>2
                DEF Marked, Stale, HasState, Records, server
        <3> QED
            BY <3>1, <3>2
    <2> QED
        BY <2>3, <2>4, <2>5
<1> QED
    BY <1>3, <1>6, <1>7 DEF DirectoryInv, Orderly

LEMMA SkipToolDirectory ==
    ASSUME RunInv, DirectoryInv, NEW a \in Agents, SkipTool(a)
    PROVE  DirectoryInv'
<1>1. task[a].at = "pick" /\ UNCHANGED <<server, disk, state, cuts, lapses>>
    BY DEF SkipTool
<1>2. PICK p \in ToolFiles : /\ disk[p] = Expected(a, p)
                             /\ Advance(a, [task[a] EXCEPT !.pending = @ \ {p}])
    BY DEF SkipTool
<1>3. task[a] \in Task
    BY DEF RunInv, TypeOK
<1>4. PICK t : /\ Advance(a, t) /\ t.at = "pick" /\ t.manifest = task[a].manifest
               /\ t.command = task[a].command /\ t.force = task[a].force
               /\ t.tooling = task[a].tooling /\ t.pending = task[a].pending \ {p}
    BY <1>1, <1>2, <1>3 DEF Task
<1>5. p \notin Bundle /\ disk[p] = Due(t, p)
    BY <1>2, <1>4, PathsApart DEF Expected, Due
<1>6. Orderly => Brought /\ Planned
    BY DEF DirectoryInv
<1>7. Orderly => /\ \A q \in Bundle \ t.pending : t.command = "sync" => disk'[q] = Due(t, q)
                 /\ \A q \in ToolFiles \ t.pending : t.tooling => disk'[q] = Due(t, q)
    BY <1>1, <1>4, <1>5, <1>6 DEF Brought, Working, Due
<1>8. Orderly /\ t.command = "sync" /\ ~t.force =>
          /\ t.pending \cap Bundle \subseteq FilesToUpdate(state, Release(t.manifest))
          /\ \A q \in Bundle : Stale(q) => q \in FilesToUpdate(state, Release(t.manifest))
    BY <1>1, <1>4, <1>6 DEF Planned, Rewrites, Working
<1> QED
    BY <1>1, <1>4, <1>7, <1>8, WorkDirectory DEF Working, Stale, HasState

LEMMA FetchDirectory ==
    ASSUME RunInv, DirectoryInv, NEW a \in Agents, Fetch(a)
    PROVE  DirectoryInv'
<1>1. task[a].at = "pick" /\ UNCHANGED <<server, disk, state, cuts>>
    BY FetchCases
<1>2. CASE Advance(a, Idle) /\ Cut(a)
    BY <1>1, <1>2, CutMarks DEF IsIdle
<1>3. ASSUME lapses' = lapses, NEW p \in task[a].pending,
             Release(release).files[p] = Expected(a, p), Advance(a, Fetched(a, p))
      PROVE  DirectoryInv'
    <2>1. PICK t : /\ Advance(a, t) /\ t.at = "open" /\ t.manifest = task[a].manifest
                   /\ t.command = task[a].command /\ t.force = task[a].force
                   /\ t.tooling = task[a].tooling /\ t.pending = task[a].pending
        BY <1>1, <1>3, FetchedIsTask
    <2>2. Orderly => Brought /\ Planned
        BY DEF DirectoryInv
    <2>3. Orderly => /\ \A q \in Bundle \ t.pending : t.command = "sync" => disk'[q] = Due(t, q)
                     /\ \A q \in ToolFiles \ t.pending : t.tooling => disk'[q] = Due(t, q)
        BY <1>1, <2>1, <2>2 DEF Brought, Working, Due
    <2>4. Orderly /\ t.command = "sync" /\ ~t.force =>
              /\ t.pending \cap Bundle \subseteq FilesToUpdate(state, Release(t.manifest))
              /\ \A q \in Bundle : Stale(q) => q \in FilesToUpdate(state, Release(t.manifest))
        BY <1>1, <2>1, <2>2 DEF Planned, Rewrites, Working
    <2> QED
        BY <1>1, <1>3, <2>1, <2>3, <2>4, WorkDirectory DEF Working, Stale, HasState
<1> QED
    BY <1>2, <1>3, FetchCases

\* The file that is written is out of date, or of the tool.
LEMMA WrittenIsDue ==
    ASSUME RunInv, DirectoryInv, Orderly, NEW a \in Agents, task[a].at \in {"open", "fill"}
    PROVE  /\ task[a].path \in task[a].pending /\ task[a].path \in Paths
           /\ task[a].command # "sync" => task[a].path \notin Bundle
           /\ task[a].command = "sync" /\ ~task[a].force /\ task[a].path \in Bundle =>
                  task[a].path \in FilesToUpdate(state, Release(task[a].manifest))
<1>1. /\ task[a] \in Task /\ task[a].path \in task[a].pending
      /\ task[a].command = "self-update" => task[a].pending \subseteq ToolFiles
    BY DEF RunInv, TypeOK, TasksOK, TaskOK
<1>2. task[a].command \in {"sync", "self-update"} /\ task[a].path \in Paths
    BY <1>1 DEF Task
<1>3. task[a].command = "sync" /\ ~task[a].force =>
          task[a].pending \cap Bundle \subseteq FilesToUpdate(state, Release(task[a].manifest))
    BY DEF DirectoryInv, Planned, Rewrites, Working
<1> QED
    BY <1>1, <1>2, <1>3, PathsApart

LEMMA OpenDirectory ==
    ASSUME RunInv, DirectoryInv, NEW a \in Agents, Open(a)
    PROVE  DirectoryInv'
<1>1. /\ task[a] \in Task /\ task[a].at = "open" /\ disk \in [Paths -> Contents]
      /\ UNCHANGED <<server, state, cuts, lapses>>
    BY DEF Open, RunInv, TypeOK
<1>2. \A q \in Paths : disk'[q] = IF q = task[a].path THEN Torn ELSE disk[q]
    BY <1>1 DEF Open
<1>3. PICK t : /\ Advance(a, t) /\ t.at = "fill" /\ t.manifest = task[a].manifest
               /\ t.command = task[a].command /\ t.force = task[a].force
               /\ t.tooling = task[a].tooling /\ t.pending = task[a].pending
    BY <1>1 DEF Open, Task
<1>4. Orderly => Brought /\ Planned
    BY DEF DirectoryInv
<1>5. /\ task[a].path \in task[a].pending
      /\ task[a].command # "sync" => task[a].path \notin Bundle
    <2>1. task[a].command = "self-update" => task[a].pending \subseteq ToolFiles
        BY DEF RunInv, TasksOK, TaskOK
    <2>2. task[a].path \in task[a].pending
        BY <1>1 DEF RunInv, TasksOK, TaskOK
    <2> QED
        BY <1>1, <2>1, <2>2, PathsApart DEF Task
<1>6. Orderly => /\ \A q \in Bundle \ t.pending : t.command = "sync" => disk'[q] = Due(t, q)
                 /\ \A q \in ToolFiles \ t.pending : t.tooling => disk'[q] = Due(t, q)
    BY <1>1, <1>2, <1>3, <1>4, <1>5, PathsApart DEF Brought, Working, Due
<1>7. Orderly /\ t.command = "sync" /\ ~t.force =>
          /\ t.pending \cap Bundle \subseteq FilesToUpdate(state, Release(t.manifest))
          /\ \A q \in Bundle : HasState /\ disk'[q] # state.files[q] =>
                 q \in FilesToUpdate(state, Release(t.manifest))
    BY <1>1, <1>2, <1>3, <1>4, WrittenIsDue, PathsApart
    DEF Planned, Rewrites, Working, Stale
<1>8. t.command # "sync" => \A q \in Bundle : disk'[q] = disk[q]
    BY <1>2, <1>3, <1>5, PathsApart
<1> QED
    BY <1>1, <1>3, <1>6, <1>7, <1>8, WorkDirectory DEF Working, HasState

LEMMA FillDirectory ==
    ASSUME RunInv, DirectoryInv, NEW a \in Agents, Fill(a)
    PROVE  DirectoryInv'
<1>1. /\ task[a] \in Task /\ task[a].at = "fill" /\ disk \in [Paths -> Contents]
      /\ UNCHANGED <<server, state, cuts, lapses>>
    BY DEF Fill, RunInv, TypeOK
<1>2. \A q \in Paths : disk'[q] = IF q = task[a].path THEN task[a].content ELSE disk[q]
    BY <1>1 DEF Fill
<1>3. PICK t : /\ Advance(a, t) /\ t.at = "pick" /\ t.manifest = task[a].manifest
               /\ t.command = task[a].command /\ t.force = task[a].force
               /\ t.tooling = task[a].tooling /\ t.pending = task[a].pending \ {task[a].path}
    BY <1>1, FilledIsTask DEF Fill, Filled
<1>4. Orderly => Brought /\ Planned
    BY DEF DirectoryInv
<1>5. /\ task[a].path \in task[a].pending
      /\ task[a].command # "sync" => task[a].path \notin Bundle
      /\ task[a].content = Due(t, task[a].path)
    <2>1. task[a].command = "self-update" => task[a].pending \subseteq ToolFiles
        BY DEF RunInv, TasksOK, TaskOK
    <2>2. task[a].path \in task[a].pending /\ task[a].content = Due(t, task[a].path)
        BY <1>1, <1>3, FilledIsTask DEF Due
    <2> QED
        BY <1>1, <2>1, <2>2, PathsApart DEF Task
<1>6. Orderly => /\ \A q \in Bundle \ t.pending : t.command = "sync" => disk'[q] = Due(t, q)
                 /\ \A q \in ToolFiles \ t.pending : t.tooling => disk'[q] = Due(t, q)
    BY <1>1, <1>2, <1>3, <1>4, <1>5, PathsApart DEF Brought, Working, Due
<1>7. Orderly /\ t.command = "sync" /\ ~t.force =>
          /\ t.pending \cap Bundle \subseteq FilesToUpdate(state, Release(t.manifest))
          /\ \A q \in Bundle : HasState /\ disk'[q] # state.files[q] =>
                 q \in FilesToUpdate(state, Release(t.manifest))
    BY <1>1, <1>2, <1>3, <1>4, WrittenIsDue, PathsApart
    DEF Planned, Rewrites, Working, Stale
<1>8. t.command # "sync" => \A q \in Bundle : disk'[q] = disk[q]
    BY <1>2, <1>3, <1>5, PathsApart
<1> QED
    BY <1>1, <1>3, <1>6, <1>7, <1>8, WorkDirectory DEF Working, HasState

LEMMA OpenStateDirectory ==
    ASSUME RunInv, DirectoryInv, NEW a \in Agents, OpenState(a)
    PROVE  DirectoryInv'
<1>1. /\ task[a] \in Task /\ task[a].at = "pick"
      /\ UNCHANGED <<server, disk, cuts, lapses>>
    BY DEF OpenState, RunInv, TypeOK
<1>2. CASE task[a].command # "sync"
    <2>1. Advance(a, Idle) /\ state' = state
        BY <1>2 DEF OpenState
    <2> QED
        BY <1>1, <1>2, <2>1, LeavesDirectory DEF IsIdle, Rewrites
<1>3. CASE task[a].command = "sync"
    <2>1. PICK t : /\ Advance(a, t) /\ t.at = "save" /\ t.manifest = task[a].manifest
                   /\ t.command = "sync" /\ t.force = task[a].force
                   /\ t.tooling = task[a].tooling /\ t.pending = task[a].pending
        BY <1>1, <1>3 DEF OpenState, Task
    <2>2. state' = Torn /\ ~HasState'
        BY <1>3 DEF OpenState, HasState
    <2>3. Orderly => Brought
        BY DEF DirectoryInv
    <2>4. Orderly => /\ \A q \in Bundle \ t.pending : t.command = "sync" => disk'[q] = Due(t, q)
                     /\ \A q \in ToolFiles \ t.pending : t.tooling => disk'[q] = Due(t, q)
        BY <1>1, <1>3, <2>1, <2>3 DEF Brought, Working, Due
    <2> QED
        BY <1>1, <1>3, <2>1, <2>2, <2>4, WorkDirectory DEF Working
<1> QED
    BY <1>2, <1>3

\* The state file speaks of the directory as the run has brought it.
LEMMA SaveStateDirectory ==
    ASSUME RunInv, DirectoryInv, NEW a \in Agents, SaveState(a)
    PROVE  DirectoryInv'
<1>1. Advance(a, Idle) /\ UNCHANGED <<server, disk, cuts, lapses>>
    BY DEF SaveState
<1>2. PICK m \in 1..Len(Releases) : m = task[a].manifest
    BY SaveStateSays
<1>3. /\ task[a].at = "save" /\ task[a].pending = {} /\ task[a].command = "sync"
      /\ state'.skill = Release(m).skill /\ state'.schema = Release(m).schema
      /\ \A p \in Bundle : /\ state'.files[p] = Release(m).files[p]
                           /\ Due(task[a], p) = Release(m).files[p]
    BY <1>2, SaveStateSays DEF Due
<1>4. \A b \in Agents : task'[b] = IF b = a THEN Idle ELSE task[b]
    BY <1>1 DEF Advance, RunInv, TypeOK
<1>5. Idle.at = "idle"
    BY DEF Idle
<1>6. "overlap" \notin lapses => \A b \in Agents : task'[b].at = "idle"
    BY <1>3, <1>4, <1>5, Sole DEF IsIdle
<1>7. "overlap" \notin lapses => Alone' /\ SaveOpens'
    BY <1>6 DEF Alone, SaveOpens, IsIdle
<1>8. lapses \cap {"overlap", "rollback"} = {} => Onward'
    <2> SUFFICES ASSUME lapses \cap {"overlap", "rollback"} = {} PROVE Onward'
        OBVIOUS
    <2>1. m <= release
        BY <1>2, <1>3 DEF DirectoryInv, Onward, Told
    <2>2. m \in 1..release'
        BY <1>1, <2>1, ClientAssumption DEF server, RunInv, TypeOK
    <2>3. \A b \in Agents : task'[b].at \notin Told
        BY <1>6 DEF Told
    <2>4. Records(m)'
        BY <1>3 DEF Records
    <2> QED
        BY <2>2, <2>3, <2>4 DEF Onward
<1>9. ASSUME Orderly PROVE Brought' /\ Planned' /\ Marked'
    <2>1. \A b \in Agents : task'[b].at = "idle"
        BY <1>6, <1>9 DEF Orderly
    <2>2. Brought' /\ Planned'
        BY <2>1 DEF Brought, Planned, Rewrites, Working
    <2>3. \A p \in Bundle : disk'[p] = state'.files[p]
        BY <1>1, <1>3, <1>9 DEF DirectoryInv, Brought, Working
    <2>4. Marked'
        BY <2>3 DEF Marked, Stale
    <2> QED
        BY <2>2, <2>4
<1> QED
    BY <1>1, <1>7, <1>8, <1>9 DEF DirectoryInv, Orderly

\* Another release: the runs and the directory are as they were, and what was read is
\* no newer, unless the release is an older one.
LEMMA DeployDirectory ==
    ASSUME RunInv, DirectoryInv, NEW q \in 1..Len(Releases), Deploy(q)
    PROVE  DirectoryInv'
<1>1. /\ release' = q /\ release \in 1..Len(Releases) /\ lapses \subseteq lapses'
      /\ "rollback" \notin lapses' => release <= q /\ lapses' = lapses
      /\ "overlap" \in lapses' => "overlap" \in lapses
      /\ UNCHANGED <<scene, disk, state, task, cuts>>
    BY ClientAssumption DEF Deploy, RunInv, TypeOK
<1>2. "overlap" \notin lapses' => Alone' /\ SaveOpens'
    BY <1>1 DEF DirectoryInv, Alone, SaveOpens, IsIdle
<1>3. release <= q => 1..release \subseteq 1..q
    BY <1>1, ClientAssumption
<1>4. lapses' \cap {"overlap", "rollback"} = {} => Onward'
    <2> SUFFICES ASSUME lapses' \cap {"overlap", "rollback"} = {} PROVE Onward'
        OBVIOUS
    <2>1. Onward /\ release <= q
        BY <1>1 DEF DirectoryInv
    <2>2. \A b \in Agents : task[b].at \in Told => task[b].manifest \in 1..Len(Releases)
        BY DEF RunInv, TasksOK, TaskOK
    <2>3. \A b \in Agents : task[b].at \in Told => task[b].manifest <= q
        BY <1>1, <2>1, <2>2, ClientAssumption DEF Onward
    <2> QED
        BY <1>1, <1>3, <2>1, <2>3 DEF Onward, HasState, Records
<1>5. ASSUME Orderly' PROVE Brought' /\ Planned' /\ Marked'
    <2>1. Orderly
        BY <1>1, <1>5 DEF Orderly
    <2>2. Brought' /\ Planned'
        BY <1>1, <2>1 DEF DirectoryInv, Brought, Planned, Rewrites, Stale, HasState, Due
    <2>3. Marked'
        <3>1. CASE "rollback" \in lapses'
            <4>1. lapses' = {"rollback"} /\ "cut" \notin lapses
                BY <1>1, <1>5, <3>1 DEF Orderly
            <4> QED
                BY <1>1, <2>1, <4>1 DEF DirectoryInv, Marked, Stale, HasState, Rewrites
        <3>2. CASE "rollback" \notin lapses'
            BY <1>1, <1>3, <2>1, <3>2 DEF DirectoryInv, Marked, Stale, HasState, Rewrites, Records
        <3> QED
            BY <3>1, <3>2
    <2> QED
        BY <2>2, <2>3
<1> QED
    BY <1>2, <1>4, <1>5 DEF DirectoryInv

LEMMA BootstrapDirectory ==
    ASSUME RunInv, DirectoryInv, NEW a \in Agents, Bootstrap(a)
    PROVE  DirectoryInv'
<1>1. /\ IsIdle(a) /\ UNCHANGED <<server, state, task, cuts>> /\ lapses \subseteq lapses'
      /\ "overlap" \notin lapses' => lapses' = lapses /\ \A b \in Agents : task[b].at = "idle"
    BY DEF Bootstrap, IsIdle
<1>2. \A p \in Bundle : disk'[p] = disk[p]
    BY PathsApart DEF Bootstrap
<1>3. "overlap" \notin lapses' => Alone' /\ SaveOpens'
    BY <1>1 DEF Alone, SaveOpens, IsIdle
<1>4. lapses' \cap {"overlap", "rollback"} = {} => Onward'
    BY <1>1 DEF DirectoryInv, Onward, HasState, Records, server
<1>5. ASSUME Orderly' PROVE Brought' /\ Planned' /\ Marked'
    <2>1. Orderly /\ \A b \in Agents : task[b].at = "idle"
        BY <1>1, <1>5 DEF Orderly
    <2>2. Brought' /\ Planned'
        BY <1>1, <2>1 DEF Brought, Planned, Rewrites, Working
    <2>3. Marked'
        BY <1>1, <1>2, <1>5, <2>1
        DEF DirectoryInv, Marked, Stale, HasState, Records, server, Rewrites, Orderly
    <2> QED
        BY <2>2, <2>3
<1> QED
    BY <1>3, <1>4, <1>5 DEF DirectoryInv

LEMMA NextDirectory ==
    ASSUME ReleasesGoForward, RunInv, DirectoryInv, [Next]_vars
    PROVE  DirectoryInv'
<1>1. ASSUME NEW a \in Agents, Step(a) PROVE DirectoryInv'
    BY <1>1, FetchManifestDirectory, LoadStateDirectory, SkipToolDirectory, FetchDirectory,
       OpenDirectory, FillDirectory, OpenStateDirectory, SaveStateDirectory DEF Step
<1>2. ASSUME NEW a \in Agents, Call(a) PROVE DirectoryInv'
    BY <1>2, StartDirectory DEF Call
<1>3. ASSUME NEW a \in Agents, NEW cmd \in {"sync", "self-update"}, NEW force \in BOOLEAN,
             Invoke(a, cmd, force)
      PROVE  DirectoryInv'
    BY <1>3, StartDirectory DEF Invoke
<1>4. ASSUME NEW a \in Agents, CutOff(a) PROVE DirectoryInv'
    BY <1>4, CutMarks DEF CutOff
<1>5. CASE UNCHANGED vars
    BY <1>5 DEF vars, server, DirectoryInv, Alone, SaveOpens, Onward, Brought, Planned, Marked,
                Orderly, Rewrites, Stale, Records, HasState, IsIdle
<1> QED
    BY <1>1, <1>2, <1>3, <1>4, <1>5, DeployDirectory, BootstrapDirectory DEF Next

LEMMA InitDirectory == Init => DirectoryInv
<1> SUFFICES ASSUME Init PROVE DirectoryInv
    OBVIOUS
<1>1. \A a \in Agents : task[a].at = "idle"
    BY IdleIsTask DEF Init
<1>2. ~HasState
    BY DEF Init, HasState
<1> QED
    BY <1>1, <1>2 DEF DirectoryInv, Alone, SaveOpens, Onward, Brought, Planned, Marked, Rewrites,
                      Working, Told, IsIdle, Stale

LEMMA DirectoryInvariant == ReleasesGoForward => (Spec => [](RunInv /\ DirectoryInv))
<1> SUFFICES ASSUME ReleasesGoForward PROVE Spec => [](RunInv /\ DirectoryInv)
    OBVIOUS
<1>1. Init => RunInv /\ DirectoryInv
    BY InitRuns, InitDirectory
<1>2. RunInv /\ DirectoryInv /\ [Next]_vars => (RunInv /\ DirectoryInv)'
    BY NextRuns, NextDirectory
<1> QED
    BY <1>1, <1>2, PTL DEF Spec

-----------------------------------------------------------------------------
(* Theorems.                                                               *)

\* The variables of the directory and its runs keep their types.
THEOREM ClientTypes == Spec => []TypeOK
<1>1. RunInv => TypeOK
    BY DEF RunInv
<1> QED
    BY <1>1, RunsInvariant, PTL

\* What the state file says of the bundle is one release, whatever deployments, other
\* runs and interruptions come between the requests of the run that wrote it, and
\* whatever the releases are (ma3_sync_core.py:229).
THEOREM StateSpeaksOfOneRelease == Spec => []StateIsOneRelease
<1>1. RunInv => StateIsOneRelease
    BY DEF RunInv
<1> QED
    BY <1>1, RunsInvariant, PTL

LEMMA EndBrings ==
    ASSUME RunInv, DirectoryInv, Orderly, NEW a \in Agents, task[a].at = "save"
    PROVE  \A p \in Bundle \cup (IF task[a].tooling THEN ToolFiles ELSE {}) :
               disk[p] = Expected(a, p)
<1>1. Brought /\ task[a].pending = {} /\ task[a].command = "sync"
    BY DEF DirectoryInv, RunInv, TasksOK, TaskOK
<1> QED
    BY <1>1 DEF Brought, Working, Due, Expected

\* A run that ends, with no overlapping one and not both a cut and a rollback before
\* it, has brought every file of the bundle to its manifest, those included that it
\* found to be up to date, and the tool when it saw to that; and what the state file
\* says is one release (ma3_sync_core.py:171).
THEOREM FinishedRunsBringRelease == ReleasesGoForward => (Spec => RunsBringRelease)
<1> SUFFICES ASSUME ReleasesGoForward PROVE Spec => RunsBringRelease
    OBVIOUS
<1>1. RunInv /\ DirectoryInv =>
          [\A a \in Agents :
               Ends(a) /\ Orderly =>
                   \A p \in Bundle \cup (IF task[a].tooling THEN ToolFiles ELSE {}) :
                       disk[p] = Expected(a, p)]_vars
    BY EndBrings DEF Ends
<1>2. RunInv => StateIsOneRelease
    BY DEF RunInv
<1> QED
    BY <1>1, <1>2, DirectoryInvariant, PTL DEF RunsBringRelease, EndsWithRelease

\* When nobody works, each file of the bundle that is not what the state file says is
\* one the next sync fetches, though a run was cut off half-way or an old release came
\* back in between (ma3_sync_core.py:136).
THEOREM StaleFilesAreSeen == ReleasesGoForward => (Spec => []StaleIsSeen)
<1> SUFFICES ASSUME ReleasesGoForward PROVE Spec => []StaleIsSeen
    OBVIOUS
<1>1. RunInv /\ DirectoryInv => StaleIsSeen
    <2> SUFFICES ASSUME RunInv, DirectoryInv, Quiet, HasState, Orderly, NEW p \in Bundle,
                        disk[p] # state.files[p]
                 PROVE  p \in FilesToUpdate(state, Release(release))
        BY DEF StaleIsSeen
    <2>1. \A a \in Agents : ~Rewrites(a)
        BY DEF Quiet, IsIdle, Rewrites, Working
    <2>2. PICK r \in 1..release :
              \E m \in 1..release :
                  r <= m /\ Records(r) /\ p \in FilesToUpdate(state, Release(m))
        BY <2>1 DEF DirectoryInv, Marked, Stale
    <2>3. PICK m \in 1..release :
              r <= m /\ Records(r) /\ p \in FilesToUpdate(state, Release(m))
        BY <2>2
    <2>4. /\ release \in 1..Len(Releases) /\ r \in 1..Len(Releases) /\ m \in 1..Len(Releases)
          /\ m <= release
        BY ClientAssumption DEF RunInv, TypeOK
    <2> QED
        BY <2>3, <2>4, StaysChanged
<1> QED
    BY <1>1, DirectoryInvariant, PTL
=============================================================================
