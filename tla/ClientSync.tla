----------------------------- MODULE ClientSync -----------------------------
(***************************************************************************)
(* The client bundle: the releases a server serves, the files and the      *)
(* state file of one client directory (~/.ma3), and the runs of the sync   *)
(* tool by the agents that share it.                                       *)
(*                                                                         *)
(* A release is a manifest and the files it names; a deployment, forward   *)
(* or back, replaces it between any two requests of a run.  A file and the *)
(* state file are written in place: opened, which empties them, and        *)
(* filled.  A run may be cut off anywhere.  The files themselves are their *)
(* digests.  The template ma3-client.env.example, which no run fetches,    *)
(* and `check', which writes nothing, are left out.                        *)
(***************************************************************************)
EXTENDS Integers, Sequences

CONSTANTS
    Agents,      \* the agents that share the directory
    Tooling,     \* TOOLING_PATHS: the sync tool's own files, in order
    Bundle,      \* the other files of the manifest
    ToolList,    \* mcp-tools.json, one of Bundle
    Releases,    \* Releases[r]: what the server serves after deployment of r
    Torn,        \* a file that was opened and not filled
    Missing,     \* a file that is not there
    Scenes       \* the bounds of a behaviour, one of:
                 \*   agents    the agents at work
                 \*   deploys   deployments after the first
                 \*   cuts      runs that are cut off
                 \*   forced    is --force used?

ToolFiles == {Tooling[i] : i \in 1..Len(Tooling)}
Paths     == ToolFiles \cup Bundle

ASSUME ClientAssumption ==
    /\ Tooling \in Seq(ToolFiles)
    /\ ToolFiles \cap Bundle = {} /\ ToolList \in Bundle
    /\ Len(Releases) \in Nat \ {0}
    /\ \A r \in 1..Len(Releases) :
           /\ Releases[r].files \in [Paths -> Nat]
           /\ Releases[r].skill \in Nat /\ Releases[r].schema \in Nat
    /\ Torn \notin Nat /\ Missing \notin Nat /\ Torn # Missing
    /\ \A s \in Scenes : /\ s.agents \subseteq Agents /\ s.deploys \in Nat
                         /\ s.cuts \in Nat /\ s.forced \in BOOLEAN

VARIABLES
    scene,      \* of Scenes
    release,    \* the release the server serves
    deploys,
    disk,       \* the files of the directory
    state,      \* ma3-client.json
    task,       \* the run of each agent
    cuts,
    lapses      \* history: what has happened that the tool does not see, of
                \*   overlap   two runs at once
                \*   cut       a run ended half-way
                \*   forced    a run with --force ended half-way
                \*   rollback  an older release was deployed

server == <<scene, release, deploys>>
vars   == <<server, disk, state, task, cuts, lapses>>

-----------------------------------------------------------------------------

Release(r) == Releases[r]
Digests    == UNION {{Releases[r].files[p] : p \in Paths} : r \in 1..Len(Releases)}
Versions   == UNION {{Releases[r].skill, Releases[r].schema} : r \in 1..Len(Releases)}
Contents   == Digests \cup {Torn, Missing}

ClientState == [files : [Paths -> Digests \cup {Missing}], skill : Versions,
                schema : Versions, reload : BOOLEAN]

HasState == state # Torn /\ state # Missing

Phases == {"idle", "manifest", "load", "pick", "open", "fill", "save"}

\* manifest: the release whose manifest was read.  pending: the files to go
\* through.  path, content: the one being written.  written, reload: what the
\* state file will say.  tooling: does the run see to the tool's files?
Task == [at : Phases, command : {"sync", "self-update"}, force : BOOLEAN,
         manifest : 0..Len(Releases), pending : SUBSET Paths, path : Paths,
         content : Contents, written : [Paths -> Digests \cup {Missing}],
         tooling : BOOLEAN, reload : BOOLEAN]

Nothing == [p \in Paths |-> Missing]

Idle == [at |-> "idle", command |-> "sync", force |-> FALSE, manifest |-> 0,
         pending |-> {}, path |-> ToolList, content |-> Missing, written |-> Nothing,
         tooling |-> FALSE, reload |-> FALSE]

IsIdle(a) == task[a].at = "idle"

\* The documented bootstrap has fetched the tool; nothing was synced.
Init ==
    /\ scene \in Scenes
    /\ release = 1
    /\ deploys = 0
    /\ disk = [p \in Paths |-> IF p \in ToolFiles THEN Release(1).files[p] ELSE Missing]
    /\ state = Missing
    /\ task = [a \in Agents |-> Idle]
    /\ cuts = 0
    /\ lapses = {}

-----------------------------------------------------------------------------
(* The server.                                                             *)

Deploy(r) ==
    /\ deploys < scene.deploys
    /\ r # release
    /\ release' = r
    /\ deploys' = deploys + 1
    /\ lapses' = IF r < release THEN lapses \cup {"rollback"} ELSE lapses
    /\ UNCHANGED <<scene, disk, state, task, cuts>>

\* build_mcp_server_block: the versions an agent reports make the server ask
\* for a sync when the policy's is older than its own or the tools' is another.
\* (A version below the minimum, which is no newer than the server's own, makes
\* the request no different.)
Asks(r) ==
    /\ HasState
    /\ state.skill < Release(r).skill \/ state.schema # Release(r).schema

-----------------------------------------------------------------------------
(* A run of the tool.                                                      *)

Advance(a, t) == task' = [task EXCEPT ![a] = t]

\* The tool works: each of its files is there and whole.  With one torn, a start
\* does nothing: an empty script ends at once, in silence.
Runs == \A p \in ToolFiles : disk[p] \in Digests

Start(a, command, force) ==
    /\ IsIdle(a) /\ a \in scene.agents
    /\ force => scene.forced
    /\ Runs
    /\ Advance(a, [Idle EXCEPT !.at = "manifest", !.command = command, !.force = force])
    /\ lapses' = IF \E b \in Agents \ {a} : ~IsIdle(b) THEN lapses \cup {"overlap"} ELSE lapses
    /\ UNCHANGED <<server, disk, state, cuts>>

\* An agent syncs when an answer of the server asks for it, or when it has not
\* yet; and it may do so, or with another command, at any time.
Call(a)               == (Asks(release) \/ state = Missing) /\ Start(a, "sync", FALSE)
Invoke(a, cmd, force) == Start(a, cmd, force)

\* A run that ends before it is done, after it has written something or not.
Cut(a) ==
    lapses' = lapses \cup {"cut"} \cup (IF task[a].force THEN {"forced"} ELSE {})

\* fetch_manifest.  `self-update' reads no state.
FetchManifest(a) ==
    /\ task[a].at = "manifest"
    /\ Advance(a, IF task[a].command = "sync"
                  THEN [task[a] EXCEPT !.manifest = release, !.at = "load"]
                  ELSE [task[a] EXCEPT !.manifest = release, !.pending = ToolFiles,
                                       !.tooling = TRUE, !.at = "pick"])
    /\ UNCHANGED <<server, disk, state, cuts, lapses>>

\* plan_sync: the tool's files, the files of the bundle and the reload that a
\* state calls for.
ToolingUpdate(s, rel) == s = Missing \/ \E p \in ToolFiles : s.files[p] # rel.files[p]

\* Mistake: the versions are not looked at.
FilesByDigest(s, rel) ==
    {p \in Bundle : s = Missing \/ s.files[p] # rel.files[p]}

FilesToUpdate(s, rel) ==
    {p \in Bundle : \/ s = Missing
                    \/ s.files[p] # rel.files[p]
                    \/ IF p = ToolList THEN s.schema # rel.schema ELSE s.skill # rel.skill}

McpReload(s, rel) ==
    \/ s = Missing
    \/ s.schema # rel.schema
    \/ s.files[ToolList] # rel.files[ToolList]

\* Mistake: the state is saved before the files are fetched.
LoadStateAhead(a) ==
    /\ task[a].at = "load" /\ state # Torn
    /\ LET rel == Release(task[a].manifest) IN
       /\ state' = [files |-> rel.files, skill |-> rel.skill, schema |-> rel.schema,
                    reload |-> McpReload(state, rel)]
       /\ Advance(a, [task[a] EXCEPT !.at = "pick", !.tooling = TRUE,
                                     !.pending = FilesToUpdate(state, rel) \cup ToolFiles,
                                     !.written = rel.files])
    /\ UNCHANGED <<server, disk, cuts, lapses>>

\* load_client_state and what sync_client plans: a state file that cannot be
\* parsed ends the run, --force or not, and so does a plan with nothing to do.
LoadState(a) ==
    /\ task[a].at = "load"
    /\ LET rel   == Release(task[a].manifest)
           tools == task[a].force \/ ToolingUpdate(state, rel)
           files == IF task[a].force THEN Bundle ELSE FilesToUpdate(state, rel)
       IN IF state = Torn \/ (~tools /\ files = {})
          THEN Advance(a, Idle)
          ELSE Advance(a, [task[a] EXCEPT
                   !.at = "pick", !.tooling = tools,
                   !.pending = files \cup (IF tools THEN ToolFiles ELSE {}),
                   !.written = IF state = Missing THEN Nothing ELSE state.files,
                   !.reload = McpReload(state, rel)])
    /\ UNCHANGED <<server, disk, state, cuts, lapses>>

\* The tool's files first, in their order; then the bundle's in any.
Turn(pending) ==
    LET due == {i \in 1..Len(Tooling) : Tooling[i] \in pending} IN
    IF due = {} THEN pending
    ELSE {Tooling[CHOOSE i \in due : \A j \in due : i <= j]}

Expected(a, p) == Release(task[a].manifest).files[p]

\* Mistake: a file of the tool that is there is left.
SkipToolThere(a) ==
    /\ task[a].at = "pick"
    /\ ~task[a].force
    /\ \E p \in Turn(task[a].pending) \cap ToolFiles :
           /\ disk[p] # Missing
           /\ Advance(a, [task[a] EXCEPT !.pending = @ \ {p}])
    /\ UNCHANGED <<server, disk, state, cuts, lapses>>

\* sync_tooling: a file of the tool that is the manifest's already is left, and
\* not recorded.
SkipTool(a) ==
    /\ task[a].at = "pick"
    /\ ~task[a].force
    /\ \E p \in Turn(task[a].pending) \cap ToolFiles :
           /\ disk[p] = Expected(a, p)
           /\ Advance(a, [task[a] EXCEPT !.pending = @ \ {p}])
    /\ UNCHANGED <<server, disk, state, cuts, lapses>>

Wanted(a, p) == p \in ToolFiles => task[a].force \/ disk[p] # Expected(a, p)

\* Mistake: the digest of what was fetched is not compared with the manifest's.
FetchUnchecked(a) ==
    /\ task[a].at = "pick"
    /\ \E p \in Turn(task[a].pending) :
           /\ Wanted(a, p)
           /\ Advance(a, [task[a] EXCEPT !.path = p, !.at = "open",
                                         !.content = Release(release).files[p]])
    /\ UNCHANGED <<server, disk, state, cuts, lapses>>

\* The next file is fetched.  Its digest is not the manifest's when a
\* deployment came in between: the run ends.
Fetch(a) ==
    /\ task[a].at = "pick"
    /\ \E p \in Turn(task[a].pending) :
           /\ Wanted(a, p)
           /\ IF Release(release).files[p] = Expected(a, p)
              THEN /\ Advance(a, [task[a] EXCEPT !.path = p, !.at = "open",
                                                 !.content = Release(release).files[p]])
                   /\ UNCHANGED lapses
              ELSE Advance(a, Idle) /\ Cut(a)
    /\ UNCHANGED <<server, disk, state, cuts>>

Open(a) ==
    /\ task[a].at = "open"
    /\ disk' = [disk EXCEPT ![task[a].path] = Torn]
    /\ Advance(a, [task[a] EXCEPT !.at = "fill"])
    /\ UNCHANGED <<server, state, cuts, lapses>>

Fill(a) ==
    /\ task[a].at = "fill"
    /\ disk' = [disk EXCEPT ![task[a].path] = task[a].content]
    /\ Advance(a, [task[a] EXCEPT !.at = "pick", !.pending = @ \ {task[a].path},
                                  !.written[task[a].path] = task[a].content])
    /\ UNCHANGED <<server, state, cuts, lapses>>

\* All is fetched.  `self-update' ends here; `sync' opens the state file.
OpenState(a) ==
    /\ task[a].at = "pick" /\ task[a].pending = {}
    /\ IF task[a].command = "sync"
       THEN state' = Torn /\ Advance(a, [task[a] EXCEPT !.at = "save"])
       ELSE UNCHANGED state /\ Advance(a, Idle)
    /\ UNCHANGED <<server, disk, cuts, lapses>>

\* write_client_state: the file names the manifest's versions.
SaveState(a) ==
    /\ task[a].at = "save"
    /\ LET rel == Release(task[a].manifest) IN
       state' = [files |-> task[a].written, skill |-> rel.skill, schema |-> rel.schema,
                 reload |-> task[a].reload]
    /\ Advance(a, Idle)
    /\ UNCHANGED <<server, disk, cuts, lapses>>

\* A request of the run fails, or its process is killed.
CutOff(a) ==
    /\ ~IsIdle(a)
    /\ cuts < scene.cuts
    /\ cuts' = cuts + 1
    /\ Advance(a, Idle)
    /\ Cut(a)
    /\ UNCHANGED <<server, disk, state>>

\* Somebody repeats the documented bootstrap on a tool that does not work.
\* Nothing asks for it: the tool notices a missing file only, never a torn one.
Bootstrap(a) ==
    /\ IsIdle(a) /\ a \in scene.agents
    /\ ~Runs
    /\ disk' = [p \in Paths |-> IF p \in ToolFiles THEN Release(release).files[p] ELSE disk[p]]
    /\ lapses' = IF \E b \in Agents \ {a} : ~IsIdle(b) THEN lapses \cup {"overlap"} ELSE lapses
    /\ UNCHANGED <<server, state, task, cuts>>

-----------------------------------------------------------------------------

Step(a) ==
    \/ FetchManifest(a) \/ LoadState(a) \/ SkipTool(a) \/ Fetch(a) \/ Open(a) \/ Fill(a)
    \/ OpenState(a) \/ SaveState(a)

Next ==
    \/ \E r \in 1..Len(Releases) : Deploy(r)
    \/ \E a \in Agents :
           \/ Call(a) \/ Step(a) \/ CutOff(a) \/ Bootstrap(a)
           \/ \E cmd \in {"sync", "self-update"}, force \in BOOLEAN : Invoke(a, cmd, force)

Spec == Init /\ [][Next]_vars

\* A run goes on; an agent goes on calling whatever else it runs in between.
Fairness == \A a \in Agents : WF_vars(Step(a)) /\ SF_vars(Call(a))

FairSpec == Spec /\ Fairness

-----------------------------------------------------------------------------
(* Properties.                                                             *)

TypeOK ==
    /\ scene \in Scenes
    /\ release \in 1..Len(Releases)
    /\ deploys \in 0..scene.deploys
    /\ disk \in [Paths -> Contents]
    /\ state \in ClientState \cup {Torn, Missing}
    /\ task \in [Agents -> Task]
    /\ cuts \in 0..scene.cuts
    /\ lapses \subseteq {"overlap", "cut", "forced", "rollback"}

\* What the state file says of the bundle, its files and both versions, is one
\* release, though deployments come between the requests of a run and two runs
\* write the file (ma3_sync_core.py:229).
StateIsOneRelease ==
    HasState =>
        \E r \in 1..Len(Releases) :
            /\ state.skill = Release(r).skill /\ state.schema = Release(r).schema
            /\ \A p \in Bundle : state.files[p] = Release(r).files[p]

\* A file of the bundle that is not what the state file says is one the next
\* sync fetches, though a run was cut off half-way or an old release came back
\* in between: not when both have happened, nor when two runs have overlapped, or
\* the run cut off was a forced one, which rewrites what is recorded
\* (ma3_sync_core.py:136).
Quiet == \A a \in Agents : IsIdle(a)

Orderly == lapses \in {{}, {"cut"}, {"rollback"}}

StaleIsSeen ==
    Quiet /\ HasState /\ Orderly =>
        \A p \in Bundle : disk[p] # state.files[p] => p \in FilesToUpdate(state, Release(release))

\* A run that ends has brought the whole bundle to its manifest, the files it
\* did not fetch included, and the tool when it saw to that
\* (ma3_sync_core.py:171).
Ends(a) == task[a].at = "save" /\ task'[a].at = "idle" /\ state' # Torn

EndsWithRelease ==
    [][\A a \in Agents :
           Ends(a) /\ Orderly =>
               \A p \in Bundle \cup (IF task[a].tooling THEN ToolFiles ELSE {}) :
                   disk[p] = Expected(a, p)]_vars

\* A client the server asks to sync is brought to the server's versions in the
\* end, through overlapping and interrupted runs, deployments and torn files:
\* unless a cut left its state file unreadable, or left the tool torn and no
\* other run and nobody mends it (ma3_sync_core.py:136, sync_ma3_client.sh:18).
ToolStaysTorn   == <>[]~Runs
AskedIsAnswered == ToolStaysTorn \/ (Asks(release) ~> ~Asks(release))

\* A finished run has brought the release it was told of, and the state file never
\* speaks of a mixture of two.
RunsBringRelease == EndsWithRelease /\ []StateIsOneRelease

=============================================================================
