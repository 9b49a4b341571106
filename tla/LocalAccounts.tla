--------------------------- MODULE LocalAccounts ---------------------------
(***************************************************************************)
(* A self-hosted server without single sign-on: the accounts it keeps, who *)
(* administers them, the settings of its first-run set-up, and the key it  *)
(* writes to a file when it starts.                                        *)
(*                                                                         *)
(* A worker is a thread of the server's pool or its event loop; it carries *)
(* out one request, and each step of todo is one transaction (one `with    *)
(* connect()`).  A request that fails stops where it is: what its earlier  *)
(* transactions wrote stays.  The server may die at any time and starts    *)
(* again; the script that rotates the key may die as well.                 *)
(*                                                                         *)
(* A title is a display name folded to one case; an index of the database  *)
(* refuses one that another user has.  One invitation, good for one use,   *)
(* stands for those of OrgSeats.                                           *)
(***************************************************************************)
EXTENDS Naturals, Sequences, FiniteSets

CONSTANTS
    Workers,
    Names,       \* usernames; a principal and its personal library go by them
    Titles,      \* display names users choose
    Odd,         \* ... those normalize_display_name refuses: of one character
    Nobody,      \* no display name, no user
    Empty,       \* a key file that was opened and not filled
    EnvAdmins,   \* MA3_AUTH_ADMIN_USERS
    EnvOpen,     \* MA3_LOCAL_AUTH_OPEN_REGISTRATION
    MaxRequests, \* bound on the requests; a rotation of the server key is worth two
    MaxKeys,     \* bound on the server keys minted
    MaxCrashes   \* bound on the times the server or the script dies

ASSUME AccountsAssumption ==
    /\ EnvAdmins \subseteq Names
    /\ EnvOpen \in BOOLEAN
    /\ Titles \cap Names = {} /\ Odd \subseteq Titles /\ Nobody \notin Titles \cup Names
    /\ MaxRequests \in Nat /\ MaxKeys \in Nat /\ MaxCrashes \in Nat
    /\ Empty \notin Nat

VARIABLES
    accounts,    \* table local_accounts: its usernames
    admins,      \* ... those with is_admin = 1
    principals,  \* table principals: the users' display names
    libraries,   \* users with a personal library
    orgs,        \* users with a personal organisation
    owners,      \* ... that are admins of it
    keys,        \* accounts with an active API key of their own
    invite,      \* may the invitation still be used
    setting,     \* instance_settings.local_registration_open
    ack,         \* ... setup_registration_ack is "keep_open"
    complete,    \* ... setup_complete is "1"
    task,
    boot,        \* the start of the server: the step to take, "up" when it serves
    script,      \* scripts/bootstrap_selfhost.py --force, likewise
    rowKey,      \* the plaintext behind the bootstrap row of api_keys
    fileKey,     \* the plaintext in the key file
    broken,      \* history: the file's last writer died before it had filled it
    asked, minted, crashes,
    crossed      \* history: which checks have been overtaken by another request

people  == <<accounts, admins, principals, libraries, orgs, owners, keys, invite>>
policy  == <<setting, ack, complete>>
starts  == <<boot, script, rowKey, fileKey, broken, minted, crashes>>
vars    == <<people, policy, task, asked, starts, crossed>>

-----------------------------------------------------------------------------

NoKey == 0
Keys  == 0..MaxKeys

\* "uname-xxxx", the name of a user whose choice is taken.
Fallback(n) == n

NoPrincipal == [title |-> Nobody, locked |-> FALSE]
Principal   == [title : Titles \cup Names \cup {Nobody}, locked : BOOLEAN]

\* What a request may do next: for the account of its user, and for the set-up.
ForUser  == {"preview", "count", "taken", "first", "upsert", "fresh", "locked", "find", "rename",
             "library", "insert", "org?", "org", "member", "home", "redeem", "row", "admins",
             "set"}
ForSetup == {"setting", "open", "close", "ack?", "unack", "ack", "list", "keys", "policy",
             "acked", "complete"}
Steps    == ForUser \cup ForSetup

\* who, title, flag: the request's.  first: no account existed.  listed: the
\* administrators whose keys are still to be looked at.
Task == [todo : Seq(Steps), who : Names \cup {Nobody}, title : Titles \cup Names \cup {Nobody},
         flag : BOOLEAN, first : BOOLEAN, listed : SUBSET Names]

Idle == [todo |-> <<>>, who |-> Nobody, title |-> Nobody, flag |-> FALSE, first |-> FALSE,
         listed |-> {}]

Init ==
    /\ accounts = {} /\ admins = {}
    /\ principals = [n \in Names |-> NoPrincipal]
    /\ libraries = {} /\ orgs = {} /\ owners = {}
    /\ keys = {}
    /\ invite = TRUE
    /\ setting = "unset" /\ ack = FALSE /\ complete = FALSE
    /\ task = [w \in Workers |-> Idle]
    /\ boot = "file" /\ script = "up"
    /\ rowKey = NoKey /\ fileKey = NoKey /\ broken = FALSE /\ asked = 0 /\ minted = 0
    /\ crashes = 0
    /\ crossed = {}

At(w, step) == task[w].todo # <<>> /\ Head(task[w].todo) = step
IsIdle(w)   == task[w].todo = <<>>

Ask         == boot = "up" /\ asked < MaxRequests /\ asked' = asked + 1
Start(w, t) == Ask /\ IsIdle(w) /\ task' = [task EXCEPT ![w] = t]
Goto(w, t)  == task' = [task EXCEPT ![w] = t] /\ UNCHANGED asked
Next1(w, t) == Goto(w, IF Len(t.todo) = 1 THEN Idle ELSE [t EXCEPT !.todo = Tail(@)])
Advance(w)  == Next1(w, task[w])
Fail(w)     == Goto(w, Idle)

IsAdmin(n) == n \in accounts /\ n \in admins \cup EnvAdmins

\* is_registration_open, when an account exists.
Open == IF setting = "unset" THEN EnvOpen ELSE setting = "true"

NeedsAdmin == admins = {} \* Mistake: a server without administrators counts as new.

NeedsOwner == accounts = {}

SetupState == IF NeedsOwner THEN "needs_owner"
              ELSE IF complete THEN "steady" ELSE "guided_ramp"

-----------------------------------------------------------------------------
(* register_local_user.                                                    *)

Enrol == <<"taken", "first", "upsert", "fresh", "locked", "find", "rename", "library", "insert",
           "org?", "org", "member", "home">>

Register(w, n, t, invited) ==
    /\ Start(w, [Idle EXCEPT !.who = n, !.title = t, !.flag = invited,
                     !.todo = (IF invited THEN <<"preview">> ELSE <<"count", "setting">>)
                              \o Enrol \o IF invited THEN <<"redeem">> ELSE <<>>])
    /\ UNCHANGED <<people, policy, starts, crossed>>

Preview(w) ==
    /\ At(w, "preview")
    /\ IF invite THEN Advance(w) ELSE Fail(w)
    /\ UNCHANGED <<people, policy, starts, crossed>>

\* The first account is always allowed.
CountAccounts(w) ==
    /\ At(w, "count")
    /\ Goto(w, [task[w] EXCEPT !.todo = IF NeedsOwner THEN Tail(Tail(@)) ELSE Tail(@)])
    /\ UNCHANGED <<people, policy, starts, crossed>>

ReadSetting(w) ==
    /\ At(w, "setting")
    /\ IF Open THEN Advance(w) ELSE Fail(w)
    /\ UNCHANGED <<people, policy, starts, crossed>>

CheckTaken(w) ==
    /\ At(w, "taken")
    /\ IF task[w].who \in accounts THEN Fail(w) ELSE Advance(w)
    /\ UNCHANGED <<people, policy, starts, crossed>>

CheckFirstByPrincipals(w) == \* Mistake: half-made users count as accounts.
    /\ At(w, "first")
    /\ Next1(w, [task[w] EXCEPT !.first = (\A n \in Names : principals[n] = NoPrincipal)])
    /\ UNCHANGED <<people, policy, starts, crossed>>

CheckFirst(w) ==
    /\ At(w, "first")
    /\ Next1(w, [task[w] EXCEPT !.first = NeedsOwner])
    /\ UNCHANGED <<people, policy, starts, crossed>>

TitleTaken(n, t) == \E m \in Names \ {n} : principals[m].title = t

UpsertUnlocked(w) == \* Mistake: the display name is overwritten even when it is locked.
    /\ At(w, "upsert")
    /\ principals' = [principals EXCEPT ![task[w].who].title = task[w].title]
    /\ Advance(w)
    /\ UNCHANGED <<accounts, admins, libraries, orgs, owners, keys, invite, policy, starts,
                   crossed>>

\* The index on lower(display_name) knows no fallback: the request fails.
Upsert(w) ==
    /\ At(w, "upsert")
    /\ LET n == task[w].who IN
       IF principals[n].locked THEN Advance(w) /\ UNCHANGED principals
       ELSE IF TitleTaken(n, task[w].title) THEN Fail(w) /\ UNCHANGED principals
       ELSE /\ principals' = [principals EXCEPT ![n].title = task[w].title]
            /\ Advance(w)
    /\ UNCHANGED <<accounts, admins, libraries, orgs, owners, keys, invite, policy, starts,
                   crossed>>

SkipKnown(w) == \* Mistake: a principal that exists is taken for one with a name of its own.
    /\ At(w, "fresh")
    /\ Goto(w, [task[w] EXCEPT !.todo =
                    IF principals[task[w].who] = NoPrincipal THEN Tail(@) ELSE SubSeq(@, 6, Len(@))])
    /\ UNCHANGED <<people, policy, starts, crossed>>

\* A name locked by an earlier attempt is kept: on to the account.
SkipNaming(w) ==
    /\ At(w, "fresh")
    /\ Goto(w, [task[w] EXCEPT !.todo =
                    IF principals[task[w].who].locked THEN SubSeq(@, 6, Len(@)) ELSE Tail(@)])
    /\ UNCHANGED <<people, policy, starts, crossed>>

Naming(v) == At(v, "find") \/ At(v, "rename")

\* complete_display_name_setup.  Locked now, it refuses the fallback as well.
CheckLocked(w) ==
    /\ At(w, "locked")
    /\ crossed' = IF \E v \in Workers : Naming(v) THEN crossed \cup {"names"} ELSE crossed
    /\ IF principals[task[w].who].locked THEN Fail(w) ELSE Advance(w)
    /\ UNCHANGED <<people, policy, starts>>

FindTitle(w) ==
    /\ At(w, "find")
    /\ LET n == task[w].who IN
       IF task[w].title \notin Odd /\ ~TitleTaken(n, task[w].title) THEN Advance(w)
       ELSE IF task[w].title = Fallback(n) THEN Fail(w)
       ELSE Goto(w, [task[w] EXCEPT !.title = Fallback(n), !.todo = <<"locked">> \o @])
    /\ UNCHANGED <<people, policy, starts, crossed>>

Rename(w) ==
    /\ At(w, "rename")
    /\ LET n == task[w].who IN
       IF TitleTaken(n, task[w].title) THEN Fail(w) /\ UNCHANGED principals
       ELSE /\ principals' = [principals EXCEPT ![n] = [title |-> task[w].title, locked |-> TRUE]]
            /\ Advance(w)
    /\ UNCHANGED <<accounts, admins, libraries, orgs, owners, keys, invite, policy, starts,
                   crossed>>

\* ensure_library: the row is there afterwards, inserted or updated; its id is
\* made of its owner's.
StoreLibrary(n) == libraries' = libraries \cup {n}

\* ensure_personal_library: before the account, and again after it.
EnsureLibrary(w) ==
    /\ At(w, "library") \/ At(w, "home")
    /\ StoreLibrary(task[w].who)
    /\ Advance(w)
    /\ UNCHANGED <<accounts, admins, principals, orgs, owners, keys, invite, policy, starts,
                   crossed>>

\* The username is the primary key: the second of two fails.
Insert(w) ==
    /\ At(w, "insert")
    /\ LET n == task[w].who IN
       IF n \in accounts
       THEN Fail(w) /\ UNCHANGED <<accounts, admins>>
       ELSE /\ accounts' = accounts \cup {n}
            /\ admins' = IF task[w].first \/ n \in EnvAdmins THEN admins \cup {n} ELSE admins
            /\ Advance(w)
    /\ UNCHANGED <<principals, libraries, orgs, owners, keys, invite, policy, starts, crossed>>

FindLibrary(w) == \* Mistake: whoever has a library is taken to have an organisation.
    /\ At(w, "org?")
    /\ IF task[w].who \in libraries
       THEN Goto(w, [task[w] EXCEPT !.todo = SubSeq(@, 4, Len(@))])
       ELSE Advance(w)
    /\ UNCHANGED <<people, policy, starts, crossed>>

\* ensure_personal_org: the organisation, then its owner's membership.
FindOrg(w) ==
    /\ At(w, "org?")
    /\ IF task[w].who \in orgs
       THEN Goto(w, [task[w] EXCEPT !.todo = SubSeq(@, 4, Len(@))])
       ELSE Advance(w)
    /\ UNCHANGED <<people, policy, starts, crossed>>

CreateOrg(w) ==
    /\ At(w, "org")
    /\ IF task[w].who \in orgs THEN Fail(w) ELSE Advance(w)
    /\ orgs' = orgs \cup {task[w].who}
    /\ UNCHANGED <<accounts, admins, principals, libraries, owners, keys, invite, policy, starts,
                   crossed>>

JoinOrg(w) ==
    /\ At(w, "member")
    /\ owners' = owners \cup {task[w].who}
    /\ Advance(w)
    /\ UNCHANGED <<accounts, admins, principals, libraries, orgs, keys, invite, policy, starts,
                   crossed>>

\* redeem_invite: one transaction takes the use and adds the member.
Redeem(w) ==
    /\ At(w, "redeem")
    /\ invite' = FALSE
    /\ IF invite THEN Advance(w) ELSE Fail(w)
    /\ UNCHANGED <<accounts, admins, principals, libraries, orgs, owners, keys, policy, starts,
                   crossed>>

Registration(w) ==
    \/ \E n \in Names, t \in Titles, invited \in BOOLEAN : Register(w, n, t, invited)
    \/ Preview(w) \/ CountAccounts(w) \/ ReadSetting(w) \/ CheckTaken(w) \/ CheckFirst(w)
    \/ Upsert(w) \/ SkipNaming(w) \/ CheckLocked(w) \/ FindTitle(w) \/ Rename(w)
    \/ EnsureLibrary(w) \/ Insert(w) \/ FindOrg(w) \/ CreateOrg(w) \/ JoinOrg(w) \/ Redeem(w)

-----------------------------------------------------------------------------
(* A user with an account: the pages that make the organisation (me, orgs, *)
(* billing), and the keys.                                                 *)

Visit(w, n) ==
    /\ n \in accounts
    /\ Start(w, [Idle EXCEPT !.todo = <<"org?", "org", "member", "home">>, !.who = n])
    /\ UNCHANGED <<people, policy, starts, crossed>>

MintKey(n) ==
    /\ Ask /\ n \in accounts
    /\ keys' = keys \cup {n}
    /\ UNCHANGED <<accounts, admins, principals, libraries, orgs, owners, invite, policy, task,
                   starts, crossed>>

RevokeKeys(n) ==
    /\ Ask /\ n \in keys
    /\ keys' = keys \ {n}
    /\ UNCHANGED <<accounts, admins, principals, libraries, orgs, owners, invite, policy, task,
                   starts, crossed>>

-----------------------------------------------------------------------------
(* api_patch_local_user: an administrator makes or unmakes one.            *)

Demoting(w) == task[w].todo # <<>> /\ Head(task[w].todo) \in {"admins", "set"} /\ ~task[w].flag

Patch(w, n, flag) ==
    /\ \E a \in Names : IsAdmin(a)
    /\ Start(w, [Idle EXCEPT !.todo = <<"row", "admins", "set">>, !.who = n, !.flag = flag])
    /\ UNCHANGED <<people, policy, starts, crossed>>

ReadRow(w) ==
    /\ At(w, "row")
    /\ crossed' = IF ~task[w].flag /\ \E v \in Workers : Demoting(v)
                  THEN crossed \cup {"demotions"} ELSE crossed
    /\ LET n == task[w].who
           demotes == ~task[w].flag
       IN  IF n \notin accounts \/ (demotes /\ n \in EnvAdmins)
           THEN Fail(w)
           ELSE Goto(w, [task[w] EXCEPT !.todo =
                             IF demotes /\ n \in admins THEN Tail(@) ELSE Tail(Tail(@))])
    /\ UNCHANGED <<people, policy, starts>>

CountOthers(w) == \* Mistake: any account counts, not just the administrators.
    /\ At(w, "admins")
    /\ IF Cardinality(accounts) <= 1 THEN Fail(w) ELSE Advance(w)
    /\ UNCHANGED <<people, policy, starts, crossed>>

CountAdmins(w) ==
    /\ At(w, "admins")
    /\ IF Cardinality(admins) <= 1 THEN Fail(w) ELSE Advance(w)
    /\ UNCHANGED <<people, policy, starts, crossed>>

SetAdmin(w) ==
    /\ At(w, "set")
    /\ admins' = IF task[w].flag THEN admins \cup {task[w].who} ELSE admins \ {task[w].who}
    /\ Advance(w)
    /\ UNCHANGED <<accounts, principals, libraries, orgs, owners, keys, invite, policy, starts,
                   crossed>>

Administration(w) ==
    \/ \E n \in Names, flag \in BOOLEAN : Patch(w, n, flag)
    \/ ReadRow(w) \/ CountAdmins(w) \/ SetAdmin(w)

-----------------------------------------------------------------------------
(* The set-up an administrator goes through.                               *)

SetUp(w, todo) ==
    /\ \E a \in Names : IsAdmin(a)
    /\ Start(w, [Idle EXCEPT !.todo = todo])
    /\ UNCHANGED <<people, policy, starts, crossed>>

OpenRegistration(w)  == SetUp(w, <<"open">>)
CloseRegistration(w) == SetUp(w, <<"close", "ack?", "unack">>)
KeepOpen(w)          == SetUp(w, <<"setting", "ack">>)
KeepOpenOnPage(w)    == SetUp(w, <<"ack">>)
Finish(w)            == SetUp(w, <<"list", "keys", "policy", "acked", "complete">>)

CloseOnly(w) == \* Mistake: closing the registration leaves the acknowledgement.
    /\ At(w, "open") \/ At(w, "close")
    /\ setting' = IF At(w, "open") THEN "true" ELSE "false"
    /\ Fail(w)
    /\ UNCHANGED <<people, ack, complete, starts, crossed>>

SetRegistration(w) ==
    /\ At(w, "open") \/ At(w, "close")
    /\ setting' = IF At(w, "open") THEN "true" ELSE "false"
    /\ Advance(w)
    /\ UNCHANGED <<people, ack, complete, starts, crossed>>

ReadAck(w) ==
    /\ At(w, "ack?")
    /\ IF ack THEN Advance(w) ELSE Fail(w)
    /\ UNCHANGED <<people, policy, starts, crossed>>

ForgetAck(w) ==
    /\ At(w, "unack")
    /\ ack' = FALSE
    /\ Advance(w)
    /\ UNCHANGED <<people, setting, complete, starts, crossed>>

\* It may come when the registration is closed, or is being closed.
KeepAck(w) ==
    /\ At(w, "ack")
    /\ ack' = TRUE
    /\ crossed' = IF setting = "false" THEN crossed \cup {"ack"} ELSE crossed
    /\ Advance(w)
    /\ UNCHANGED <<people, setting, complete, starts>>

ListAdmins(w) ==
    /\ At(w, "list")
    /\ Next1(w, [task[w] EXCEPT !.listed = admins])
    /\ UNCHANGED <<people, policy, starts, crossed>>

\* The keys of one administrator after the other; one key is enough.
LookForKey(w) ==
    /\ At(w, "keys")
    /\ IF task[w].listed = {} THEN Fail(w)
       ELSE \E n \in task[w].listed :
                IF n \in keys THEN Advance(w)
                ELSE Goto(w, [task[w] EXCEPT !.listed = @ \ {n}])
    /\ UNCHANGED <<people, policy, starts, crossed>>

\* A closed registration is handled; an open one must be acknowledged.
ReadPolicy(w) ==
    /\ At(w, "policy")
    /\ Goto(w, [task[w] EXCEPT !.todo = IF Open THEN Tail(@) ELSE Tail(Tail(@))])
    /\ UNCHANGED <<people, policy, starts, crossed>>

ReadAcked(w) ==
    /\ At(w, "acked")
    /\ IF ack THEN Advance(w) ELSE Fail(w)
    /\ UNCHANGED <<people, policy, starts, crossed>>

Complete(w) ==
    /\ At(w, "complete")
    /\ complete' = TRUE
    /\ Advance(w)
    /\ UNCHANGED <<people, setting, ack, starts, crossed>>

FirstRun(w) ==
    \/ OpenRegistration(w) \/ CloseRegistration(w) \/ KeepOpen(w) \/ KeepOpenOnPage(w)
    \/ Finish(w) \/ SetRegistration(w) \/ ReadAck(w) \/ ForgetAck(w) \/ KeepAck(w)
    \/ ListAdmins(w) \/ LookForKey(w) \/ ReadPolicy(w) \/ ReadAcked(w) \/ Complete(w)

-----------------------------------------------------------------------------
(* ensure_bootstrap_key: at the start of the server, and in the script     *)
(* that rotates the key while the server runs.                             *)

Rest == <<people, policy, task, asked, crossed>>

\* Any file that is there will do, an empty one too.
FindFile ==
    /\ boot = "file"
    /\ boot' = IF fileKey = NoKey THEN "row" ELSE "up"
    /\ UNCHANGED <<Rest, script, rowKey, fileKey, broken, minted, crashes>>

\* A row without a file: its plaintext is lost, and the key is replaced.
FindRow ==
    LET step == IF rowKey = NoKey THEN "insert" ELSE "delete" IN
    /\ \/ boot = "row" /\ boot' = step /\ UNCHANGED script
       \/ script = "row" /\ script' = step /\ UNCHANGED boot
    /\ UNCHANGED <<Rest, rowKey, fileKey, broken, minted, crashes>>

DeleteRow ==
    /\ \/ boot = "delete" /\ boot' = "insert" /\ UNCHANGED script
       \/ script = "delete" /\ script' = "insert" /\ UNCHANGED boot
    /\ rowKey' = NoKey
    /\ UNCHANGED <<Rest, fileKey, broken, minted, crashes>>

InsertRow ==
    /\ minted < MaxKeys
    /\ \/ boot = "insert" /\ boot' = "write" /\ UNCHANGED script
       \/ script = "insert" /\ script' = "write" /\ UNCHANGED boot
    /\ minted' = minted + 1
    /\ rowKey' = minted'
    /\ UNCHANGED <<Rest, fileKey, broken, crashes>>

\* Mistake: a file that stands is left as it is.
OpenOnce ==
    /\ \/ boot = "write" /\ boot' = (IF fileKey = NoKey THEN "fill" ELSE "up") /\ UNCHANGED script
       \/ script = "write" /\ script' = (IF fileKey = NoKey THEN "fill" ELSE "up") /\ UNCHANGED boot
    /\ fileKey' = IF fileKey = NoKey THEN Empty ELSE fileKey
    /\ UNCHANGED <<Rest, rowKey, broken, minted, crashes>>

\* The file is written in place: opened, which empties it, and filled.
OpenFile ==
    /\ \/ boot = "write" /\ boot' = "fill" /\ UNCHANGED script
       \/ script = "write" /\ script' = "fill" /\ UNCHANGED boot
    /\ fileKey' = Empty
    /\ UNCHANGED <<Rest, rowKey, broken, minted, crashes>>

FillFile ==
    /\ \/ boot = "fill" /\ boot' = "up" /\ UNCHANGED script
       \/ script = "fill" /\ script' = "up" /\ UNCHANGED boot
    /\ fileKey' = rowKey
    /\ broken' = FALSE
    /\ UNCHANGED <<Rest, rowKey, minted, crashes>>

\* initialize_database: the names users have chosen are locked, those of users
\* whose registration is under way or has failed among them.
LockTitles ==
    principals' = [n \in Names |->
        [principals[n] EXCEPT !.locked = @ \/ principals[n].title \notin Odd \cup {Nobody}]]

Rotate ==
    /\ boot = "up" /\ script = "up" /\ minted < MaxKeys
    /\ asked + 2 <= MaxRequests /\ asked' = asked + 2
    /\ LockTitles
    /\ script' = "row"
    /\ crossed' = IF \E w \in Workers : Naming(w) THEN crossed \cup {"names"} ELSE crossed
    /\ UNCHANGED <<accounts, admins, libraries, orgs, owners, keys, invite, policy, task, boot,
                   rowKey, fileKey, broken, minted, crashes>>

Starting == FindFile \/ FindRow \/ DeleteRow \/ InsertRow \/ OpenFile \/ FillFile

\* Between the account and the library at the end of ensure_personal_org.
Making(w) == \E step \in {"org?", "org", "member", "home"} : At(w, step)

\* The registration is closed and its acknowledgement still to be looked at.
Closing(w) == At(w, "ack?") \/ At(w, "unack")

\* The server dies and starts again; what it leaves undone is not taken up, but for
\* a key without a file.
Crash ==
    /\ crashes < MaxCrashes
    /\ crashes' = crashes + 1
    /\ task' = [w \in Workers |-> Idle]
    /\ LockTitles
    /\ boot' = "file"
    /\ broken' = (broken \/ boot = "fill")
    /\ crossed' = crossed \cup {"owner" : w \in {w \in Workers : Making(w)}}
                           \cup {"ack" : w \in {w \in Workers : Closing(w)}}
    /\ UNCHANGED <<accounts, admins, libraries, orgs, owners, keys, invite, policy, asked, script,
                   rowKey, fileKey, minted>>

ScriptDies ==
    /\ crashes < MaxCrashes
    /\ script # "up"
    /\ crashes' = crashes + 1
    /\ script' = "up"
    /\ broken' = (broken \/ script \in {"insert", "write", "fill"})
    /\ UNCHANGED <<Rest, boot, rowKey, fileKey, minted>>

-----------------------------------------------------------------------------

Serve(w) == Registration(w) \/ Administration(w) \/ FirstRun(w)

Next ==
    \/ \E w \in Workers : Serve(w)
    \/ \E w \in Workers, n \in Names : Visit(w, n)
    \/ \E n \in Names : MintKey(n) \/ RevokeKeys(n)
    \/ Starting \/ Rotate \/ Crash \/ ScriptDies

Spec == Init /\ [][Next]_vars

-----------------------------------------------------------------------------

TypeOK ==
    /\ accounts \subseteq Names /\ admins \subseteq accounts
    /\ principals \in [Names -> Principal]
    /\ libraries \subseteq Names /\ orgs \subseteq Names /\ owners \subseteq Names
    /\ keys \subseteq accounts
    /\ invite \in BOOLEAN
    /\ setting \in {"unset", "true", "false"} /\ ack \in BOOLEAN /\ complete \in BOOLEAN
    /\ task \in [Workers -> Task]
    /\ {boot, script} \subseteq {"file", "row", "delete", "insert", "write", "fill",
                           "up"}
    /\ {rowKey, minted} \subseteq Keys /\ fileKey \in Keys \cup {Empty}
    /\ broken \in BOOLEAN /\ crashes \in 0..MaxCrashes
    /\ asked \in 0..MaxRequests
    /\ crossed \subseteq {"names", "demotions", "ack", "owner"}

\* A server with accounts has an administrator, as long as no demotion starts
\* while another is under way (the count and the UPDATE are two transactions).
\* Whoever gets the first account is one, whatever registrations run beside it and
\* whatever earlier ones left behind: the server never waits for an owner that
\* cannot come any more (local_auth_service.py:107).
AdminRemains == accounts # {} /\ "demotions" \notin crossed => admins # {}

\* An account has a locked display name, even when earlier attempts to register
\* it broke off anywhere or another registration of its name runs beside it.
AccountHasTitle == \A n \in accounts : principals[n].locked

\* A locked display name never changes again, unless a registration was past
\* its look at the lock when another one, or the UPDATE of the rotation's start,
\* set it (principal_service.py:62, db.py:322): a second registration of a
\* username cannot rename the first one's account.
TitleIsFinal ==
    [][\A n \in Names : principals[n].locked /\ "names" \notin crossed'
                        => principals'[n] = principals[n]]_vars

\* An account whose requests are over has its library and its organisation with
\* itself in it, unless the server died before they were complete: an
\* organisation without its owner is then never mended (onboarding_service.py:82).
AccountIsReady ==
    \A n \in accounts \ (libraries \cap orgs \cap owners) :
        \/ "owner" \in crossed
        \/ \E w \in Workers : ~IsIdle(w) /\ task[w].who = n

\* A registration that is closed carries no "keep open" for the next time it is
\* opened, except one given while it was closed, or left when the server died
\* between the two settings (setup_service.py:106).
ClosingForgetsAck ==
    setting = "false" /\ ack => \/ "ack" \in crossed
                                \/ \E w \in Workers : Closing(w)

\* While the server serves and nobody rotates the key, the key in the file is
\* the one the table knows, whatever starts broke off before: except after a
\* rotation that died with its row written, or a start that died inside the write
\* of the file (bootstrap_selfhost.py:98; line 38 takes an empty file for a
\* key), until a rotation goes through.
KeyFileOpens ==
    boot = "up" /\ script = "up" => broken \/ (fileKey # NoKey /\ fileKey = rowKey)

\* The set-up goes forward only.
SetupForward ==
    [][/\ SetupState # "needs_owner" => SetupState' # "needs_owner"
       /\ SetupState = "steady" => SetupState' = "steady"]_vars

\* An account is known by one name for ever: its title is locked, whatever broke
\* off before, and no other registration changes it.
TitleStands == []AccountHasTitle /\ TitleIsFinal

\* The set-up of a server does not fall back: not to an earlier state, nor, when
\* registration is opened again, to an answer the administrator gave for the last time.
SetupStands == SetupForward /\ []ClosingForgetsAck

=============================================================================
