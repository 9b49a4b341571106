---------------------------- MODULE AgentAccess ----------------------------
(***************************************************************************)
(* What one user's credentials open, and what reading costs: his seat in a *)
(* team and his grants on its libraries, his API keys with grants of their *)
(* own, the OAuth codes and tokens of his agents, and the read units his   *)
(* agents use.                                                             *)
(*                                                                         *)
(* A server's event loop answers agents (/mcp, /oauth/token) one at a      *)
(* time and flushes the usage events in between; a thread of its pool      *)
(* answers the portal.  Each step of todo is one transaction.  Rights are  *)
(* looked up by several of them while administrators and maintainers, here *)
(* the environment, change seats and grants.  Two servers overlap while a  *)
(* deployment switches.                                                    *)
(*                                                                         *)
(* The community library and the user's own are always open to him and ask *)
(* nothing of the tables; the questions below are about the team's.        *)
(***************************************************************************)
EXTENDS Naturals, Sequences, SequencesExt, FiniteSets, FiniteSetsExt

CONSTANTS
    Servers, Threads,
    Open, Private,   \* the team's libraries of visibility "org" and "private"
    Keys, NoKey,
    Codes, OldCode,  \* the codes; OldCode's token was issued before
    Offers,          \* the grants a user asks for when he makes or edits a key
    KeyLimit,        \* MA3_MAX_KEYS_PER_PRINCIPAL
    FirstKey,        \* the key he has at the start
    Limit,           \* read_units_per_month
    Found,           \* how many records a read may return
    MaxMonths, MaxEvents, MaxTroubles  \* bounds

KeyLibraries == {"community", "own"}
KeyGrants    == [KeyLibraries -> {"none", "reader", "writer"}]
NoGrants     == [l \in KeyLibraries |-> "none"]
Accounts     == {"own", "team"}
Workers      == Servers \cup Threads
Team         == Open \cup Private

ASSUME AccessAssumption ==
    /\ Servers \cap Threads = {} /\ Open \cap Private = {}
    /\ IsFiniteSet(Servers) /\ Servers # {} /\ IsFiniteSet(Team) /\ IsFiniteSet(Found)
    /\ NoKey \notin Keys /\ FirstKey \in Keys /\ OldCode \in Codes
    /\ Offers \subseteq KeyGrants \ {NoGrants} /\ Offers # {}
    /\ KeyLimit \in Nat \ {0} \* The first key was made within it.
    /\ Limit \in Nat /\ Found \subseteq Nat /\ Found # {}
    /\ MaxMonths \in Nat \ {0} /\ MaxEvents \in Nat /\ MaxTroubles \in Nat

VARIABLES
    seat,      \* org_members: the user's role in the team, or "removed"
    grant,     \* library_grants: his role on each library of the team
    keys,      \* api_keys: those he has
    payer,     \* ... billing_account_id: his own account or the team's
    keyGrants, \* api_key_grants; there is no foreign key
    codes,     \* mcp_oauth_auth_codes: not yet issued, issued or consumed
    tokens,    \* mcp_oauth_tokens: how many were issued for each code
    live,      \* codes whose tokens have not expired
    units,     \* usage_monthly
    buffer,    \* units in a server's list of usage events not yet written
    hand,      \* ... taken out of it by the flush under way
    events,    \* units in the table usage_events
    month,
    task,
    asked, troubles,
    ever, lasting, \* history: rights held at some, at every moment of a request
    wanted,        \* history: the grants asked for each key
    crossed        \* history: what overlapping requests have overtaken

access  == <<seat, grant>>
keyring == <<keys, payer, keyGrants, wanted>>
oauth   == <<codes, tokens, live>>
usage   == <<units, buffer, hand, events, month>>
count   == <<asked, troubles>>
vars    == <<access, keyring, oauth, usage, count, task, ever, lasting, crossed>>

-----------------------------------------------------------------------------
(* Roles and what they open.                                               *)

Rights == {"read", "write", "maintain"}

Allows(role, right) ==
    CASE right \in {"list", "read"} -> role \in {"reader", "writer", "maintainer"}
      [] right = "write"            -> role \in {"writer", "maintainer"}
      [] right = "maintain"         -> role = "maintainer"

HasRow(s) == s \in {"member", "admin", "removed"} \* Mistake: seat_status is not looked at.

Active(s) == s \in {"member", "admin"}

\* The rights the tables hold, each with the fact it follows from.
HeldByUser(s, g) ==
    {x \in {"grant", "admin", "seat"} \X Team \X Rights :
        \/ x[1] = "grant" /\ Allows(g[x[2]], x[3])
        \/ x[1] = "admin" /\ s = "admin"
        \/ x[1] = "seat"  /\ s # "removed" /\ x[2] \in Open /\ x[3] = "read"}

HeldByKey(g) == {x \in {"key"} \X KeyLibraries \X {"read", "write"} : Allows(g[x[2]], x[3])}

-----------------------------------------------------------------------------
(* Requests.                                                               *)

Ask(what, l, right) == [do |-> what, lib |-> l, right |-> right]
Plain(whats) == [i \in DOMAIN whats |-> Ask(whats[i], "none", "none")]

\* What is looked up for one right on one library, in the code's order.
LookUps(right) == CASE right = "list" -> <<"admin", "role">>
                    [] right = "read" -> <<"role", "admin", "seat">>
                    [] OTHER          -> <<"role", "admin">>

Questions(l, right) == [i \in DOMAIN LookUps(right) |-> Ask(LookUps(right)[i], l, right)]

\* ... on each of some libraries.
AskAll(libs, right) ==
    LET n == Len(LookUps(right))
    IN  [i \in 1..n * Cardinality(libs) |->
            Questions(SetToSeq(libs)[1 + ((i - 1) \div n)], right)[1 + ((i - 1) % n)]]

Metered == <<"account", "quota", "read", "meter", "buffer">>

\* entitled_library_ids, which asks about no library open to the team.
ListAll == Plain(<<"granted", "orgs">>) \o AskAll(Private, "list")

\* ... then the three projections of mcp_grants_for_principal.
TokenRead == Plain(<<"token">>) \o ListAll \o AskAll(Team, "read") \o AskAll(Team, "write")
             \o AskAll(Team, "maintain") \o Plain(Metered)
Listing   == ListAll \o AskAll(Team, "maintain") \o Plain(<<"page">>)

Steps == {"token", "key", "grants", "granted", "orgs", "role", "admin", "seat", "page",
          "account", "quota", "read", "meter", "buffer", "store", "member", "count", "insert",
          "owned", "delete", "replace", "drop", "code", "consume", "mint"}

Asks == [do : Steps, lib : Team \cup {"none"}, right : Rights \cup {"list", "none"}]

Task == [todo : Seq(Asks),
         kind : {"none", "key", "token", "listing", "page", "record", "keys", "exchange", "flush"},
         key : Keys \cup {NoKey}, code : Codes, grants : KeyGrants, account : Accounts,
         have : SUBSET ((Team \cup KeyLibraries) \X (Rights \cup {"list"})),
         cost : Nat, alive : BOOLEAN, waits : BOOLEAN, stale : BOOLEAN]

Idle == [todo |-> <<>>, kind |-> "none", key |-> NoKey, code |-> OldCode, grants |-> NoGrants,
         account |-> "own", have |-> {}, cost |-> 0, alive |-> FALSE, waits |-> FALSE,
         stale |-> FALSE]

Init ==
    /\ seat = "removed" /\ grant = [l \in Team |-> "none"]
    /\ keys = {FirstKey}
    /\ payer = [k \in Keys |-> "own"]
    /\ \E g \in Offers :
        /\ keyGrants = [k \in Keys |-> IF k = FirstKey THEN g ELSE NoGrants]
        /\ wanted = [k \in Keys |-> IF k = FirstKey THEN {g} ELSE {}]
    /\ codes = [c \in Codes |-> IF c = OldCode THEN "consumed" ELSE "none"]
    /\ tokens = [c \in Codes |-> IF c = OldCode THEN 1 ELSE 0]
    /\ live = {OldCode}
    /\ units = [a \in Accounts |-> [m \in 1..MaxMonths |-> 0]]
    /\ buffer = [s \in Servers |-> 0] /\ hand = [s \in Servers |-> 0] /\ events = 0
    /\ month = 1
    /\ task = [w \in Workers |-> Idle]
    /\ asked = 0 /\ troubles = 0
    /\ ever = [w \in Workers |-> {}] /\ lasting = [w \in Workers |-> {}]
    /\ crossed = {}

IsIdle(w)   == task[w].todo = <<>>
At(w, what) == ~IsIdle(w) /\ Head(task[w].todo).do = what

Event       == asked < MaxEvents /\ asked' = asked + 1 /\ UNCHANGED troubles
Start(w, t) == Event /\ IsIdle(w) /\ task' = [task EXCEPT ![w] = t]
Become(w, t) == task' = [task EXCEPT ![w] = IF t.todo = <<>> THEN Idle ELSE t] /\ UNCHANGED count
Goto(w, t)  == Become(w, [t EXCEPT !.todo = Tail(@)])
Advance(w)  == Goto(w, task[w])
Fail(w)     == Become(w, Idle)

\* The history of what each request could have found.
Observe ==
    LET now(t) == CASE t.kind = "key" -> IF t.alive THEN HeldByKey(keyGrants'[t.key]) ELSE {}
                    [] t.kind \in {"token", "listing", "page", "record"} ->
                         HeldByUser(seat', grant')
                    [] OTHER -> {}
    IN  /\ ever' = [w \in Workers |-> IF task'[w] = Idle THEN {} ELSE ever[w] \cup now(task'[w])]
        /\ lasting' = [w \in Workers |->
                         IF IsIdle(w) THEN now(task'[w]) ELSE lasting[w] \cap now(task'[w])]

-----------------------------------------------------------------------------
(* Looking up rights.                                                      *)

\* Which right must have been found before another is asked about.
Needs(kind, right) ==
    CASE kind = "token" /\ right = "read"                  -> "list"
      [] kind = "token" /\ right \in {"write", "maintain"} -> "read"
      [] kind = "listing" /\ right = "maintain"            -> "list"
      [] OTHER                                             -> "nothing"

\* A question is passed over once it is answered, or when nothing can come of it.
Settled(kind, q, have) ==
    /\ q.do \in {"role", "admin", "seat"}
    /\ \/ <<q.lib, q.right>> \in have
       \/ LET need == Needs(kind, q.right) IN need # "nothing" /\ <<q.lib, need>> \notin have

Past(todo, skipped) == SubSeq(todo, Min(DOMAIN todo \ skipped), Len(todo))

Learn(w, have, todo) ==
    LET settled == {i \in DOMAIN todo : Settled(task[w].kind, todo[i], have)}
    IN  Become(w, [task[w] EXCEPT !.have = have, !.todo = Past(todo, settled)])

ListWritable(w) == \* Mistake: readers are forgotten.
    /\ At(w, "granted")
    /\ LET listed == {l \in Team : Allows(grant[l], "write")}
       IN  Learn(w, task[w].have \cup (listed \X {"list"}), Tail(task[w].todo))
    /\ UNCHANGED <<access, keyring, oauth, usage, crossed>>

ListGranted(w) ==
    /\ At(w, "granted")
    /\ LET listed == {l \in Team : grant[l] # "none"}
       IN  Learn(w, task[w].have \cup (listed \X {"list"}), Tail(task[w].todo))
    /\ UNCHANGED <<access, keyring, oauth, usage, crossed>>

\* Members see the libraries open to the team; the others are asked about.
ListOrgs(w) ==
    /\ At(w, "orgs")
    /\ IF Active(seat)
       THEN Learn(w, task[w].have \cup (Open \X {"list"}), Tail(task[w].todo))
       ELSE LET rest == Tail(task[w].todo)
            IN  Learn(w, task[w].have, Past(rest, {i \in DOMAIN rest : rest[i].right = "list"}))
    /\ UNCHANGED <<access, keyring, oauth, usage, crossed>>

Yes(q) ==
    \/ q.do = "role"  /\ Allows(grant[q.lib], q.right)
    \/ q.do = "admin" /\ seat = "admin"
    \/ q.do = "seat"  /\ Active(seat) /\ q.lib \in Open

Answer(w) ==
    /\ \E what \in {"role", "admin", "seat"} : At(w, what)
    /\ LET q == Head(task[w].todo)
       IN  Learn(w, task[w].have \cup (IF Yes(q) THEN {<<q.lib, q.right>>} ELSE {}),
                 Tail(task[w].todo))
    /\ UNCHANGED <<access, keyring, oauth, usage, crossed>>

-----------------------------------------------------------------------------
(* An agent reads: ma3_context and ma3_case.                               *)

ReadByKey(s, k) ==
    /\ wanted[k] # {}
    /\ Start(s, [Idle EXCEPT !.kind = "key", !.key = k, !.alive = k \in keys,
                     !.todo = Plain(<<"key", "grants">> \o Metered)])
    /\ UNCHANGED <<access, keyring, oauth, usage, crossed>>

FindKey(s) ==
    /\ At(s, "key")
    /\ IF task[s].key \in keys THEN Advance(s) ELSE Fail(s)
    /\ UNCHANGED <<access, keyring, oauth, usage, crossed>>

\* Rows of the key are found whether or not the key is still there.
FindGrants(s) ==
    /\ At(s, "grants")
    /\ LET held == HeldByKey(keyGrants[task[s].key])
       IN  Goto(s, [task[s] EXCEPT !.have = {<<x[2], x[3]>> : x \in held}])
    /\ UNCHANGED <<access, keyring, oauth, usage, crossed>>

ReadByToken(s, c) ==
    /\ Start(s, [Idle EXCEPT !.kind = "token", !.code = c, !.todo = TokenRead])
    /\ UNCHANGED <<access, keyring, oauth, usage, crossed>>

FindToken(s) ==
    /\ At(s, "token")
    /\ IF task[s].code \in live THEN Advance(s) ELSE Fail(s)
    /\ UNCHANGED <<access, keyring, oauth, usage, crossed>>

\* A call of a tool comes with a key or a token; what is sent is looked up among the
\* keys and then among the tokens.
ToolCall(s)       == (\E k \in Keys : ReadByKey(s, k)) \/ (\E c \in Codes : ReadByToken(s, c))
FindCredential(s) == FindKey(s) \/ FindToken(s)

\* A token, or a key deleted in the meantime, is paid from the user's own account.
\* The rate limit and a case that is not found end the request here or at "read".
FindAccount(s) ==
    /\ At(s, "account")
    /\ Goto(s, [task[s] EXCEPT !.account = IF @ = "own" /\ task[s].key \in keys
                                           THEN payer[task[s].key] ELSE "own"])
    /\ UNCHANGED <<access, keyring, oauth, usage, crossed>>

QuotaWarns(s) == \* Mistake: the quota is reported and not enforced.
    /\ At(s, "quota")
    /\ Advance(s)
    /\ UNCHANGED <<access, keyring, oauth, usage, crossed>>

CheckQuota(s) ==
    /\ At(s, "quota")
    /\ IF units[task[s].account][month] >= Limit THEN Fail(s) ELSE Advance(s)
    /\ UNCHANGED <<access, keyring, oauth, usage, crossed>>

ReadUnits(n) == Max({1, (n + 9) \div 10})

Read(s) ==
    /\ At(s, "read")
    /\ \E n \in Found : Goto(s, [task[s] EXCEPT !.cost = ReadUnits(n)])
    /\ UNCHANGED <<access, keyring, oauth, usage, crossed>>

ReadNothing(s) ==
    /\ At(s, "read")
    /\ Fail(s)
    /\ UNCHANGED <<access, keyring, oauth, usage, crossed>>

\* record_read_usage: the counter of the month, then the list in memory.
Meter(s) ==
    /\ At(s, "meter")
    /\ units' = [units EXCEPT ![task[s].account][month] = @ + task[s].cost]
    /\ Advance(s)
    /\ UNCHANGED <<access, keyring, oauth, buffer, hand, events, month, crossed>>

Buffer(s) ==
    /\ At(s, "buffer")
    /\ buffer' = [buffer EXCEPT ![s] = @ + task[s].cost]
    /\ Advance(s)
    /\ UNCHANGED <<access, keyring, oauth, units, hand, events, month, crossed>>

FlushKeeps(s) == \* Mistake: the list is not cleared.
    /\ IsIdle(s) /\ buffer[s] > 0
    /\ task' = [task EXCEPT ![s] = [Idle EXCEPT !.kind = "flush", !.todo = Plain(<<"store">>)]]
    /\ hand' = [hand EXCEPT ![s] = buffer[s]]
    /\ UNCHANGED <<access, keyring, oauth, units, buffer, events, month, count, crossed>>

Flush(s) ==
    /\ IsIdle(s) /\ buffer[s] > 0
    /\ task' = [task EXCEPT ![s] = [Idle EXCEPT !.kind = "flush", !.todo = Plain(<<"store">>)]]
    /\ hand' = [hand EXCEPT ![s] = buffer[s]]
    /\ buffer' = [buffer EXCEPT ![s] = 0]
    /\ UNCHANGED <<access, keyring, oauth, units, events, month, count, crossed>>

StoreEvents(s) ==
    /\ At(s, "store")
    /\ events' = events + hand[s]
    /\ hand' = [hand EXCEPT ![s] = 0]
    /\ Advance(s)
    /\ UNCHANGED <<access, keyring, oauth, units, buffer, month, crossed>>

NextMonth ==
    /\ Event /\ month < MaxMonths
    /\ month' = month + 1
    /\ UNCHANGED <<access, keyring, oauth, units, buffer, hand, events, task, crossed>>

-----------------------------------------------------------------------------
(* The portal: the list of the user's libraries, and a page of one.        *)

AskListing(w) ==
    /\ Start(w, [Idle EXCEPT !.kind = "listing", !.todo = Listing])
    /\ UNCHANGED <<access, keyring, oauth, usage, crossed>>

AskPage(w, l, right) ==
    /\ Start(w, [Idle EXCEPT !.kind = "page",
                     !.todo = Questions(l, right) \o <<Ask("page", l, right)>>])
    /\ UNCHANGED <<access, keyring, oauth, usage, crossed>>

LibraryPage(w, l)  == AskPage(w, l, "read")
LibraryApi(w, l)   == AskPage(w, l, "read")
StoragePage(w, l)  == AskPage(w, l, "read")
SettingsPage(w, l) == AskPage(w, l, "maintain")
GrantsPage(w, l)   == AskPage(w, l, "maintain")
RecordsPage(w, l)  == AskPage(w, l, "maintain")

\* A record's page wants its library readable, and listed as well.
RecordPage(w, l) ==
    /\ Start(w, [Idle EXCEPT !.kind = "record",
                     !.todo = Questions(l, "read") \o ListAll \o <<Ask("page", l, "read")>>])
    /\ UNCHANGED <<access, keyring, oauth, usage, crossed>>

\* The page, or "not found" for a right that was not found.
Serve(w) ==
    /\ At(w, "page")
    /\ Advance(w)
    /\ UNCHANGED <<access, keyring, oauth, usage, crossed>>

-----------------------------------------------------------------------------
(* API keys.                                                               *)

\* A key of the team's account is for its members.
CreateKey(w, k, g, a) ==
    /\ k \notin keys /\ wanted[k] = {}
    /\ \A v \in Workers : task[v].key # k
    /\ Start(w, [Idle EXCEPT !.kind = "keys", !.key = k, !.grants = g, !.account = a,
                     !.todo = Plain((IF a = "team" THEN <<"member">> ELSE <<>>)
                                    \o <<"count", "insert">>)])
    /\ UNCHANGED <<access, keyring, oauth, usage, crossed>>

CheckMember(w) ==
    /\ At(w, "member")
    /\ IF Active(seat) THEN Advance(w) ELSE Fail(w)
    /\ UNCHANGED <<access, keyring, oauth, usage, crossed>>

CountKeysLate(w) == \* Mistake: one key too many.
    /\ At(w, "count")
    /\ IF Cardinality(keys) > KeyLimit THEN Fail(w) ELSE Advance(w)
    /\ UNCHANGED <<access, keyring, oauth, usage, crossed>>

CountKeys(w) ==
    /\ At(w, "count")
    /\ IF Cardinality(keys) >= KeyLimit THEN Fail(w) ELSE Advance(w)
    /\ UNCHANGED <<access, keyring, oauth, usage, crossed>>

\* crossed: a key inserted while another creation has already counted.
InsertKey(w) ==
    /\ At(w, "insert")
    /\ LET k == task[w].key
       IN  /\ keys' = keys \cup {k}
           /\ payer' = [payer EXCEPT ![k] = task[w].account]
           /\ keyGrants' = [keyGrants EXCEPT ![k] = task[w].grants]
           /\ wanted' = [wanted EXCEPT ![k] = @ \cup {task[w].grants}]
    /\ crossed' = IF \E v \in Workers \ {w} : At(v, "insert")
                  THEN crossed \cup {"limit"} ELSE crossed
    /\ Advance(w)
    /\ UNCHANGED <<access, oauth, usage>>

EditKey(w, k, g) ==
    /\ Start(w, [Idle EXCEPT !.kind = "keys", !.key = k, !.grants = g,
                     !.todo = Plain(<<"owned", "delete", "replace">>)])
    /\ UNCHANGED <<access, keyring, oauth, usage, crossed>>

DeleteKey(w, k) ==
    /\ Start(w, [Idle EXCEPT !.kind = "keys", !.key = k,
                     !.todo = Plain(<<"owned", "delete", "drop">>)])
    /\ UNCHANGED <<access, keyring, oauth, usage, crossed>>

\* PATCH and DELETE /api/keys/{key_id} take the steps of the forms.  The key that the
\* request itself came with is not deleted.
PatchKey(w, k, g) == EditKey(w, k, g)
DeleteOtherKey(w, k) == DeleteKey(w, k)

FindOwned(w) ==
    /\ At(w, "owned")
    /\ IF task[w].key \in keys THEN Advance(w) ELSE Fail(w)
    /\ UNCHANGED <<access, keyring, oauth, usage, crossed>>

\* Transactions that have deleted the key's rows and not committed yet.
Holding(k, w) ==
    {v \in Workers \ {w} : (At(v, "replace") \/ At(v, "drop")) /\ task[v].key = k}

\* DELETE FROM api_key_grants.  It waits for a transaction that holds the rows, and does
\* not see the rows that one inserts.  delete_api_key looks for the key first.
DeleteRows(w) ==
    /\ At(w, "delete")
    /\ IF task[w].todo[2].do = "drop" /\ task[w].key \notin keys
       THEN Fail(w)
       ELSE Goto(w, [task[w] EXCEPT !.waits = Holding(task[w].key, w) # {}])
    /\ UNCHANGED <<access, keyring, oauth, usage, crossed>>

MayCommit(w) == task[w].waits => \A v \in Holding(task[w].key, w) : task[v].waits

\* After a commit, those that waited do not see the new rows.
Committed(w, done) ==
    task' = [v \in Workers |->
                IF v = w THEN done
                ELSE IF v \in Holding(task[w].key, w) THEN [task[v] EXCEPT !.stale = TRUE]
                ELSE task[v]]

Overwrite(old, new) == [l \in KeyLibraries |-> IF new[l] = "none" THEN old[l] ELSE new[l]]

UpsertGrants(w) == \* Mistake: rows of other libraries are left.
    /\ At(w, "replace") /\ MayCommit(w)
    /\ LET k == task[w].key
       IN  /\ keyGrants' = [keyGrants EXCEPT ![k] = Overwrite(@, task[w].grants)]
           /\ wanted' = [wanted EXCEPT ![k] = @ \cup {task[w].grants}]
           /\ crossed' = IF task[w].waits \/ k \notin keys THEN crossed \cup {k} ELSE crossed
           /\ Committed(w, Idle)
    /\ UNCHANGED <<access, keys, payer, oauth, usage, count>>

\* A row for the same library violates the primary key and undoes the transaction.
ReplaceGrants(w) ==
    /\ At(w, "replace") /\ MayCommit(w)
    /\ LET k == task[w].key
           left == IF task[w].stale THEN keyGrants[k] ELSE NoGrants
           clash == \E l \in KeyLibraries : left[l] # "none" /\ task[w].grants[l] # "none"
       IN  IF clash
           THEN Fail(w) /\ UNCHANGED <<keyGrants, wanted, crossed>>
           ELSE /\ keyGrants' = [keyGrants EXCEPT ![k] = Overwrite(left, task[w].grants)]
                /\ wanted' = [wanted EXCEPT ![k] = @ \cup {task[w].grants}]
                /\ crossed' = IF task[w].waits \/ k \notin keys THEN crossed \cup {k} ELSE crossed
                /\ Committed(w, Idle)
                /\ UNCHANGED count
    /\ UNCHANGED <<access, keys, payer, oauth, usage>>

DropKey(w) ==
    /\ At(w, "drop") /\ MayCommit(w)
    /\ LET k == task[w].key
       IN  /\ keys' = keys \ {k}
           /\ keyGrants' = [keyGrants EXCEPT ![k] = IF task[w].stale THEN @ ELSE NoGrants]
           /\ crossed' = IF task[w].waits THEN crossed \cup {k} ELSE crossed
           /\ Committed(w, Idle)
    /\ UNCHANGED <<access, payer, wanted, oauth, usage, count>>

-----------------------------------------------------------------------------
(* The OAuth authorisation server.                                         *)

StoreCode(c) == codes' = [codes EXCEPT ![c] = "issued"]

\* A code nobody has seen before.
IssueCode(c) == codes[c] = "none" /\ StoreCode(c)

\* The user agrees in the browser.
Authorize(c) ==
    /\ Event /\ IssueCode(c)
    /\ UNCHANGED <<access, keyring, tokens, live, usage, task, crossed>>

Exchange(s, c) ==
    /\ codes[c] # "none"
    /\ Start(s, [Idle EXCEPT !.kind = "exchange", !.code = c,
                     !.todo = Plain(<<"code", "consume", "mint">>)])
    /\ UNCHANGED <<access, keyring, oauth, usage, crossed>>

\* The code is known, unused and not too old, and its verifier fits.
FindCode(s) ==
    /\ At(s, "code")
    /\ IF codes[task[s].code] = "issued" THEN Advance(s) ELSE Fail(s)
    /\ UNCHANGED <<access, keyring, oauth, usage, crossed>>

MarkConsumed(s) == \* Mistake: the update does not ask whether the code is still unused.
    /\ At(s, "consume")
    /\ codes' = [codes EXCEPT ![task[s].code] = "consumed"]
    /\ Advance(s)
    /\ UNCHANGED <<access, keyring, tokens, live, usage, crossed>>

\* UPDATE ... WHERE consumed_at IS NULL, and the number of rows it changed.
ConsumeCode(s) ==
    /\ At(s, "consume")
    /\ IF codes[task[s].code] = "consumed"
       THEN Fail(s) /\ UNCHANGED codes
       ELSE codes' = [codes EXCEPT ![task[s].code] = "consumed"] /\ Advance(s)
    /\ UNCHANGED <<access, keyring, tokens, live, usage, crossed>>

StoreToken(c) ==
    /\ tokens' = [tokens EXCEPT ![c] = @ + 1]
    /\ live' = live \cup {c}

MintToken(s) ==
    /\ At(s, "mint")
    /\ StoreToken(task[s].code)
    /\ Advance(s)
    /\ UNCHANGED <<access, keyring, codes, usage, crossed>>

ExpireToken(c) ==
    /\ Event /\ c \in live
    /\ live' = live \ {c}
    /\ UNCHANGED <<access, keyring, codes, tokens, usage, task, crossed>>

-----------------------------------------------------------------------------
(* The rest of the world: those who run the team, and what goes wrong.     *)

SetSeat(s) ==
    /\ Event /\ seat # s
    /\ seat' = s
    /\ UNCHANGED <<grant, keyring, oauth, usage, task, crossed>>

StoreGrant(l, role) == grant' = [grant EXCEPT ![l] = role]

\* The maintainer's form adds a grant, changes its role or removes it.
GrantForm(l, role) == Event /\ grant[l] # role

SetGrant(l, role) ==
    /\ GrantForm(l, role)
    /\ StoreGrant(l, role)
    /\ UNCHANGED <<seat, keyring, oauth, usage, task, crossed>>

Trouble == troubles < MaxTroubles /\ troubles' = troubles + 1 /\ UNCHANGED asked

\* A transaction fails, and its request with it; the events of a flush are gone.
Break(w) ==
    /\ Trouble
    /\ ~IsIdle(w) /\ ~At(w, "buffer")
    /\ task' = [task EXCEPT ![w] = Idle]
    /\ hand' = IF w \in Servers THEN [hand EXCEPT ![w] = 0] ELSE hand
    /\ UNCHANGED <<access, keyring, oauth, units, buffer, events, month, crossed>>

Die(s) ==
    /\ Trouble
    /\ task' = [task EXCEPT ![s] = Idle]
    /\ hand' = [hand EXCEPT ![s] = 0]
    /\ buffer' = [buffer EXCEPT ![s] = 0]
    /\ UNCHANGED <<access, keyring, oauth, units, events, month, crossed>>

Next ==
    \/ \E w \in Workers :
        \/ ListGranted(w) /\ Observe
        \/ ListOrgs(w) /\ Observe
        \/ Answer(w) /\ Observe
        \/ \E k \in Keys, g \in Offers :
            \/ \E a \in Accounts : CreateKey(w, k, g, a) /\ Observe
            \/ EditKey(w, k, g) /\ Observe
            \/ PatchKey(w, k, g) /\ Observe
        \/ \E k \in Keys :
            \/ DeleteKey(w, k) /\ Observe
            \/ DeleteOtherKey(w, k) /\ Observe
        \/ CheckMember(w) /\ Observe
        \/ CountKeys(w) /\ Observe
        \/ InsertKey(w) /\ Observe
        \/ FindOwned(w) /\ Observe
        \/ DeleteRows(w) /\ Observe
        \/ ReplaceGrants(w) /\ Observe
        \/ DropKey(w) /\ Observe
        \/ Serve(w) /\ Observe
        \/ Break(w) /\ Observe
    \/ \E t \in Threads :
        \/ AskListing(t) /\ Observe
        \/ \E l \in Team :
            \/ LibraryPage(t, l) /\ Observe
            \/ LibraryApi(t, l) /\ Observe
            \/ StoragePage(t, l) /\ Observe
            \/ SettingsPage(t, l) /\ Observe
            \/ GrantsPage(t, l) /\ Observe
            \/ RecordsPage(t, l) /\ Observe
            \/ RecordPage(t, l) /\ Observe
    \/ \E s \in Servers :
        \/ ToolCall(s) /\ Observe
        \/ FindCredential(s) /\ Observe
        \/ FindGrants(s) /\ Observe
        \/ \E c \in Codes : Exchange(s, c) /\ Observe
        \/ FindAccount(s) /\ Observe
        \/ CheckQuota(s) /\ Observe
        \/ Read(s) /\ Observe
        \/ ReadNothing(s) /\ Observe
        \/ Meter(s) /\ Observe
        \/ Buffer(s) /\ Observe
        \/ Flush(s) /\ Observe
        \/ StoreEvents(s) /\ Observe
        \/ FindCode(s) /\ Observe
        \/ ConsumeCode(s) /\ Observe
        \/ MintToken(s) /\ Observe
        \/ Die(s) /\ Observe
    \/ \E c \in Codes : Authorize(c) /\ Observe
    \/ \E c \in Codes : ExpireToken(c) /\ Observe
    \/ \E s \in {"removed", "member", "admin"} : SetSeat(s) /\ Observe
    \/ \E l \in Team, role \in {"none", "reader", "writer", "maintainer"} :
        SetGrant(l, role) /\ Observe
    \/ NextMonth /\ Observe

Spec == Init /\ [][Next]_vars

-----------------------------------------------------------------------------
(* What should be true.                                                    *)

SumOf(f) == FoldFunction(LAMBDA x, y : x + y, 0, f)

\* The tables and the requests have their types; a read that is metered costs something.
TypeOK ==
    /\ seat \in {"removed", "member", "admin"}
    /\ grant \in [Team -> {"none", "reader", "writer", "maintainer"}]
    /\ keys \subseteq Keys /\ payer \in [Keys -> Accounts]
    /\ keyGrants \in [Keys -> KeyGrants] /\ wanted \in [Keys -> SUBSET Offers]
    /\ codes \in [Codes -> {"none", "issued", "consumed"}]
    /\ tokens \in [Codes -> Nat] /\ live \subseteq Codes
    /\ units \in [Accounts -> [1..MaxMonths -> Nat]]
    /\ buffer \in [Servers -> Nat] /\ hand \in [Servers -> Nat] /\ events \in Nat
    /\ month \in 1..MaxMonths
    /\ task \in [Workers -> Task]
    /\ \A w \in Workers : (IsIdle(w) => task[w] = Idle) /\ (At(w, "meter") => task[w].cost > 0)
    /\ asked \in 0..MaxEvents /\ troubles \in 0..MaxTroubles

\* Each right a request has found was held at some moment since it began: what a removed
\* seat, a withdrawn grant, a narrowed or a deleted key opened is closed to every later
\* request (entitlement_service looks everything up anew, token or page; a deleted key
\* keeps no rows).  A library that is listed may be read.
CarriesOnlyHeldRights ==
    \A w \in Workers : \A p \in task[w].have :
        \E x \in ever[w] : x[2] = p[1] /\ x[3] = IF p[2] = "list" THEN "read" ELSE p[2]

\* What a request should have found if right x stood throughout.
Due(t, x) ==
    LET l == x[2] right == x[3] page == Head(t.todo)
    IN  CASE t.kind = "page"    -> IF l = page.lib /\ right = page.right THEN {<<l, right>>} ELSE {}
          [] t.kind = "record"  -> IF l = page.lib /\ right = "read"
                                   THEN {<<l, "read">>, <<l, "list">>} ELSE {}
          [] t.kind = "listing" -> CASE right = "read"     -> {<<l, "list">>}
                                     [] right = "maintain" -> {<<l, "maintain">>}
                                     [] OTHER              -> {}
          [] OTHER              -> {<<l, right>>}

\* A right that stood throughout the look-up is found: the list of libraries, which is
\* computed by other queries than the checks (entitled_library_ids), misses nothing, and
\* no page is refused that the user could read all along.
NoRightMissed ==
    \A w \in Workers : At(w, "account") \/ At(w, "page") =>
        \A x \in lasting[w] : Due(task[w], x) \subseteq task[w].have

\* The limit of keys is passed only by creations that overlap (the count and the insertion
\* are two transactions).
KeysWithinLimit == Cardinality(keys) > KeyLimit => "limit" \in crossed

\* A key has the grants of one request.  Only when a replacement overlapped another, or a
\* deletion, does it have those of two, each row asked for by one; and only then do rows
\* of a deleted key remain.
GrantsOfOneRequest ==
    \A k \in Keys :
        /\ k \in keys => keyGrants[k] # NoGrants
        /\ k \notin crossed => IF k \in keys THEN keyGrants[k] \in wanted[k]
                                             ELSE keyGrants[k] = NoGrants
        /\ \A l \in KeyLibraries :
            keyGrants[k][l] # "none" => \E g \in wanted[k] : g[l] = keyGrants[k][l]

\* However many exchanges race, a code is worth one token.
OneTokenPerCode == \A c \in Codes : tokens[c] <= 1

\* The quota is checked before the read and charged after it, so servers that answer
\* together exceed it, by one read each at most.
UnitsOvershoot ==
    \A a \in Accounts, m \in 1..MaxMonths :
        units[a][m] < Limit + Cardinality(Servers) * Max({ReadUnits(n) : n \in Found})

\* Every unit that was charged has its event, in the table or on its way there, unless a
\* transaction failed or a server died; and no event is written twice.
EventsFollowUnits ==
    LET charged == SumOf([a \in Accounts |-> SumOf(units[a])])
        late    == SumOf([s \in Servers |-> IF At(s, "buffer") THEN task[s].cost ELSE 0])
        audited == events + SumOf(buffer) + SumOf(hand) + late
    IN  audited <= charged /\ (troubles = 0 => audited = charged)


\* What a request finds lies between the rights that stood throughout and those that
\* stood at some moment, as if it had looked everything up at once.
FindsWhatIsHeld == CarriesOnlyHeldRights /\ NoRightMissed

\* The keys are what requests asked for, in number and in grants, as long as the
\* requests do not overlap; where they do, no row is one nobody asked for.
KeysAsAsked == KeysWithinLimit /\ GrantsOfOneRequest

\* The ledger of read units adds up: counted units exceed the quota by the reads under
\* way at most, and the events account for them.
UsageAddsUp == UnitsOvershoot /\ EventsFollowUnits

=============================================================================
