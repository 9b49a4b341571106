------------------------ MODULE LocalAccountsProofs ------------------------
(***************************************************************************)
(* Theorems about LocalAccounts, for any users, workers, requests and      *)
(* crashes: accounts are administered, complete and known by one name; the *)
(* first-run set-up does not fall back; the key file opens the server.     *)
(*                                                                         *)
(* The argument has one part for each of these: an invariant of the few    *)
(* tables it is about.  All of them rest on what a request can still have  *)
(* before it (TasksOK): the steps of todo follow one another as After      *)
(* says, and a request ends where Ends says.                               *)
(***************************************************************************)
EXTENDS LocalAccounts, TLAPS, SequenceTheorems, FiniteSetTheorems

\* The step a worker takes next.
Pc(w) == IF IsIdle(w) THEN "idle" ELSE Head(task[w].todo)

\* The steps that may come after a step, and those a request may end with.
After(s) ==
    CASE s = "preview" -> {"taken"}   [] s = "count" -> {"setting"}
      [] s = "setting" -> {"taken", "ack"}
      [] s = "taken"   -> {"first"}   [] s = "first"   -> {"upsert"}
      [] s = "upsert"  -> {"fresh"}   [] s = "fresh"   -> {"locked"}
      [] s = "locked"  -> {"find"}    [] s = "find"    -> {"rename"}
      [] s = "rename"  -> {"library"} [] s = "library" -> {"insert"}
      [] s = "insert"  -> {"org?"}    [] s = "org?"    -> {"org"}
      [] s = "org"     -> {"member"}  [] s = "member"  -> {"home"}
      [] s = "home"    -> {"redeem"}  [] s = "row"     -> {"admins"}
      [] s = "admins"  -> {"set"}     [] s = "close"   -> {"ack?"}
      [] s = "ack?"    -> {"unack"}   [] s = "list"    -> {"keys"}
      [] s = "keys"    -> {"policy"}  [] s = "policy"  -> {"acked"}
      [] s = "acked"   -> {"complete"}
      [] OTHER         -> {}

Ends == {"home", "redeem", "set", "open", "unack", "ack", "complete"}

Linked(s) ==
    /\ s \in Seq(Steps)
    /\ \A i \in 1..Len(s) - 1 : s[i + 1] \in After(s[i])

Route(s) == Linked(s) /\ (s # <<>> => s[Len(s)] \in Ends)

\* A request about a user's account has a user.
Personal(t) == t.who = Nobody => \A i \in 1..Len(t.todo) : t.todo[i] \in ForSetup

TasksOK ==
    /\ task \in [Workers -> Task]
    /\ \A w \in Workers : Route(task[w].todo) /\ Personal(task[w])

\* Worker w, and no other, fails, ends, or goes on to one of the steps B, with
\* first in its hands.
MovesWith(w, B, first) ==
    /\ \A v \in Workers \ {w} : task'[v] = task[v] /\ Pc(v)' = Pc(v)
    /\ \/ task'[w] = Idle /\ Pc(w)' = "idle"
       \/ /\ Pc(w)' \in B
          /\ task'[w].who = task[w].who /\ task'[w].flag = task[w].flag
          /\ task'[w].first = first

Moves(w, B) == MovesWith(w, B, task[w].first)

\* Worker w, and no other, starts at one of the steps B on behalf of who.
Begins(w, B, who) ==
    /\ Pc(w) = "idle" /\ Pc(w)' \in B /\ task'[w].who = who
    /\ \A v \in Workers \ {w} : task'[v] = task[v] /\ Pc(v)' = Pc(v)

-----------------------------------------------------------------------------
(* Routes.                                                                 *)

\* A route is entered anywhere.
LEMMA RouteFrom ==
    ASSUME NEW s, Route(s), NEW k \in 1..Len(s)
    PROVE  LET t == SubSeq(s, k, Len(s)) IN
           /\ Route(t) /\ t # <<>> /\ Head(t) = s[k]
           /\ Len(t) = Len(s) - k + 1
           /\ \A i \in 1..Len(t) : t[i] = s[i + k - 1]
<1> DEFINE t == SubSeq(s, k, Len(s))
<1>1. s \in Seq(Steps) /\ Len(s) \in Nat /\ s # <<>>
    BY LenProperties DEF Route, Linked
<1>2. /\ t \in Seq(Steps) /\ Len(t) = Len(s) - k + 1
      /\ \A i \in 1..Len(t) : t[i] = s[i + k - 1]
    BY <1>1, SubSeqProperties
<1>3. t # <<>> /\ Head(t) = s[k]
    <2>1. Len(t) \in Nat \ {0} /\ t[1] = s[k]
        BY <1>1, <1>2
    <2> HIDE DEF t
    <2>2. t # <<>>
        BY <2>1
    <2> QED
        BY <1>2, <2>1, <2>2
<1>4. t[Len(t)] = s[Len(s)]
    BY <1>1, <1>2
<1>5. \A i \in 1..Len(t) - 1 : t[i + 1] \in After(t[i])
    <2>1. SUFFICES ASSUME NEW i \in 1..Len(t) - 1
                   PROVE  t[i + 1] \in After(t[i])
        OBVIOUS
    <2>2. t[i] = s[i + k - 1] /\ t[i + 1] = s[(i + k - 1) + 1]
        BY <1>1, <1>2
    <2>3. i + k - 1 \in 1..Len(s) - 1
        BY <1>1, <1>2
    <2> QED
        BY <2>2, <2>3 DEF Route, Linked
<1> QED
    BY <1>1, <1>2, <1>3, <1>4, <1>5 DEF Route, Linked

\* It goes on until it ends.
LEMMA RouteGoesOn ==
    ASSUME NEW s, Route(s), NEW k \in 1..Len(s), s[k] \notin Ends, NEW n, n = k + 1
    PROVE  n \in 1..Len(s) /\ s[n] \in After(s[k])
<1>1. Len(s) \in Nat /\ s # <<>>
    BY LenProperties DEF Route, Linked
<1>2. k # Len(s)
    BY <1>1 DEF Route, Linked
<1> QED
    BY <1>1, <1>2 DEF Route, Linked

LEMMA RouteTail ==
    ASSUME NEW s, Route(s), Len(s) > 1
    PROVE  Tail(s) = SubSeq(s, 2, Len(s)) /\ 2 \in 1..Len(s)
<1>1. s \in Seq(Steps) /\ Len(s) \in Nat /\ s # <<>>
    BY LenProperties DEF Route, Linked
<1> QED
    BY <1>1, TailIsSubSeq

\* What a worker at a step still has before it.
LEMMA AtRoute ==
    ASSUME TasksOK, NEW w \in Workers, NEW step, At(w, step)
    PROVE  /\ task[w] \in Task /\ Route(task[w].todo) /\ Personal(task[w])
           /\ Pc(w) = step /\ 1 \in 1..Len(task[w].todo) /\ task[w].todo[1] = step
           /\ Len(task[w].todo) \in Nat
<1>1. Route(task[w].todo) /\ task[w].todo # <<>> /\ task[w] \in Task
    BY DEF TasksOK, At
<1>2. Len(task[w].todo) \in Nat \ {0}
    BY <1>1, EmptySeq DEF Route, Linked
<1> QED
    BY <1>1, <1>2 DEF TasksOK, At, Pc, IsIdle

-----------------------------------------------------------------------------
(* How workers move.                                                       *)

LEMMA NothingType ==
    /\ Idle \in Task /\ Route(Idle.todo) /\ Personal(Idle)
    /\ Idle.todo = <<>>
<1>1. <<>> \in Seq(Steps) /\ Len(<<>>) = 0
    BY EmptySeq
<1> QED
    BY <1>1 DEF Idle, Task, Route, Linked, Personal

\* A worker whose task becomes t.
LEMMA AssignTask ==
    ASSUME TasksOK, NEW w \in Workers, NEW t \in Task, Route(t.todo), Personal(t),
           task' = [task EXCEPT ![w] = t]
    PROVE  /\ TasksOK'
           /\ task'[w] = t
           /\ \A v \in Workers \ {w} : task'[v] = task[v] /\ Pc(v)' = Pc(v)
           /\ Pc(w)' = IF t.todo = <<>> THEN "idle" ELSE Head(t.todo)
<1>1. /\ task' \in [Workers -> Task] /\ task'[w] = t
      /\ \A v \in Workers \ {w} : task'[v] = task[v]
    BY DEF TasksOK
<1>2. \A v \in Workers : Route(task'[v].todo) /\ Personal(task'[v])
    BY <1>1 DEF TasksOK
<1> QED
    BY <1>1, <1>2 DEF TasksOK, Pc, IsIdle

LEMMA IdleMoves ==
    ASSUME TasksOK, NEW w \in Workers, task' = [task EXCEPT ![w] = Idle], NEW B, NEW first
    PROVE  TasksOK' /\ MovesWith(w, B, first)
BY AssignTask, NothingType DEF MovesWith

\* A worker that skips to the k-th of its steps.
LEMMA LeapMoves ==
    ASSUME TasksOK, NEW w \in Workers, NEW k \in 1..Len(task[w].todo),
           NEW t \in Task, t.todo = SubSeq(task[w].todo, k, Len(task[w].todo)),
           t.who = task[w].who, t.flag = task[w].flag,
           task' = [task EXCEPT ![w] = t]
    PROVE  TasksOK' /\ MovesWith(w, {task[w].todo[k]}, t.first)
<1> DEFINE s == task[w].todo
<1>1. Route(s) /\ Personal(task[w])
    BY DEF TasksOK
<1>2. /\ Route(t.todo) /\ t.todo # <<>> /\ Head(t.todo) = s[k]
      /\ Len(t.todo) = Len(s) - k + 1
      /\ \A i \in 1..Len(t.todo) : t.todo[i] = s[i + k - 1]
    BY <1>1, RouteFrom
<1>3. Personal(t)
    <2>1. SUFFICES ASSUME t.who = Nobody, NEW i \in 1..Len(t.todo)
                   PROVE  t.todo[i] \in ForSetup
        BY DEF Personal
    <2>2. i + k - 1 \in 1..Len(s) /\ t.todo[i] = s[i + k - 1]
        <3>1. Len(s) \in Nat
            BY <1>1, LenProperties DEF Route, Linked
        <3> HIDE DEF s
        <3> QED
            BY <1>2, <2>1, <3>1
    <2> QED
        BY <1>1, <2>1, <2>2 DEF Personal
<1> HIDE DEF s
<1>4. /\ TasksOK' /\ task'[w] = t /\ Pc(w)' = s[k]
      /\ \A v \in Workers \ {w} : task'[v] = task[v] /\ Pc(v)' = Pc(v)
    BY <1>2, <1>3, AssignTask
<1> QED
    BY <1>4 DEF MovesWith, s

LEMMA OneOrMore == \A n \in Nat : n > 0 => n = 1 \/ (n # 1 /\ n > 1)
OBVIOUS

\* A worker that takes the next of its steps, or has taken its last.
LEMMA NextMoves ==
    ASSUME TasksOK, NEW w \in Workers, task[w].todo # <<>>,
           NEW t \in Task, t.todo = task[w].todo,
           t.who = task[w].who, t.flag = task[w].flag,
           Next1(w, t)
    PROVE  TasksOK' /\ MovesWith(w, After(Pc(w)), t.first)
<1> DEFINE s == task[w].todo
<1>1. Route(s) /\ Len(s) \in Nat /\ Len(s) > 0 /\ Pc(w) = s[1]
    <2>1. Route(s) /\ s # <<>> /\ Pc(w) = Head(s)
        BY DEF TasksOK, Pc, IsIdle
    <2>2. s \in Seq(Steps) /\ Len(s) \in Nat \ {0}
        BY <2>1, EmptySeq DEF Route, Linked
    <2> QED
        BY <2>1, <2>2
<1> HIDE DEF s
<1>2. CASE Len(s) = 1
    BY <1>2, IdleMoves DEF Next1, Goto, s
<1>3. CASE Len(s) # 1 /\ Len(s) > 1
    <2>0. 1 \in 1..Len(s) - 1
        BY <1>1, <1>3
    <2> DEFINE u == [t EXCEPT !.todo = Tail(s)]
    <2>1. Tail(s) = SubSeq(s, 2, Len(s)) /\ 2 \in 1..Len(s)
        BY <1>1, <1>3, RouteTail
    <2>2. s[2] \in After(s[1]) /\ Tail(s) \in Seq(Steps)
        <3>1. Route(SubSeq(s, 2, Len(s)))
            BY <1>1, <2>1, RouteFrom
        <3> QED
            BY <1>1, <2>0, <2>1, <3>1 DEF Route, Linked
    <2>3. task' = [task EXCEPT ![w] = u]
        BY <1>3 DEF Next1, Goto, s
    <2>4. /\ u \in Task /\ u.todo = Tail(s) /\ u.who = task[w].who
          /\ u.flag = task[w].flag /\ u.first = t.first
        BY <2>2 DEF Task
    <2> HIDE DEF u
    <2>5. TasksOK' /\ MovesWith(w, {s[2]}, t.first)
        BY <2>1, <2>3, <2>4, LeapMoves DEF s
    <2> QED
        BY <1>1, <2>2, <2>5 DEF MovesWith
<1> QED
    BY <1>1, <1>2, <1>3, OneOrMore

LEMMA AdvanceMoves ==
    ASSUME TasksOK, NEW w \in Workers, NEW step, At(w, step), Advance(w)
    PROVE  TasksOK' /\ Moves(w, After(step))
BY NextMoves, AtRoute DEF Advance, At, Moves

LEMMA FailMoves ==
    ASSUME TasksOK, NEW w \in Workers, Fail(w), NEW B
    PROVE  TasksOK' /\ Moves(w, B)
BY IdleMoves DEF Fail, Goto, Moves

\* A worker that skips to the k-th of its steps, and changes nothing else.
LEMMA SkipMoves ==
    ASSUME TasksOK, NEW w \in Workers, NEW k \in 1..Len(task[w].todo),
           task' = [task EXCEPT ![w] =
                       [task[w] EXCEPT !.todo = SubSeq(task[w].todo, k, Len(task[w].todo))]]
    PROVE  TasksOK' /\ Moves(w, {task[w].todo[k]})
<1> DEFINE t == [task[w] EXCEPT !.todo = SubSeq(task[w].todo, k, Len(task[w].todo))]
<1>1. task[w] \in Task /\ SubSeq(task[w].todo, k, Len(task[w].todo)) \in Seq(Steps)
    BY RouteFrom DEF TasksOK, Route, Linked
<1>2. /\ t \in Task /\ t.todo = SubSeq(task[w].todo, k, Len(task[w].todo))
      /\ t.who = task[w].who /\ t.flag = task[w].flag /\ t.first = task[w].first
    BY <1>1 DEF Task
<1>3. task' = [task EXCEPT ![w] = t]
    OBVIOUS
<1> HIDE DEF t
<1> QED
    BY <1>2, <1>3, LeapMoves DEF Moves

\* The next two steps, where the first is not the last.
LEMMA SecondStep ==
    ASSUME TasksOK, NEW w \in Workers, NEW step, At(w, step), step \notin Ends
    PROVE  /\ 2 \in 1..Len(task[w].todo) /\ task[w].todo[2] \in After(step)
           /\ Tail(task[w].todo) = SubSeq(task[w].todo, 2, Len(task[w].todo))
           /\ task[w].todo \in Seq(Steps) /\ Len(task[w].todo) \in Nat
<1>1. /\ Route(task[w].todo) /\ 1 \in 1..Len(task[w].todo) /\ task[w].todo[1] = step
      /\ Len(task[w].todo) \in Nat
    BY AtRoute
<1>2. 2 \in 1..Len(task[w].todo) /\ task[w].todo[2] \in After(step)
    BY <1>1, RouteGoesOn
<1>3. Len(task[w].todo) > 1
    BY <1>1, <1>2
<1> QED
    BY <1>1, <1>2, <1>3, RouteTail DEF Route, Linked

LEMMA ThirdStep ==
    ASSUME TasksOK, NEW w \in Workers, NEW step, At(w, step), step \notin Ends,
           After(step) \cap Ends = {}
    PROVE  /\ 3 \in 1..Len(task[w].todo)
           /\ task[w].todo[3] \in UNION {After(x) : x \in After(step)}
           /\ Tail(Tail(task[w].todo)) = SubSeq(task[w].todo, 3, Len(task[w].todo))
<1> DEFINE s == task[w].todo
<1>1. /\ 2 \in 1..Len(s) /\ s[2] \in After(step) /\ Tail(s) = SubSeq(s, 2, Len(s))
      /\ s \in Seq(Steps) /\ Len(s) \in Nat /\ Route(s)
    BY SecondStep DEF TasksOK
<1> HIDE DEF s
<1>2. 3 \in 1..Len(s) /\ s[3] \in After(s[2])
    BY <1>1, RouteGoesOn
<1>3. s[3] \in UNION {After(x) : x \in After(step)}
    BY <1>1, <1>2
<1> DEFINE t == SubSeq(s, 2, Len(s))
<1>4. /\ Route(t) /\ Len(t) = Len(s) - 1 /\ \A i \in 1..Len(t) : t[i] = s[i + 1]
    <2>1. /\ Route(t) /\ Len(t) = Len(s) - 2 + 1
          /\ \A i \in 1..Len(t) : t[i] = s[i + 2 - 1]
        BY <1>1, RouteFrom
    <2> HIDE DEF t
    <2>2. Len(t) = Len(s) - 1 /\ \A i \in 1..Len(t) : i + 2 - 1 = i + 1
        BY <1>1, <2>1
    <2> QED
        BY <2>1, <2>2
<1>5. Len(t) > 1 /\ Len(t) \in Nat /\ 3 \in 1..Len(s)
    BY <1>1, <1>2, <1>4
<1> HIDE DEF t
<1>6. Tail(t) = SubSeq(t, 2, Len(t))
    BY <1>4, <1>5, RouteTail
<1>7. SubSeq(t, 2, Len(t)) = SubSeq(s, 3, Len(s))
    <2> DEFINE a == SubSeq(t, 2, Len(t))
               b == SubSeq(s, 3, Len(s))
    <2>0. 2 \in 1..Len(t)
        BY <1>5
    <2>1. /\ Route(a) /\ Len(a) = Len(t) - 2 + 1 /\ \A i \in 1..Len(a) : a[i] = t[i + 2 - 1]
        BY <1>4, <2>0, RouteFrom
    <2>2. /\ Route(b) /\ Len(b) = Len(s) - 3 + 1 /\ \A i \in 1..Len(b) : b[i] = s[i + 3 - 1]
        BY <1>1, <1>5, RouteFrom
    <2> HIDE DEF a, b
    <2>3. Len(a) = Len(b) /\ Len(a) \in Nat
        BY <1>1, <1>4, <1>5, <2>1, <2>2
    <2>4. SUFFICES ASSUME NEW i \in 1..Len(a) PROVE a[i] = b[i]
        BY <2>1, <2>2, <2>3, SeqEqual DEF Route, Linked, a, b
    <2>5. i + 1 \in 1..Len(t)
        BY <1>4, <2>1, <2>3
    <2>6. a[i] = t[i + 1] /\ b[i] = s[i + 2] /\ t[i + 1] = s[i + 2]
        <3>1. a[i] = t[i + 2 - 1] /\ b[i] = s[i + 3 - 1] /\ t[i + 1] = s[i + 1 + 1]
            BY <1>4, <2>1, <2>2, <2>3, <2>5
        <3>2. i + 2 - 1 = i + 1 /\ i + 3 - 1 = i + 2 /\ i + 1 + 1 = i + 2
            OBVIOUS
        <3> QED
            BY <3>1, <3>2
    <2> QED
        BY <2>6
<1> QED
    BY <1>1, <1>3, <1>5, <1>6, <1>7 DEF s, t

LEMMA FreshInsert ==
    ASSUME TasksOK, NEW w \in Workers, At(w, "fresh")
    PROVE  6 \in 1..Len(task[w].todo) /\ task[w].todo[6] = "insert"
<1> DEFINE s == task[w].todo
<1>1. Route(s) /\ 1 \in 1..Len(s) /\ s[1] = "fresh"
    BY AtRoute
<1> HIDE DEF s
<1>2. 2 \in 1..Len(s) /\ s[2] = "locked"
    <2>1. 2 = 1 + 1 /\ s[1] \notin Ends /\ 1 \in 1..Len(s)
        BY <1>1 DEF Ends
    <2>2. 2 \in 1..Len(s) /\ s[2] \in After(s[1])
        BY <1>1, <2>1, RouteGoesOn
    <2> QED
        BY <1>1, <2>2 DEF After
<1>3. 3 \in 1..Len(s) /\ s[3] = "find"
    <2>1. 3 = 2 + 1 /\ s[2] \notin Ends /\ 2 \in 1..Len(s)
        BY <1>2 DEF Ends
    <2>2. 3 \in 1..Len(s) /\ s[3] \in After(s[2])
        BY <1>1, <2>1, RouteGoesOn
    <2> QED
        BY <1>2, <2>2 DEF After
<1>4. 4 \in 1..Len(s) /\ s[4] = "rename"
    <2>1. 4 = 3 + 1 /\ s[3] \notin Ends /\ 3 \in 1..Len(s)
        BY <1>3 DEF Ends
    <2>2. 4 \in 1..Len(s) /\ s[4] \in After(s[3])
        BY <1>1, <2>1, RouteGoesOn
    <2> QED
        BY <1>3, <2>2 DEF After
<1>5. 5 \in 1..Len(s) /\ s[5] = "library"
    <2>1. 5 = 4 + 1 /\ s[4] \notin Ends /\ 4 \in 1..Len(s)
        BY <1>4 DEF Ends
    <2>2. 5 \in 1..Len(s) /\ s[5] \in After(s[4])
        BY <1>1, <2>1, RouteGoesOn
    <2> QED
        BY <1>4, <2>2 DEF After
<1>6. 6 \in 1..Len(s) /\ s[6] = "insert"
    <2>1. 6 = 5 + 1 /\ s[5] \notin Ends /\ 5 \in 1..Len(s)
        BY <1>5 DEF Ends
    <2>2. 6 \in 1..Len(s) /\ s[6] \in After(s[5])
        BY <1>1, <2>1, RouteGoesOn
    <2> QED
        BY <1>5, <2>2 DEF After
<1> QED
    BY <1>6 DEF s

LEMMA OrgHome ==
    ASSUME TasksOK, NEW w \in Workers, At(w, "org?")
    PROVE  4 \in 1..Len(task[w].todo) /\ task[w].todo[4] = "home"
<1> DEFINE s == task[w].todo
<1>1. Route(s) /\ 1 \in 1..Len(s) /\ s[1] = "org?"
    BY AtRoute
<1> HIDE DEF s
<1>2. 2 \in 1..Len(s) /\ s[2] = "org"
    <2>1. 2 = 1 + 1 /\ s[1] \notin Ends /\ 1 \in 1..Len(s)
        BY <1>1 DEF Ends
    <2>2. 2 \in 1..Len(s) /\ s[2] \in After(s[1])
        BY <1>1, <2>1, RouteGoesOn
    <2> QED
        BY <1>1, <2>2 DEF After
<1>3. 3 \in 1..Len(s) /\ s[3] = "member"
    <2>1. 3 = 2 + 1 /\ s[2] \notin Ends /\ 2 \in 1..Len(s)
        BY <1>2 DEF Ends
    <2>2. 3 \in 1..Len(s) /\ s[3] \in After(s[2])
        BY <1>1, <2>1, RouteGoesOn
    <2> QED
        BY <1>2, <2>2 DEF After
<1>4. 4 \in 1..Len(s) /\ s[4] = "home"
    <2>1. 4 = 3 + 1 /\ s[3] \notin Ends /\ 3 \in 1..Len(s)
        BY <1>3 DEF Ends
    <2>2. 4 \in 1..Len(s) /\ s[4] \in After(s[3])
        BY <1>1, <2>1, RouteGoesOn
    <2> QED
        BY <1>3, <2>2 DEF After
<1> QED
    BY <1>4 DEF s

\* The steps of a registration that do not jump.
LEMMA EnrolMoves ==
    ASSUME TasksOK, NEW w \in Workers
    PROVE  /\ Preview(w)       => TasksOK' /\ Moves(w, {"taken"})
           /\ ReadSetting(w)   => TasksOK' /\ Moves(w, {"taken", "ack"})
           /\ CheckTaken(w)    => TasksOK' /\ Moves(w, {"first"})
           /\ Upsert(w)        => TasksOK' /\ Moves(w, {"fresh"})
           /\ CheckLocked(w)   => TasksOK' /\ Moves(w, {"find"})
           /\ Rename(w)        => TasksOK' /\ Moves(w, {"library"})
           /\ Insert(w)        => TasksOK' /\ Moves(w, {"org?"})
           /\ CreateOrg(w)     => TasksOK' /\ Moves(w, {"member"})
           /\ JoinOrg(w)       => TasksOK' /\ Moves(w, {"home"})
           /\ Redeem(w)        => TasksOK' /\ Moves(w, {})
           /\ EnsureLibrary(w) =>
                /\ TasksOK'
                /\ Moves(w, IF Pc(w) = "library" THEN {"insert"} ELSE {"redeem"})
<1>1. Preview(w) => TasksOK' /\ Moves(w, {"taken"})
    BY AdvanceMoves, FailMoves DEF Preview, After
<1>2. ReadSetting(w) => TasksOK' /\ Moves(w, {"taken", "ack"})
    BY AdvanceMoves, FailMoves DEF ReadSetting, After
<1>3. CheckTaken(w) => TasksOK' /\ Moves(w, {"first"})
    BY AdvanceMoves, FailMoves DEF CheckTaken, After
<1>4. Upsert(w) => TasksOK' /\ Moves(w, {"fresh"})
    BY AdvanceMoves, FailMoves DEF Upsert, After
<1>5. CheckLocked(w) => TasksOK' /\ Moves(w, {"find"})
    BY AdvanceMoves, FailMoves DEF CheckLocked, After
<1>6. Rename(w) => TasksOK' /\ Moves(w, {"library"})
    BY AdvanceMoves, FailMoves DEF Rename, After
<1>7. Insert(w) => TasksOK' /\ Moves(w, {"org?"})
    BY AdvanceMoves, FailMoves DEF Insert, After
<1>8. CreateOrg(w) => TasksOK' /\ Moves(w, {"member"})
    BY AdvanceMoves, FailMoves DEF CreateOrg, After
<1>9. JoinOrg(w) => TasksOK' /\ Moves(w, {"home"})
    BY AdvanceMoves DEF JoinOrg, After
<1>10. Redeem(w) => TasksOK' /\ Moves(w, {})
    BY AdvanceMoves, FailMoves DEF Redeem, After
<1>11. ASSUME EnsureLibrary(w)
       PROVE  TasksOK' /\ Moves(w, IF Pc(w) = "library" THEN {"insert"} ELSE {"redeem"})
    <2>1. CASE At(w, "library")
        <3>1. Pc(w) = "library"
            BY <2>1 DEF At, Pc, IsIdle
        <3> QED
            BY <1>11, <2>1, <3>1, AdvanceMoves DEF EnsureLibrary, After
    <2>2. CASE At(w, "home")
        <3>1. Pc(w) = "home"
            BY <2>2 DEF At, Pc, IsIdle
        <3> QED
            BY <1>11, <2>2, <3>1, AdvanceMoves DEF EnsureLibrary, After
    <2> QED
        BY <1>11, <2>1, <2>2 DEF EnsureLibrary
<1> QED
    BY <1>1, <1>2, <1>3, <1>4, <1>5, <1>6, <1>7, <1>8, <1>9, <1>10, <1>11

\* The first account of all gets to be an administrator's.
LEMMA CheckFirstMoves ==
    ASSUME TasksOK, NEW w \in Workers, CheckFirst(w)
    PROVE  TasksOK' /\ MovesWith(w, {"upsert"}, accounts = {})
<1> DEFINE t == [task[w] EXCEPT !.first = NeedsOwner]
<1>1. /\ task[w] \in Task /\ task[w].todo # <<>> /\ Pc(w) = "first"
    BY AtRoute DEF CheckFirst, At
<1>2. NeedsOwner = (accounts = {}) /\ NeedsOwner \in BOOLEAN
    BY DEF NeedsOwner
<1>3. /\ t \in Task /\ t.todo = task[w].todo
      /\ t.who = task[w].who /\ t.flag = task[w].flag /\ t.first = NeedsOwner
    BY <1>1, <1>2 DEF Task
<1>4. Next1(w, t)
    BY DEF CheckFirst
<1> HIDE DEF t
<1>5. TasksOK' /\ MovesWith(w, After("first"), NeedsOwner)
    BY <1>1, <1>3, <1>4, NextMoves
<1> QED
    BY <1>2, <1>5 DEF After

LEMMA CountMoves ==
    ASSUME TasksOK, NEW w \in Workers, CountAccounts(w)
    PROVE  TasksOK' /\ Moves(w, {"setting", "taken", "ack"})
<1> DEFINE s == task[w].todo
<1>1. At(w, "count")
    BY DEF CountAccounts
<1>2. /\ 2 \in 1..Len(s) /\ s[2] = "setting" /\ Tail(s) = SubSeq(s, 2, Len(s))
    BY <1>1, SecondStep DEF Ends, After
<1>3. /\ 3 \in 1..Len(s) /\ s[3] \in {"taken", "ack"}
      /\ Tail(Tail(s)) = SubSeq(s, 3, Len(s))
    BY <1>1, ThirdStep DEF Ends, After
<1>4. task' = [task EXCEPT ![w] = [task[w] EXCEPT !.todo =
                  IF NeedsOwner THEN Tail(Tail(s)) ELSE Tail(s)]]
    BY DEF CountAccounts, Goto
<1>5. CASE NeedsOwner
    <2>1. TasksOK' /\ Moves(w, {s[3]})
        BY <1>3, <1>4, <1>5, SkipMoves
    <2> QED
        BY <1>3, <2>1 DEF Moves, MovesWith
<1>6. CASE ~NeedsOwner
    <2>1. TasksOK' /\ Moves(w, {s[2]})
        BY <1>2, <1>4, <1>6, SkipMoves
    <2> QED
        BY <1>2, <2>1 DEF Moves, MovesWith
<1> QED
    BY <1>5, <1>6

LEMMA SkipNamingMoves ==
    ASSUME TasksOK, NEW w \in Workers, SkipNaming(w)
    PROVE  TasksOK' /\ Moves(w, IF principals[task[w].who].locked THEN {"insert"}
                                                                ELSE {"locked"})
<1> DEFINE s == task[w].todo
<1>1. At(w, "fresh")
    BY DEF SkipNaming
<1>2. 2 \in 1..Len(s) /\ s[2] = "locked" /\ Tail(s) = SubSeq(s, 2, Len(s))
    BY <1>1, SecondStep DEF Ends, After
<1>3. 6 \in 1..Len(s) /\ s[6] = "insert"
    BY <1>1, FreshInsert
<1>4. task' = [task EXCEPT ![w] = [task[w] EXCEPT !.todo =
                  IF principals[task[w].who].locked THEN SubSeq(s, 6, Len(s)) ELSE Tail(s)]]
    BY DEF SkipNaming, Goto
<1>5. CASE principals[task[w].who].locked
    BY <1>3, <1>4, <1>5, SkipMoves
<1>6. CASE ~principals[task[w].who].locked
    BY <1>2, <1>4, <1>6, SkipMoves
<1> QED
    BY <1>5, <1>6

LEMMA FindOrgMoves ==
    ASSUME TasksOK, NEW w \in Workers, FindOrg(w)
    PROVE  TasksOK' /\ Moves(w, IF task[w].who \in orgs THEN {"home"} ELSE {"org"})
<1> DEFINE s == task[w].todo
<1>1. At(w, "org?")
    BY DEF FindOrg
<1>2. 4 \in 1..Len(s) /\ s[4] = "home"
    BY <1>1, OrgHome
<1>3. CASE task[w].who \in orgs
    <2>1. task' = [task EXCEPT ![w] = [task[w] EXCEPT !.todo = SubSeq(s, 4, Len(s))]]
        BY <1>3 DEF FindOrg, Goto
    <2> QED
        BY <1>2, <1>3, <2>1, SkipMoves
<1>4. CASE task[w].who \notin orgs
    BY <1>1, <1>4, AdvanceMoves DEF FindOrg, After
<1> QED
    BY <1>3, <1>4

\* Two pieces of a route make one.
LEMMA LinkedConcat ==
    ASSUME NEW s, NEW t, Linked(s), Linked(t), s # <<>>, t # <<>>,
           t[1] \in After(s[Len(s)])
    PROVE  LET u == s \o t IN
           /\ Linked(u) /\ u # <<>> /\ u[1] = s[1] /\ u[Len(u)] = t[Len(t)]
<1> DEFINE u == s \o t
           m == Len(s)
           n == Len(t)
<1>1. s \in Seq(Steps) /\ t \in Seq(Steps) /\ m \in Nat /\ n \in Nat /\ m > 0 /\ n > 0
    BY EmptySeq DEF Linked
<1>2. /\ u \in Seq(Steps) /\ Len(u) = m + n
      /\ \A i \in 1..m + n : u[i] = IF i <= m THEN s[i] ELSE t[i - m]
    BY <1>1, ConcatProperties
<1> HIDE DEF u
<1>3. u[1] = s[1] /\ u[m + n] = t[n]
    <2>1. 1 \in 1..m + n /\ 1 <= m /\ m + n \in 1..m + n /\ ~(m + n <= m) /\ m + n - m = n
        BY <1>1
    <2> QED
        BY <1>2, <2>1
<1>4. u # <<>>
    BY <1>1, <1>2
<1>5. ASSUME NEW i \in 1..Len(u) - 1
      PROVE  u[i + 1] \in After(u[i])
    <2>0. i \in 1..m + n /\ i + 1 \in 1..m + n /\ i \in Nat
        BY <1>1, <1>2
    <2>1. CASE i < m
        <3>1. i <= m /\ i + 1 <= m /\ i \in 1..m - 1
            BY <1>1, <2>0, <2>1
        <3>2. u[i] = s[i] /\ u[i + 1] = s[i + 1]
            BY <1>2, <2>0, <3>1
        <3> QED
            BY <3>1, <3>2 DEF Linked
    <2>2. CASE i = m
        <3>1. i <= m /\ ~(i + 1 <= m) /\ i + 1 - m = 1
            BY <1>1, <2>0, <2>2
        <3>2. u[i] = s[m] /\ u[i + 1] = t[1]
            BY <1>2, <2>0, <2>2, <3>1
        <3> QED
            BY <3>2
    <2>3. CASE i > m
        <3>1. ~(i <= m) /\ ~(i + 1 <= m) /\ i - m \in 1..n - 1 /\ i + 1 - m = (i - m) + 1
            BY <1>1, <1>2, <2>0, <2>3
        <3>2. u[i] = t[i - m] /\ u[i + 1] = t[(i - m) + 1]
            BY <1>2, <2>0, <3>1
        <3> QED
            BY <3>1, <3>2 DEF Linked
    <2> QED
        BY <1>1, <2>0, <2>1, <2>2, <2>3
<1> QED
    BY <1>2, <1>3, <1>4, <1>5 DEF Linked, u

\* The user of a step that has one.
LEMMA KnownUser ==
    ASSUME TasksOK, NEW w \in Workers, Pc(w) \in ForUser
    PROVE  task[w].who \in Names
<1>1. Pc(w) # "idle"
    BY DEF ForUser
<1>2. At(w, Pc(w))
    BY <1>1 DEF Pc, At, IsIdle
<1>3. /\ task[w] \in Task /\ Personal(task[w])
      /\ 1 \in 1..Len(task[w].todo) /\ task[w].todo[1] = Pc(w)
    BY <1>2, AtRoute
<1>4. Pc(w) \notin ForSetup
    BY DEF ForUser, ForSetup
<1> QED
    BY <1>3, <1>4 DEF Personal, Task

LEMMA FindTitleMoves ==
    ASSUME TasksOK, NEW w \in Workers, FindTitle(w)
    PROVE  TasksOK' /\ Moves(w, {"rename", "locked"})
<1> DEFINE s == task[w].todo
           n == task[w].who
<1>1. /\ At(w, "find") /\ Route(s) /\ Pc(w) = "find" /\ s[1] = "find" /\ s # <<>>
      /\ Personal(task[w]) /\ task[w] \in Task
    BY AtRoute DEF FindTitle, At
<1>2. n \in Names
    BY <1>1, KnownUser DEF ForUser
<1>3. CASE Advance(w)
    <2>1. TasksOK' /\ Moves(w, {"rename"})
        BY <1>1, <1>3, AdvanceMoves DEF After
    <2> QED
        BY <2>1 DEF Moves, MovesWith
<1>4. CASE Fail(w)
    BY <1>4, FailMoves
<1>5. CASE Goto(w, [task[w] EXCEPT !.title = Fallback(n), !.todo = <<"locked">> \o @])
    <2> DEFINE r == <<"locked">> \o s
               t == [task[w] EXCEPT !.title = Fallback(n), !.todo = r]
    <2>1. Linked(<<"locked">>) /\ <<"locked">> # <<>> /\ Len(<<"locked">>) = 1
        BY DEF Linked, Steps, ForUser
    <2>2. s[1] \in After(<<"locked">>[Len(<<"locked">>)])
        BY <1>1, <2>1 DEF After
    <2>3. Linked(r) /\ r # <<>> /\ r[1] = "locked" /\ r[Len(r)] = s[Len(s)]
        BY <1>1, <2>1, <2>2, LinkedConcat DEF Route
    <2> HIDE DEF r
    <2>4. Route(r) /\ Head(r) = "locked"
        BY <1>1, <2>3 DEF Route
    <2>5. t \in Task /\ t.todo = r /\ t.who = n /\ t.flag = task[w].flag
          /\ t.first = task[w].first
        BY <1>1, <1>2, <2>3 DEF Task, Fallback, Linked
    <2>6. task' = [task EXCEPT ![w] = t]
        BY <1>5 DEF Goto, r
    <2>7. Personal(t)
        BY <1>2, <2>5, AccountsAssumption DEF Personal
    <2> HIDE DEF t
    <2>8. /\ TasksOK' /\ task'[w] = t /\ Pc(w)' = "locked"
          /\ \A v \in Workers \ {w} : task'[v] = task[v] /\ Pc(v)' = Pc(v)
        BY <2>3, <2>4, <2>5, <2>6, <2>7, AssignTask
    <2> QED
        BY <2>5, <2>8 DEF Moves, MovesWith
<1> QED
    BY <1>3, <1>4, <1>5 DEF FindTitle

\* The steps of the other requests.
LEMMA AdministrationMoves ==
    ASSUME TasksOK, NEW w \in Workers
    PROVE  /\ CountAdmins(w) => TasksOK' /\ Moves(w, {"set"})
           /\ SetAdmin(w)    => TasksOK' /\ Moves(w, {})
BY AdvanceMoves, FailMoves DEF CountAdmins, SetAdmin, After

LEMMA ReadRowMoves ==
    ASSUME TasksOK, NEW w \in Workers, ReadRow(w)
    PROVE  /\ TasksOK'
           /\ Moves(w, IF task[w].who \notin accounts THEN {}
                       ELSE IF ~task[w].flag /\ task[w].who \in admins THEN {"admins"}
                       ELSE {"set"})
<1> DEFINE s == task[w].todo
           n == task[w].who
           demotes == ~task[w].flag
<1>1. At(w, "row")
    BY DEF ReadRow
<1>2. 2 \in 1..Len(s) /\ s[2] = "admins" /\ Tail(s) = SubSeq(s, 2, Len(s))
    BY <1>1, SecondStep DEF Ends, After
<1>3. 3 \in 1..Len(s) /\ s[3] = "set" /\ Tail(Tail(s)) = SubSeq(s, 3, Len(s))
    BY <1>1, ThirdStep DEF Ends, After
<1>4. CASE n \notin accounts \/ (demotes /\ n \in EnvAdmins)
    BY <1>4, FailMoves DEF ReadRow
<1>5. CASE ~(n \notin accounts \/ (demotes /\ n \in EnvAdmins))
    <2>1. task' = [task EXCEPT ![w] = [task[w] EXCEPT !.todo =
                      IF demotes /\ n \in admins THEN Tail(s) ELSE Tail(Tail(s))]]
        BY <1>5 DEF ReadRow, Goto
    <2>2. CASE demotes /\ n \in admins
        BY <1>2, <1>5, <2>1, <2>2, SkipMoves
    <2>3. CASE ~(demotes /\ n \in admins)
        BY <1>3, <1>5, <2>1, <2>3, SkipMoves
    <2> QED
        BY <2>2, <2>3
<1> QED
    BY <1>4, <1>5

LEMMA FirstRunMoves ==
    ASSUME TasksOK, NEW w \in Workers
    PROVE  /\ ReadAck(w)   => TasksOK' /\ Moves(w, {"unack"})
           /\ ForgetAck(w) => TasksOK' /\ Moves(w, {})
           /\ KeepAck(w)   => TasksOK' /\ Moves(w, {})
           /\ ReadAcked(w) => TasksOK' /\ Moves(w, {"complete"})
           /\ Complete(w)  => TasksOK' /\ Moves(w, {})
           /\ SetRegistration(w) =>
                /\ TasksOK'
                /\ Moves(w, IF Pc(w) = "open" THEN {} ELSE {"ack?"})
<1>1. /\ ReadAck(w)   => TasksOK' /\ Moves(w, {"unack"})
      /\ ForgetAck(w) => TasksOK' /\ Moves(w, {})
      /\ KeepAck(w)   => TasksOK' /\ Moves(w, {})
    BY AdvanceMoves, FailMoves DEF ReadAck, ForgetAck, KeepAck, After
<1>2. /\ ReadAcked(w) => TasksOK' /\ Moves(w, {"complete"})
      /\ Complete(w)  => TasksOK' /\ Moves(w, {})
    BY AdvanceMoves, FailMoves DEF ReadAcked, Complete, After
<1>3. ASSUME SetRegistration(w)
      PROVE  TasksOK' /\ Moves(w, IF Pc(w) = "open" THEN {} ELSE {"ack?"})
    <2>1. CASE At(w, "open")
        <3>1. Pc(w) = "open"
            BY <2>1 DEF At, Pc, IsIdle
        <3> QED
            BY <1>3, <2>1, <3>1, AdvanceMoves DEF SetRegistration, After
    <2>2. CASE At(w, "close")
        <3>1. Pc(w) = "close"
            BY <2>2 DEF At, Pc, IsIdle
        <3> QED
            BY <1>3, <2>2, <3>1, AdvanceMoves DEF SetRegistration, After
    <2> QED
        BY <1>3, <2>1, <2>2 DEF SetRegistration
<1> QED
    BY <1>1, <1>2, <1>3

LEMMA ListAdminsMoves ==
    ASSUME TasksOK, NEW w \in Workers, ListAdmins(w), admins \subseteq Names
    PROVE  TasksOK' /\ Moves(w, {"keys"})
<1> DEFINE t == [task[w] EXCEPT !.listed = admins]
<1>1. /\ task[w] \in Task /\ task[w].todo # <<>> /\ Pc(w) = "list"
    BY AtRoute DEF ListAdmins, At
<1>2. /\ t \in Task /\ t.todo = task[w].todo
      /\ t.who = task[w].who /\ t.flag = task[w].flag /\ t.first = task[w].first
    BY <1>1 DEF Task
<1>3. Next1(w, t)
    BY DEF ListAdmins
<1> HIDE DEF t
<1>4. TasksOK' /\ MovesWith(w, After("list"), t.first)
    BY <1>1, <1>2, <1>3, NextMoves
<1> QED
    BY <1>2, <1>4 DEF After, Moves

LEMMA LookForKeyMoves ==
    ASSUME TasksOK, NEW w \in Workers, LookForKey(w)
    PROVE  TasksOK' /\ Moves(w, {"policy", "keys"})
<1>1. At(w, "keys")
    BY DEF LookForKey
<1>2. CASE Fail(w)
    BY <1>2, FailMoves
<1>3. CASE Advance(w)
    <2>1. TasksOK' /\ Moves(w, {"policy"})
        BY <1>1, <1>3, AdvanceMoves DEF After
    <2> QED
        BY <2>1 DEF Moves, MovesWith
<1>4. ASSUME NEW n, Goto(w, [task[w] EXCEPT !.listed = @ \ {n}])
      PROVE  TasksOK' /\ Moves(w, {"policy", "keys"})
    <2> DEFINE t == [task[w] EXCEPT !.listed = @ \ {n}]
    <2>1. /\ task[w] \in Task /\ Route(task[w].todo) /\ Personal(task[w])
          /\ task[w].todo # <<>> /\ Pc(w) = "keys"
        BY <1>1, AtRoute DEF At
    <2>2. /\ t \in Task /\ t.todo = task[w].todo
          /\ t.who = task[w].who /\ t.flag = task[w].flag /\ t.first = task[w].first
        BY <2>1 DEF Task
    <2>3. task' = [task EXCEPT ![w] = t]
        BY <1>4 DEF Goto
    <2> HIDE DEF t
    <2>4. Personal(t) /\ Route(t.todo)
        BY <2>1, <2>2 DEF Personal
    <2>5. /\ TasksOK' /\ task'[w] = t
          /\ \A v \in Workers \ {w} : task'[v] = task[v] /\ Pc(v)' = Pc(v)
          /\ Pc(w)' = IF t.todo = <<>> THEN "idle" ELSE Head(t.todo)
        BY <2>2, <2>3, <2>4, AssignTask
    <2>6. Pc(w)' = "keys"
        BY <2>1, <2>2, <2>5 DEF Pc, IsIdle
    <2> QED
        BY <2>2, <2>5, <2>6 DEF Moves, MovesWith
<1> QED
    BY <1>2, <1>3, <1>4 DEF LookForKey

LEMMA ReadPolicyMoves ==
    ASSUME TasksOK, NEW w \in Workers, ReadPolicy(w)
    PROVE  TasksOK' /\ Moves(w, {"acked", "complete"})
<1> DEFINE s == task[w].todo
<1>1. At(w, "policy")
    BY DEF ReadPolicy
<1>2. 2 \in 1..Len(s) /\ s[2] = "acked" /\ Tail(s) = SubSeq(s, 2, Len(s))
    BY <1>1, SecondStep DEF Ends, After
<1>3. 3 \in 1..Len(s) /\ s[3] = "complete" /\ Tail(Tail(s)) = SubSeq(s, 3, Len(s))
    BY <1>1, ThirdStep DEF Ends, After
<1>4. task' = [task EXCEPT ![w] = [task[w] EXCEPT !.todo =
                  IF Open THEN Tail(s) ELSE Tail(Tail(s))]]
    BY DEF ReadPolicy, Goto
<1>5. CASE Open
    <2>1. TasksOK' /\ Moves(w, {"acked"})
        BY <1>2, <1>4, <1>5, SkipMoves
    <2> QED
        BY <2>1 DEF Moves, MovesWith
<1>6. CASE ~Open
    <2>1. TasksOK' /\ Moves(w, {"complete"})
        BY <1>3, <1>4, <1>6, SkipMoves
    <2> QED
        BY <2>1 DEF Moves, MovesWith
<1> QED
    BY <1>5, <1>6

-----------------------------------------------------------------------------
(* How requests start.                                                     *)

LEMMA StartBegins ==
    ASSUME TasksOK, NEW w \in Workers, NEW t \in Task, Start(w, t),
           Route(t.todo), Personal(t), t.todo # <<>>, NEW B, Head(t.todo) \in B
    PROVE  TasksOK' /\ Begins(w, B, t.who) /\ task'[w] = t
<1>1. task' = [task EXCEPT ![w] = t] /\ Pc(w) = "idle"
    BY DEF Start, Pc
<1> QED
    BY <1>1, AssignTask DEF Begins

LEMMA EnrolLinked ==
    /\ Linked(Enrol) /\ Enrol # <<>> /\ Len(Enrol) = 13
    /\ Enrol[1] = "taken" /\ Enrol[13] = "home"
<1> USE DEF Enrol
<1>1. Enrol \in Seq(Steps) /\ Len(Enrol) = 13
    BY DEF Steps, ForUser
<1>2. ASSUME NEW i \in 1..12
      PROVE  Enrol[i + 1] \in After(Enrol[i])
    BY DEF After
<1> QED
    BY <1>1, <1>2 DEF Linked

LEMMA RegisterBegins ==
    ASSUME TasksOK, NEW w \in Workers, NEW n \in Names, NEW title \in Titles,
           NEW invited \in BOOLEAN, Register(w, n, title, invited)
    PROVE  TasksOK' /\ Begins(w, {"preview", "count"}, n)
<1> DEFINE a == IF invited THEN <<"preview">> ELSE <<"count", "setting">>
           b == a \o Enrol
           c == IF invited THEN <<"redeem">> ELSE <<>>
           d == b \o c
           t == [Idle EXCEPT !.who = n, !.title = title, !.flag = invited, !.todo = d]
<1>1. /\ Linked(a) /\ a # <<>> /\ Enrol[1] \in After(a[Len(a)])
      /\ a[1] \in {"preview", "count"}
    <2>1. CASE invited
        <3>1. a = <<"preview">>
            BY <2>1
        <3> HIDE DEF a
        <3>2. Len(a) = 1 /\ a[1] = "preview" /\ a \in Seq(Steps) /\ a # <<>>
            BY <3>1 DEF Steps, ForUser
        <3>3. Linked(a)
            BY <3>2 DEF Linked
        <3> QED
            BY <3>2, <3>3, EnrolLinked DEF After
    <2>2. CASE ~invited
        <3>1. a = <<"count", "setting">>
            BY <2>2
        <3> HIDE DEF a
        <3>2. /\ Len(a) = 2 /\ a[1] = "count" /\ a[2] = "setting" /\ a \in Seq(Steps)
              /\ a # <<>>
            BY <3>1 DEF Steps, ForUser, ForSetup
        <3>3. ASSUME NEW i \in 1..Len(a) - 1
              PROVE  a[i + 1] \in After(a[i])
            <4>1. i = 1
                BY <3>2
            <4> QED
                BY <3>2, <4>1 DEF After
        <3>4. Linked(a)
            BY <3>2, <3>3 DEF Linked
        <3> QED
            BY <3>2, <3>4, EnrolLinked DEF After
    <2> QED
        BY <2>1, <2>2
<1> HIDE DEF a
<1>2. Linked(b) /\ b # <<>> /\ b[1] = a[1] /\ b[Len(b)] = "home"
    <2>1. Linked(b) /\ b # <<>> /\ b[1] = a[1] /\ b[Len(b)] = Enrol[Len(Enrol)]
        BY <1>1, EnrolLinked, LinkedConcat
    <2> HIDE DEF b
    <2> QED
        BY <2>1, EnrolLinked
<1> HIDE DEF b
<1>3. Linked(d) /\ d # <<>> /\ d[1] = a[1] /\ d[Len(d)] \in Ends
    <2>1. CASE invited
        <3>1. c = <<"redeem">>
            BY <2>1
        <3> HIDE DEF c
        <3>2. Len(c) = 1 /\ c[1] = "redeem" /\ c \in Seq(Steps) /\ c # <<>>
            BY <3>1 DEF Steps, ForUser
        <3>3. Linked(c) /\ c[1] \in After(b[Len(b)])
            BY <1>2, <3>2 DEF Linked, After
        <3>4. Linked(d) /\ d # <<>> /\ d[1] = b[1] /\ d[Len(d)] = c[Len(c)]
            BY <1>2, <3>2, <3>3, LinkedConcat
        <3> QED
            BY <1>2, <3>2, <3>4 DEF Ends
    <2>2. CASE ~invited
        <3>1. d = b
            BY <1>2, <2>2, ConcatEmptySeq DEF Linked
        <3> HIDE DEF d
        <3> QED
            BY <1>2, <3>1 DEF Ends
    <2> QED
        BY <2>1, <2>2
<1>4. Start(w, t)
    BY DEF Register, a, b
<1> HIDE DEF d
<1>5. Route(d) /\ Head(d) \in {"preview", "count"}
    BY <1>1, <1>3 DEF Route, Linked
<1>6. t \in Task /\ t.who = n /\ t.todo = d
    BY <1>3, NothingType DEF Task, Idle, Linked
<1> HIDE DEF t
<1>7. Personal(t)
    BY <1>6, AccountsAssumption DEF Personal
<1> QED
    BY <1>3, <1>4, <1>5, <1>6, <1>7, StartBegins

LEMMA VisitBegins ==
    ASSUME TasksOK, NEW w \in Workers, NEW n \in Names, Visit(w, n)
    PROVE  TasksOK' /\ Begins(w, {"org?"}, n) /\ n \in accounts
<1> DEFINE a == <<"org?", "org", "member", "home">>
           t == [Idle EXCEPT !.todo = a, !.who = n]
<1>1. a \in Seq(Steps) /\ Len(a) = 4 /\ a # <<>> /\ Head(a) = "org?" /\ a[4] = "home"
    BY DEF Steps, ForUser
<1>2. \A i \in 1..3 : a[i + 1] \in After(a[i])
    BY DEF After
<1>3. Start(w, t) /\ n \in accounts
    BY DEF Visit
<1> HIDE DEF a
<1>4. Route(a)
    BY <1>1, <1>2 DEF Route, Linked, Ends
<1>5. t \in Task /\ t.who = n /\ t.todo = a
    BY <1>1, NothingType DEF Task, Idle
<1> HIDE DEF t
<1>6. Personal(t)
    BY <1>5, AccountsAssumption DEF Personal
<1> QED
    BY <1>1, <1>3, <1>4, <1>5, <1>6, StartBegins

LEMMA PatchBegins ==
    ASSUME TasksOK, NEW w \in Workers, NEW n \in Names, NEW flag \in BOOLEAN,
           Patch(w, n, flag)
    PROVE  TasksOK' /\ Begins(w, {"row"}, n)
<1> DEFINE a == <<"row", "admins", "set">>
           t == [Idle EXCEPT !.todo = a, !.who = n, !.flag = flag]
<1>1. a \in Seq(Steps) /\ Len(a) = 3 /\ a # <<>> /\ Head(a) = "row" /\ a[3] = "set"
    BY DEF Steps, ForUser
<1>2. \A i \in 1..2 : a[i + 1] \in After(a[i])
    BY DEF After
<1>3. Start(w, t)
    BY DEF Patch
<1> HIDE DEF a
<1>4. Route(a)
    BY <1>1, <1>2 DEF Route, Linked, Ends
<1>5. t \in Task /\ t.who = n /\ t.todo = a
    BY <1>1, NothingType DEF Task, Idle
<1> HIDE DEF t
<1>6. Personal(t)
    BY <1>5, AccountsAssumption DEF Personal
<1> QED
    BY <1>1, <1>3, <1>4, <1>5, <1>6, StartBegins

\* The requests of the set-up, each with a route of its own.
LEMMA SetUpBegins ==
    ASSUME TasksOK, NEW w \in Workers, NEW a, Route(a), a # <<>>,
           \A i \in 1..Len(a) : a[i] \in ForSetup, SetUp(w, a)
    PROVE  TasksOK' /\ Begins(w, {Head(a)}, Nobody)
<1> DEFINE t == [Idle EXCEPT !.todo = a]
<1>1. Start(w, t)
    BY DEF SetUp
<1>2. t \in Task /\ t.who = Nobody /\ t.todo = a
    BY NothingType DEF Task, Idle, Route, Linked
<1> HIDE DEF t
<1>3. Personal(t)
    BY <1>2 DEF Personal
<1> QED
    BY <1>1, <1>2, <1>3, StartBegins

LEMMA SetUpsBegin ==
    ASSUME TasksOK, NEW w \in Workers,
           \/ OpenRegistration(w) \/ CloseRegistration(w) \/ KeepOpen(w)
           \/ KeepOpenOnPage(w) \/ Finish(w)
    PROVE  TasksOK' /\ Begins(w, {"open", "close", "setting", "ack", "list"}, Nobody)
<1>1. CASE OpenRegistration(w)
    <2> DEFINE a == <<"open">>
    <2>1. a \in Seq(Steps) /\ Len(a) = 1 /\ a # <<>> /\ Head(a) = "open" /\ a[1] = "open"
        BY DEF Steps, ForSetup
    <2>2. SetUp(w, a)
        BY <1>1 DEF OpenRegistration
    <2> HIDE DEF a
    <2>3. Route(a) /\ \A i \in 1..Len(a) : a[i] \in ForSetup
        BY <2>1 DEF Route, Linked, Ends, ForSetup
    <2>4. TasksOK' /\ Begins(w, {"open"}, Nobody)
        BY <2>1, <2>2, <2>3, SetUpBegins
    <2> QED
        BY <2>4 DEF Begins
<1>2. CASE CloseRegistration(w)
    <2> DEFINE a == <<"close", "ack?", "unack">>
    <2>1. a \in Seq(Steps) /\ Len(a) = 3 /\ a # <<>> /\ Head(a) = "close" /\ a[3] = "unack"
        BY DEF Steps, ForSetup
    <2>2. \A i \in 1..2 : a[i + 1] \in After(a[i])
        BY DEF After
    <2>3. \A i \in 1..3 : a[i] \in ForSetup
        BY DEF ForSetup
    <2>4. SetUp(w, a)
        BY <1>2 DEF CloseRegistration
    <2> HIDE DEF a
    <2>5. Route(a) /\ \A i \in 1..Len(a) : a[i] \in ForSetup
        BY <2>1, <2>2, <2>3 DEF Route, Linked, Ends
    <2>6. TasksOK' /\ Begins(w, {"close"}, Nobody)
        BY <2>1, <2>4, <2>5, SetUpBegins
    <2> QED
        BY <2>6 DEF Begins
<1>3. CASE KeepOpen(w)
    <2> DEFINE a == <<"setting", "ack">>
    <2>1. a \in Seq(Steps) /\ Len(a) = 2 /\ a # <<>> /\ Head(a) = "setting" /\ a[2] = "ack"
        BY DEF Steps, ForSetup
    <2>2. \A i \in 1..1 : a[i + 1] \in After(a[i])
        BY DEF After
    <2>3. \A i \in 1..2 : a[i] \in ForSetup
        BY DEF ForSetup
    <2>4. SetUp(w, a)
        BY <1>3 DEF KeepOpen
    <2> HIDE DEF a
    <2>5. Route(a) /\ \A i \in 1..Len(a) : a[i] \in ForSetup
        BY <2>1, <2>2, <2>3 DEF Route, Linked, Ends
    <2>6. TasksOK' /\ Begins(w, {"setting"}, Nobody)
        BY <2>1, <2>4, <2>5, SetUpBegins
    <2> QED
        BY <2>6 DEF Begins
<1>4. CASE KeepOpenOnPage(w)
    <2> DEFINE a == <<"ack">>
    <2>1. a \in Seq(Steps) /\ Len(a) = 1 /\ a # <<>> /\ Head(a) = "ack" /\ a[1] = "ack"
        BY DEF Steps, ForSetup
    <2>2. SetUp(w, a)
        BY <1>4 DEF KeepOpenOnPage
    <2> HIDE DEF a
    <2>3. Route(a) /\ \A i \in 1..Len(a) : a[i] \in ForSetup
        BY <2>1 DEF Route, Linked, Ends, ForSetup
    <2>4. TasksOK' /\ Begins(w, {"ack"}, Nobody)
        BY <2>1, <2>2, <2>3, SetUpBegins
    <2> QED
        BY <2>4 DEF Begins
<1>5. CASE Finish(w)
    <2> DEFINE a == <<"list", "keys", "policy", "acked", "complete">>
    <2>1. /\ a \in Seq(Steps) /\ Len(a) = 5 /\ a # <<>> /\ Head(a) = "list"
          /\ a[5] = "complete"
        BY DEF Steps, ForSetup
    <2>2. \A i \in 1..4 : a[i + 1] \in After(a[i])
        BY DEF After
    <2>3. \A i \in 1..5 : a[i] \in ForSetup
        BY DEF ForSetup
    <2>4. SetUp(w, a)
        BY <1>5 DEF Finish
    <2> HIDE DEF a
    <2>5. Route(a) /\ \A i \in 1..Len(a) : a[i] \in ForSetup
        BY <2>1, <2>2, <2>3 DEF Route, Linked, Ends
    <2>6. TasksOK' /\ Begins(w, {"list"}, Nobody)
        BY <2>1, <2>4, <2>5, SetUpBegins
    <2> QED
        BY <2>6 DEF Begins
<1> QED
    BY <1>1, <1>2, <1>3, <1>4, <1>5

-----------------------------------------------------------------------------
(* Types.                                                                  *)

\* The steps of requests for a user who has an account.
Late == {"org?", "org", "member", "home", "redeem", "admins", "set"}

UsersOK == \A w \in Workers : Pc(w) \in Late => task[w].who \in accounts

Base == TypeOK /\ TasksOK /\ UsersOK

\* Only worker w moves.
Alone(w) == \A v \in Workers \ {w} : task'[v] = task[v] /\ Pc(v)' = Pc(v)

LEMMA UsersKept ==
    ASSUME UsersOK, accounts \subseteq accounts', NEW w \in Workers, Alone(w),
           Pc(w)' \in Late => task'[w].who \in accounts'
    PROVE  UsersOK'
BY DEF UsersOK, Alone

\* The steps that look, or start, and write no table.
Looking(w) ==
    \/ Preview(w) \/ CountAccounts(w) \/ ReadSetting(w) \/ CheckTaken(w) \/ CheckFirst(w)
    \/ SkipNaming(w) \/ CheckLocked(w) \/ FindTitle(w) \/ FindOrg(w)
    \/ ReadRow(w) \/ CountAdmins(w)
    \/ ReadAck(w) \/ ListAdmins(w) \/ LookForKey(w) \/ ReadPolicy(w) \/ ReadAcked(w)

Arriving(w) ==
    \/ \E n \in Names, t \in Titles, invited \in BOOLEAN : Register(w, n, t, invited)
    \/ \E n \in Names : Visit(w, n)
    \/ \E n \in Names, flag \in BOOLEAN : Patch(w, n, flag)
    \/ OpenRegistration(w) \/ CloseRegistration(w) \/ KeepOpen(w) \/ KeepOpenOnPage(w)
    \/ Finish(w)

Writing(w) ==
    \/ Upsert(w) \/ Rename(w) \/ EnsureLibrary(w) \/ Insert(w) \/ CreateOrg(w) \/ JoinOrg(w)
    \/ Redeem(w) \/ SetAdmin(w) \/ SetRegistration(w) \/ ForgetAck(w) \/ KeepAck(w)
    \/ Complete(w)

LEMMA WorkerCases ==
    ASSUME NEW w \in Workers, Serve(w) \/ \E n \in Names : Visit(w, n)
    PROVE  Looking(w) \/ Arriving(w) \/ Writing(w)
BY DEF Serve, Registration, Administration, FirstRun, Looking, Arriving, Writing

\* The step a worker must be at for an action.
LEMMA PcAt ==
    ASSUME NEW w \in Workers, NEW step, At(w, step)
    PROVE  Pc(w) = step /\ task[w].todo # <<>>
BY DEF At, Pc, IsIdle

LEMMA LookingFrame ==
    ASSUME NEW w \in Workers, Looking(w)
    PROVE  UNCHANGED <<people, policy, starts, asked>>
BY DEF Looking, Preview, CountAccounts, ReadSetting, CheckTaken, CheckFirst, SkipNaming,
       CheckLocked, FindTitle, FindOrg, ReadRow, CountAdmins, ReadAck, ListAdmins, LookForKey,
       ReadPolicy, ReadAcked, Goto, Next1, Advance, Fail

LEMMA StartingFrame ==
    ASSUME NEW w \in Workers, Arriving(w)
    PROVE  /\ UNCHANGED <<people, policy, starts, crossed>>
           /\ asked < MaxRequests /\ asked' = asked + 1 /\ boot = "up"
BY DEF Arriving, Register, Visit, Patch, OpenRegistration, CloseRegistration, KeepOpen,
       KeepOpenOnPage, Finish, SetUp, Start, Ask

LEMMA StartingMoves ==
    ASSUME TasksOK, NEW w \in Workers, Arriving(w)
    PROVE  /\ TasksOK' /\ Alone(w) /\ Pc(w) = "idle"
           /\ \/ /\ Pc(w)' \in {"preview", "count", "row"} /\ task'[w].who \in Names
              \/ Pc(w)' = "org?" /\ task'[w].who \in accounts
              \/ Pc(w)' \in {"open", "close", "setting", "ack", "list"}
<1>1. CASE \E n \in Names, t \in Titles, invited \in BOOLEAN : Register(w, n, t, invited)
    <2>1. PICK n \in Names : TasksOK' /\ Begins(w, {"preview", "count"}, n)
        BY <1>1, RegisterBegins
    <2> QED
        BY <2>1 DEF Begins, Alone
<1>2. CASE \E n \in Names : Visit(w, n)
    <2>1. PICK n \in Names : TasksOK' /\ Begins(w, {"org?"}, n) /\ n \in accounts
        BY <1>2, VisitBegins
    <2> QED
        BY <2>1 DEF Begins, Alone
<1>3. CASE \E n \in Names, flag \in BOOLEAN : Patch(w, n, flag)
    <2>1. PICK n \in Names : TasksOK' /\ Begins(w, {"row"}, n)
        BY <1>3, PatchBegins
    <2> QED
        BY <2>1 DEF Begins, Alone
<1>4. CASE \/ OpenRegistration(w) \/ CloseRegistration(w) \/ KeepOpen(w)
           \/ KeepOpenOnPage(w) \/ Finish(w)
    <2>1. TasksOK' /\ Begins(w, {"open", "close", "setting", "ack", "list"}, Nobody)
        BY <1>4, SetUpsBegin
    <2> QED
        BY <2>1 DEF Begins, Alone
<1> QED
    BY <1>1, <1>2, <1>3, <1>4 DEF Arriving

\* Where a look leaves its worker.
LEMMA LookingMoves ==
    ASSUME TasksOK, admins \subseteq Names, NEW w \in Workers, Looking(w)
    PROVE  TasksOK' /\ Alone(w) /\ (Pc(w)' # "idle" => task'[w].who = task[w].who
                                                       /\ task'[w].flag = task[w].flag)
<1>1. CASE Preview(w) \/ ReadSetting(w) \/ CheckTaken(w) \/ CheckLocked(w)
    BY <1>1, EnrolMoves DEF Moves, MovesWith, Alone
<1>2. CASE CountAccounts(w) \/ CheckFirst(w) \/ SkipNaming(w) \/ FindTitle(w) \/ FindOrg(w)
    BY <1>2, CountMoves, CheckFirstMoves, SkipNamingMoves, FindTitleMoves, FindOrgMoves
       DEF Moves, MovesWith, Alone
<1>3. CASE ReadRow(w) \/ CountAdmins(w)
    BY <1>3, ReadRowMoves, AdministrationMoves DEF Moves, MovesWith, Alone
<1>4. CASE ReadAck(w) \/ ReadAcked(w)
    BY <1>4, FirstRunMoves DEF Moves, MovesWith, Alone
<1>5. CASE ListAdmins(w) \/ LookForKey(w) \/ ReadPolicy(w)
    BY <1>5, ListAdminsMoves, LookForKeyMoves, ReadPolicyMoves DEF Moves, MovesWith, Alone
<1> QED
    BY <1>1, <1>2, <1>3, <1>4, <1>5 DEF Looking

LEMMA LookingBase ==
    ASSUME Base, NEW w \in Workers, Looking(w)
    PROVE  Base'
<1>0. /\ TypeOK /\ TasksOK /\ UsersOK /\ admins \subseteq Names
      /\ UNCHANGED <<people, policy, starts, asked>>
    BY LookingFrame DEF Base, TypeOK
<1>1. TasksOK' /\ Alone(w)
    BY <1>0, LookingMoves
<1>2. crossed' \subseteq crossed \cup {"names", "demotions"}
    BY DEF Looking, Preview, CountAccounts, ReadSetting, CheckTaken, CheckFirst, SkipNaming,
           CheckLocked, FindTitle, FindOrg, ReadRow, CountAdmins, ReadAck, ListAdmins,
           LookForKey, ReadPolicy, ReadAcked
<1>3. TypeOK'
    <2>1. task' \in [Workers -> Task]
        BY <1>1 DEF TasksOK
    <2> QED
        BY <1>0, <1>2, <2>1 DEF TypeOK, people, policy, starts
<1>4. Pc(w)' \in Late => task'[w].who \in accounts
    <2>1. CASE FindOrg(w) \/ CountAdmins(w)
        <3>1. Pc(w) \in Late
            BY <2>1, PcAt DEF FindOrg, CountAdmins, Late
        <3> QED
            BY <1>0, <2>1, <3>1, FindOrgMoves, AdministrationMoves
               DEF Moves, MovesWith, UsersOK, Late
    <2>2. CASE ReadRow(w)
        BY <1>0, <2>2, ReadRowMoves DEF Moves, MovesWith, Late
    <2>3. CASE Preview(w) \/ ReadSetting(w) \/ CheckTaken(w) \/ CheckLocked(w)
        BY <1>0, <2>3, EnrolMoves DEF Moves, MovesWith, Late
    <2>4. CASE CountAccounts(w) \/ CheckFirst(w) \/ SkipNaming(w) \/ FindTitle(w)
        BY <1>0, <2>4, CountMoves, CheckFirstMoves, SkipNamingMoves, FindTitleMoves
           DEF Moves, MovesWith, Late
    <2>5. CASE ReadAck(w) \/ ReadAcked(w)
        BY <1>0, <2>5, FirstRunMoves DEF Moves, MovesWith, Late
    <2>6. CASE ListAdmins(w) \/ LookForKey(w) \/ ReadPolicy(w)
        BY <1>0, <2>6, ListAdminsMoves, LookForKeyMoves, ReadPolicyMoves
           DEF Moves, MovesWith, Late
    <2> QED
        BY <2>1, <2>2, <2>3, <2>4, <2>5, <2>6 DEF Looking
<1>5. UsersOK'
    BY <1>0, <1>1, <1>4, UsersKept DEF people
<1> QED
    BY <1>1, <1>3, <1>5 DEF Base

LEMMA StartingBase ==
    ASSUME Base, NEW w \in Workers, Arriving(w)
    PROVE  Base'
<1>0. /\ TypeOK /\ TasksOK /\ UsersOK
      /\ UNCHANGED <<people, policy, starts, crossed>>
      /\ asked < MaxRequests /\ asked' = asked + 1
    BY StartingFrame DEF Base
<1>1. TasksOK' /\ Alone(w) /\ (Pc(w)' \in Late => task'[w].who \in accounts)
    BY <1>0, StartingMoves DEF Late
<1>2. TypeOK'
    <2>1. task' \in [Workers -> Task]
        BY <1>1 DEF TasksOK
    <2>2. asked' \in 0..MaxRequests
        BY <1>0, AccountsAssumption DEF TypeOK
    <2> QED
        BY <1>0, <2>1, <2>2 DEF TypeOK, people, policy, starts
<1> QED
    BY <1>0, <1>1, <1>2, UsersKept DEF Base, people

\* What the writing steps have in common.
LEMMA WritingMoves ==
    ASSUME TasksOK, NEW w \in Workers, Writing(w)
    PROVE  /\ TasksOK' /\ Alone(w) /\ UNCHANGED <<starts, asked>>
           /\ Pc(w)' # "idle" => task'[w].who = task[w].who /\ task'[w].flag = task[w].flag
                                  /\ task'[w].first = task[w].first
<1>1. UNCHANGED <<starts, asked>>
    BY DEF Writing, Upsert, Rename, EnsureLibrary, Insert, CreateOrg, JoinOrg, Redeem, SetAdmin,
           SetRegistration, ForgetAck, KeepAck, Complete, Advance, Fail, Next1, Goto
<1>2. CASE Upsert(w) \/ Rename(w) \/ EnsureLibrary(w) \/ Insert(w) \/ CreateOrg(w)
           \/ JoinOrg(w) \/ Redeem(w)
    BY <1>1, <1>2, EnrolMoves DEF Moves, MovesWith, Alone
<1>3. CASE SetAdmin(w)
    BY <1>1, <1>3, AdministrationMoves DEF Moves, MovesWith, Alone
<1>4. CASE SetRegistration(w) \/ ForgetAck(w) \/ KeepAck(w) \/ Complete(w)
    BY <1>1, <1>4, FirstRunMoves DEF Moves, MovesWith, Alone
<1> QED
    BY <1>2, <1>3, <1>4 DEF Writing

LEMMA WritingBase ==
    ASSUME Base, NEW w \in Workers, Writing(w)
    PROVE  Base'
<1>0. TypeOK /\ TasksOK /\ UsersOK
    BY DEF Base
<1>1. TasksOK' /\ Alone(w) /\ UNCHANGED <<starts, asked>> /\ task' \in [Workers -> Task]
    BY <1>0, WritingMoves DEF TasksOK
<1>a. /\ starts' = starts => /\ boot' = boot /\ script' = script /\ rowKey' = rowKey
                             /\ fileKey' = fileKey /\ broken' = broken
                             /\ minted' = minted /\ crashes' = crashes
    BY DEF starts
<1> DEFINE n == task[w].who
<1>2. CASE Upsert(w) \/ Rename(w)
    <2>1. Pc(w) \in ForUser
        BY <1>2, PcAt DEF Upsert, Rename, ForUser
    <2>2. n \in Names /\ task[w] \in Task
        BY <1>0, <2>1, KnownUser DEF TypeOK
    <2>3. /\ UNCHANGED <<accounts, admins, libraries, orgs, owners, keys, invite, policy, crossed>>
          /\ \/ principals' = principals
             \/ principals' = [principals EXCEPT ![n].title = task[w].title]
             \/ principals' = [principals EXCEPT ![n] = [title |-> task[w].title,
                                                         locked |-> TRUE]]
        BY <1>2 DEF Upsert, Rename
    <2> DEFINE t == task[w].title
               r == [title |-> t, locked |-> TRUE]
    <2>a. principals \in [Names -> Principal] /\ t \in Titles \cup Names \cup {Nobody}
        BY <1>0, <2>2 DEF TypeOK, Task
    <2>b. r \in Principal
        BY <2>a DEF Principal
    <2>c. [principals[n] EXCEPT !.title = t] \in Principal
        BY <2>a, <2>2 DEF Principal
    <2>4. principals' \in [Names -> Principal]
        <3>1. CASE principals' = principals
            BY <3>1, <2>a
        <3>2. CASE principals' = [principals EXCEPT ![n].title = task[w].title]
            BY <3>2, <2>a, <2>c, <2>2
        <3>3. CASE principals' = [principals EXCEPT ![n] = [title |-> task[w].title,
                                                            locked |-> TRUE]]
            BY <3>3, <2>a, <2>b, <2>2
        <3> QED
            BY <3>1, <3>2, <3>3, <2>3
    <2> HIDE DEF t, r
    <2>5. TypeOK'
        BY <1>0, <1>1, <1>a, <2>3, <2>4 DEF TypeOK, policy
    <2>6. Pc(w)' \notin Late
        BY <1>0, <1>2, EnrolMoves DEF Moves, MovesWith, Late
    <2> QED
        BY <1>0, <1>1, <2>3, <2>5, <2>6, UsersKept DEF Base
<1>3. CASE Insert(w)
    <2>1. n \in Names
        BY <1>0, <1>3, PcAt, KnownUser DEF Insert, ForUser
    <2>2. /\ UNCHANGED <<principals, libraries, orgs, owners, keys, invite, policy, crossed>>
          /\ accounts \subseteq accounts' /\ accounts' \subseteq accounts \cup {n}
          /\ admins' \subseteq admins \cup (accounts' \cap {n})
          /\ Pc(w)' # "idle" => n \in accounts'
        <3>1. CASE n \in accounts
            <4>1. task'[w] = Idle
                BY <1>0, <1>3, <3>1 DEF Insert, Fail, Goto, TypeOK
            <4>2. Pc(w)' = "idle"
                BY <4>1, NothingType DEF Pc, IsIdle
            <4> QED
                BY <1>3, <3>1, <4>2 DEF Insert
        <3>2. CASE n \notin accounts
            BY <1>3, <3>2 DEF Insert
        <3> QED
            BY <3>1, <3>2
    <2>3. TypeOK'
        BY <1>0, <1>1, <1>a, <2>1, <2>2 DEF TypeOK, policy
    <2>4. Pc(w)' # "idle" => task'[w].who = n
        BY <1>0, <1>3, EnrolMoves DEF Moves, MovesWith
    <2> QED
        BY <1>0, <1>1, <2>2, <2>3, <2>4, UsersKept DEF Base, Late
<1>4. CASE EnsureLibrary(w) \/ CreateOrg(w) \/ JoinOrg(w) \/ Redeem(w)
    <2>1. Pc(w) \in ForUser
        BY <1>4, PcAt DEF EnsureLibrary, CreateOrg, JoinOrg, Redeem, ForUser
    <2>2. n \in Names
        BY <1>0, <2>1, KnownUser
    <2>3. /\ UNCHANGED <<accounts, admins, principals, keys, policy, crossed>>
          /\ libraries' \subseteq libraries \cup {n} /\ orgs' \subseteq orgs \cup {n}
          /\ owners' \subseteq owners \cup {n} /\ invite' \in BOOLEAN
        BY <1>0, <1>4 DEF EnsureLibrary, CreateOrg, JoinOrg, Redeem, StoreLibrary, TypeOK
    <2>4. TypeOK'
        BY <1>0, <1>1, <1>a, <2>2, <2>3 DEF TypeOK, policy
    <2>5. Pc(w)' \in Late => Pc(w) \in Late /\ task'[w].who = n
        <3>1. CASE EnsureLibrary(w)
            <4>1. Pc(w) \in {"library", "home"}
                BY <3>1, PcAt DEF EnsureLibrary
            <4> QED
                BY <1>0, <3>1, <4>1, EnrolMoves DEF Moves, MovesWith, Late
        <3>2. CASE CreateOrg(w) \/ JoinOrg(w) \/ Redeem(w)
            <4>1. Pc(w) \in {"org", "member", "redeem"}
                BY <3>2, PcAt DEF CreateOrg, JoinOrg, Redeem
            <4> QED
                BY <1>0, <3>2, <4>1, EnrolMoves DEF Moves, MovesWith, Late
        <3> QED
            BY <1>4, <3>1, <3>2
    <2> QED
        BY <1>0, <1>1, <2>3, <2>4, <2>5, UsersKept DEF Base, UsersOK
<1>5. CASE SetAdmin(w)
    <2>1. n \in accounts
        BY <1>0, <1>5, PcAt DEF SetAdmin, UsersOK, Late
    <2>2. /\ UNCHANGED <<accounts, principals, libraries, orgs, owners, keys, invite, policy,
                         crossed>>
          /\ admins' \subseteq admins \cup {n}
        BY <1>5 DEF SetAdmin
    <2>3. TypeOK'
        BY <1>0, <1>1, <1>a, <2>1, <2>2 DEF TypeOK, policy
    <2>4. Pc(w)' \notin Late
        BY <1>0, <1>5, AdministrationMoves DEF Moves, MovesWith, Late
    <2> QED
        BY <1>0, <1>1, <2>2, <2>3, <2>4, UsersKept DEF Base
<1>6. CASE SetRegistration(w) \/ ForgetAck(w) \/ KeepAck(w) \/ Complete(w)
    <2>1. /\ UNCHANGED people /\ crossed' \subseteq crossed \cup {"ack"}
          /\ setting' \in {setting, "true", "false"}
          /\ ack' \in {ack, TRUE, FALSE} /\ complete' \in {complete, TRUE}
        BY <1>6 DEF SetRegistration, ForgetAck, KeepAck, Complete
    <2>2. TypeOK'
        BY <1>0, <1>1, <1>a, <2>1 DEF TypeOK, people
    <2>3. Pc(w)' \notin Late
        BY <1>0, <1>6, FirstRunMoves DEF Moves, MovesWith, Late
    <2> QED
        BY <1>0, <1>1, <2>1, <2>2, <2>3, UsersKept DEF Base, people
<1> QED
    BY <1>2, <1>3, <1>4, <1>5, <1>6 DEF Writing

-----------------------------------------------------------------------------
(* The keys of the accounts, the bootstrap key, and the crashes.           *)

LEMMA NextCases ==
    ASSUME [Next]_vars
    PROVE  \/ \E w \in Workers : Looking(w) \/ Arriving(w) \/ Writing(w)
           \/ \E n \in Names : MintKey(n) \/ RevokeKeys(n)
           \/ Starting \/ Rotate \/ Crash \/ ScriptDies \/ UNCHANGED vars
<1>1. CASE \E w \in Workers : Serve(w)
    BY <1>1, WorkerCases
<1>2. CASE \E w \in Workers, n \in Names : Visit(w, n)
    BY <1>2, WorkerCases
<1> QED
    BY <1>1, <1>2 DEF Next

LEMMA TasksKept ==
    ASSUME TasksOK, task' = task
    PROVE  TasksOK' /\ \A w \in Workers : Pc(w)' = Pc(w)
BY DEF TasksOK, Pc, IsIdle

\* A crash leaves every worker idle.
LEMMA CrashIdles ==
    ASSUME Crash
    PROVE  /\ TasksOK' /\ task' \in [Workers -> Task]
           /\ \A w \in Workers : task'[w] = Idle /\ Pc(w)' = "idle"
<1>1. task' = [w \in Workers |-> Idle]
    BY DEF Crash
<1>2. \A w \in Workers : task'[w] = Idle
    BY <1>1
<1>3. /\ Idle \in Task /\ Route(Idle.todo) /\ Personal(Idle) /\ Idle.todo = <<>>
    BY NothingType
<1> QED
    BY <1>1, <1>2, <1>3 DEF TasksOK, Pc, IsIdle

LEMMA LockType ==
    ASSUME principals \in [Names -> Principal], LockTitles
    PROVE  /\ principals' \in [Names -> Principal]
           /\ \A n \in Names : /\ principals'[n].title = principals[n].title
                               /\ principals[n].locked => principals'[n] = principals[n]
<1> DEFINE lock(n) == principals[n].title \notin Odd \cup {Nobody}
           p(n) == [principals[n] EXCEPT !.locked = @ \/ lock(n)]
<1>1. principals' = [n \in Names |-> p(n)]
    BY DEF LockTitles
<1>2. ASSUME NEW n \in Names
      PROVE  /\ p(n) \in Principal /\ p(n).title = principals[n].title
             /\ principals[n].locked => p(n) = principals[n]
    <2>1. /\ principals[n] \in Principal /\ principals[n].locked \in BOOLEAN
          /\ (principals[n].locked \/ lock(n)) \in BOOLEAN
        BY DEF Principal
    <2>2. p(n) \in Principal /\ p(n).title = principals[n].title
        BY <2>1 DEF Principal
    <2>3. ASSUME principals[n].locked
          PROVE  p(n) = principals[n]
        <3>1. principals[n].locked = TRUE /\ (principals[n].locked \/ lock(n)) = TRUE
            BY <2>1, <2>3
        <3>2. p(n) = [principals[n] EXCEPT !.locked = TRUE]
            BY <3>1
        <3> QED
            BY <2>1, <3>1, <3>2 DEF Principal
    <2> QED
        BY <2>2, <2>3
<1> HIDE DEF p
<1> QED
    BY <1>1, <1>2

LEMMA BaseStep ==
    ASSUME Base, [Next]_vars
    PROVE  Base'
<1>0. TypeOK /\ TasksOK /\ UsersOK
    BY DEF Base
<1>1. CASE \E w \in Workers : Looking(w) \/ Arriving(w) \/ Writing(w)
    BY <1>1, LookingBase, StartingBase, WritingBase
<1>2. ASSUME task' = task, accounts' = accounts
      PROVE  TasksOK' /\ UsersOK'
    BY <1>0, <1>2, TasksKept DEF UsersOK
<1>3. ASSUME NEW n \in Names, MintKey(n) \/ RevokeKeys(n)
      PROVE  Base'
    <2>1. /\ UNCHANGED <<accounts, admins, principals, libraries, orgs, owners, invite, policy,
                         task, starts, crossed>>
          /\ keys' \subseteq accounts /\ asked < MaxRequests /\ asked' = asked + 1
        BY <1>0, <1>3 DEF MintKey, RevokeKeys, Ask, TypeOK
    <2>2. asked' \in 0..MaxRequests
        BY <1>0, <2>1, AccountsAssumption DEF TypeOK
    <2>3. TypeOK'
        BY <1>0, <2>1, <2>2 DEF TypeOK, policy, starts
    <2> QED
        BY <1>2, <2>1, <2>3 DEF Base
<1>4. CASE Starting
    <2>1. UNCHANGED Rest /\ crashes' = crashes
        BY <1>4 DEF Starting, FindFile, FindRow, DeleteRow, InsertRow, OpenFile, FillFile
    <2>2. {boot', script'} \subseteq {"file", "row", "delete", "insert", "write", "fill", "up"}
        BY <1>0, <1>4
           DEF Starting, FindFile, FindRow, DeleteRow, InsertRow, OpenFile, FillFile, TypeOK
    <2>a. broken' = broken \/ broken' = FALSE
        BY <1>4 DEF Starting, FindFile, FindRow, DeleteRow, InsertRow, OpenFile, FillFile
    <2>b. broken' \in BOOLEAN
        BY <1>0, <2>a DEF TypeOK
    <2>3. {rowKey', minted'} \subseteq Keys /\ fileKey' \in Keys \cup {Empty}
        BY <1>0, <1>4, AccountsAssumption
           DEF Starting, FindFile, FindRow, DeleteRow, InsertRow, OpenFile, FillFile, TypeOK, Keys, NoKey
    <2>4. TypeOK'
        BY <1>0, <2>1, <2>2, <2>b, <2>3 DEF TypeOK, Rest, people, policy
    <2> QED
        BY <1>2, <2>1, <2>4 DEF Base, Rest, people
<1>5. CASE Rotate
    <2>1. /\ principals' \in [Names -> Principal]
          /\ UNCHANGED <<accounts, admins, libraries, orgs, owners, keys, invite, policy, task,
                         boot, rowKey, fileKey, broken, minted, crashes>>
          /\ asked + 2 <= MaxRequests /\ asked' = asked + 2 /\ script' = "row"
          /\ crossed' \subseteq crossed \cup {"names"}
        BY <1>0, <1>5, LockType DEF Rotate, TypeOK
    <2>2. asked' \in 0..MaxRequests
        BY <1>0, <2>1, AccountsAssumption DEF TypeOK
    <2>3. TypeOK'
        BY <1>0, <2>1, <2>2 DEF TypeOK, policy
    <2> QED
        BY <1>2, <2>1, <2>3 DEF Base
<1>6. CASE Crash
    <2>1. /\ principals' \in [Names -> Principal]
          /\ UNCHANGED <<accounts, admins, libraries, orgs, owners, keys, invite, policy, asked,
                         script, rowKey, fileKey, minted>>
          /\ crashes < MaxCrashes /\ crashes' = crashes + 1 /\ boot' = "file"
          /\ broken' \in BOOLEAN
          /\ crossed' \subseteq crossed \cup {"owner", "ack"}
        BY <1>0, <1>6, LockType DEF Crash, TypeOK
    <2>2. crashes' \in 0..MaxCrashes
        BY <1>0, <2>1, AccountsAssumption DEF TypeOK
    <2>3. /\ TasksOK' /\ task' \in [Workers -> Task]
          /\ \A w \in Workers : Pc(w)' = "idle"
        BY <1>6, CrashIdles
    <2>4. TypeOK'
        BY <1>0, <2>1, <2>2, <2>3 DEF TypeOK, policy
    <2>5. UsersOK'
        BY <2>3 DEF UsersOK, Late
    <2> QED
        BY <2>3, <2>4, <2>5 DEF Base
<1>7. CASE ScriptDies
    <2>1. /\ UNCHANGED <<people, policy, task, asked, crossed, boot, rowKey, fileKey, minted>>
          /\ crashes < MaxCrashes /\ crashes' = crashes + 1 /\ script' = "up"
          /\ broken' \in BOOLEAN
        BY <1>7 DEF ScriptDies, Rest
    <2>2. crashes' \in 0..MaxCrashes
        BY <1>0, <2>1, AccountsAssumption DEF TypeOK
    <2>3. TypeOK'
        BY <1>0, <2>1, <2>2 DEF TypeOK, policy, people
    <2> QED
        BY <1>2, <2>1, <2>3 DEF Base, people
<1>8. CASE UNCHANGED vars
    <2>1. UNCHANGED <<people, policy, task, asked, starts, crossed>>
        BY <1>8 DEF vars
    <2>2. TypeOK'
        BY <1>0, <2>1 DEF TypeOK, people, policy, starts
    <2> QED
        BY <1>2, <2>1, <2>2 DEF Base, people
<1> QED
    BY <1>1, <1>3, <1>4, <1>5, <1>6, <1>7, <1>8, NextCases

LEMMA BaseInit == Init => Base
<1>1. SUFFICES ASSUME Init PROVE Base
    OBVIOUS
<1>2. /\ Idle \in Task /\ Route(Idle.todo) /\ Personal(Idle) /\ Idle.todo = <<>>
    BY NothingType
<1>3. /\ task \in [Workers -> Task]
      /\ \A w \in Workers : task[w] = Idle /\ Pc(w) = "idle"
    BY <1>1, <1>2 DEF Init, Pc, IsIdle
<1>4. principals \in [Names -> Principal]
    BY <1>1 DEF Init, Principal, NoPrincipal
<1>5. TypeOK
    <2>1. /\ accounts = {} /\ admins = {} /\ libraries = {} /\ orgs = {} /\ owners = {}
          /\ keys = {} /\ invite = TRUE /\ setting = "unset" /\ ack = FALSE
          /\ complete = FALSE /\ boot = "file" /\ script = "up" /\ crossed = {}
        BY <1>1 DEF Init
    <2>a. broken \in BOOLEAN
        BY <1>1 DEF Init
    <2>2. rowKey = 0 /\ fileKey = 0 /\ minted = 0 /\ crashes = 0 /\ asked = 0
        BY <1>1 DEF Init, NoKey
    <2>3. {rowKey, minted} \subseteq Keys /\ fileKey \in Keys \cup {Empty}
        BY <2>2, AccountsAssumption DEF Keys
    <2>4. crashes \in 0..MaxCrashes /\ asked \in 0..MaxRequests
        BY <2>2, AccountsAssumption
    <2> QED
        BY <1>3, <1>4, <2>1, <2>a, <2>3, <2>4 DEF TypeOK
<1>6. TasksOK /\ UsersOK
    BY <1>2, <1>3 DEF TasksOK, UsersOK, Late
<1> QED
    BY <1>5, <1>6 DEF Base

LEMMA BaseHolds == Spec => []Base
<1>1. Base /\ [Next]_vars => Base'
    BY BaseStep
<1> QED
    BY BaseInit, <1>1, PTL DEF Spec

\* The tables, the workers and the start of the server hold what their types
\* say: an administrator and the owner of a key is an account.
THEOREM AccountsTypeCorrect == Spec => []TypeOK
<1>1. Base => TypeOK
    BY DEF Base
<1> QED
    BY BaseHolds, <1>1, PTL

-----------------------------------------------------------------------------
(* The key file.                                                           *)

\* The server and the script are never at the key together: the script runs
\* when there is a file, and a server that finds one leaves it.  The file and
\* the row part only between the script's DELETE and the end of its write, and
\* while the server writes the first file.
KeysOK ==
    /\ boot = "up" \/ script # "up" => fileKey # NoKey
    /\ script # "up" => boot \in {"file", "up"}
    /\ script # "file"
    /\ boot \in {"row", "delete", "insert", "write"} => fileKey = NoKey
    /\ {boot, script} \cap {"write", "fill"} # {} => rowKey # NoKey
    /\ \/ broken \/ fileKey = NoKey \/ fileKey = rowKey
       \/ boot = "fill" \/ script \in {"insert", "write", "fill"}

LEMMA WorkersKeepStarts ==
    ASSUME Base, NEW w \in Workers, Looking(w) \/ Arriving(w) \/ Writing(w)
    PROVE  /\ UNCHANGED <<boot, script, rowKey, fileKey, broken, minted, crashes>>
           /\ crossed \subseteq crossed'
<1>1. starts' = starts
    BY LookingFrame, StartingFrame, WritingMoves DEF Base
<1>2. crossed \subseteq crossed'
    BY StartingFrame
       DEF Looking, Writing, Preview, CountAccounts, ReadSetting, CheckTaken, CheckFirst,
           SkipNaming, CheckLocked, FindTitle, FindOrg, ReadRow, CountAdmins, ReadAck, ListAdmins,
           LookForKey, ReadPolicy, ReadAcked, Upsert, Rename, EnsureLibrary, Insert, CreateOrg,
           JoinOrg, Redeem, SetAdmin, SetRegistration, ForgetAck, KeepAck, Complete, people
<1> QED
    BY <1>1, <1>2 DEF starts

LEMMA KeysStep ==
    ASSUME Base, KeysOK, [Next]_vars
    PROVE  KeysOK'
<1>0. /\ minted \in Nat /\ minted + 1 # NoKey
      /\ boot \in {"file", "row", "delete", "insert", "write", "fill", "up"}
      /\ script \in {"file", "row", "delete", "insert", "write", "fill", "up"}
      /\ Empty # NoKey
    BY AccountsAssumption DEF Base, TypeOK, Keys, NoKey
<1>1. CASE \E w \in Workers : Looking(w) \/ Arriving(w) \/ Writing(w)
    BY <1>1, WorkersKeepStarts DEF KeysOK
<1>2. CASE \E n \in Names : MintKey(n) \/ RevokeKeys(n)
    BY <1>2 DEF MintKey, RevokeKeys, KeysOK, starts
<1>3. CASE FindFile
    BY <1>3 DEF FindFile, KeysOK, Rest
<1>4. CASE FindRow
    BY <1>0, <1>4 DEF FindRow, KeysOK, Rest
<1>5. CASE DeleteRow
    BY <1>0, <1>5 DEF DeleteRow, KeysOK, Rest
<1>6. CASE InsertRow
    BY <1>0, <1>6 DEF InsertRow, KeysOK, Rest
<1>7. CASE OpenFile
    BY <1>0, <1>7 DEF OpenFile, KeysOK, Rest
<1>12. CASE FillFile
    BY <1>0, <1>12 DEF FillFile, KeysOK, Rest
<1>8. CASE Rotate
    BY <1>0, <1>8 DEF Rotate, KeysOK, Ask
<1>9. CASE Crash
    BY <1>0, <1>9 DEF Crash, KeysOK
<1>10. CASE ScriptDies
    BY <1>0, <1>10 DEF ScriptDies, KeysOK, Rest
<1>11. CASE UNCHANGED vars
    BY <1>11 DEF vars, starts, KeysOK
<1> QED
    BY <1>1, <1>2, <1>3, <1>4, <1>5, <1>6, <1>7, <1>8, <1>9, <1>10, <1>11, <1>12,
       NextCases
       DEF Starting

\* While the server serves and nobody rotates the key, the file holds the key
\* that the row of api_keys was made from, wherever earlier starts of the server
\* died: but for a rotation that broke off between its DELETE and the end of its
\* write, or a start that died inside the write, until a rotation goes through.
THEOREM FileOpens == Spec => []KeyFileOpens
<1>1. Init => KeysOK
    BY DEF Init, KeysOK, NoKey
<1>2. Base /\ KeysOK /\ [Next]_vars => KeysOK'
    BY KeysStep
<1>3. KeysOK => KeyFileOpens
    BY DEF KeysOK, KeyFileOpens
<1> QED
    BY <1>1, <1>2, <1>3, BaseHolds, PTL DEF Spec

-----------------------------------------------------------------------------
(* The set-up.                                                             *)

\* A worker that skips to a step, or goes on from one that is not the last,
\* gets there.
LEMMA SkipLands ==
    ASSUME TasksOK, NEW w \in Workers, NEW k \in 1..Len(task[w].todo),
           task' = [task EXCEPT ![w] =
                       [task[w] EXCEPT !.todo = SubSeq(task[w].todo, k, Len(task[w].todo))]]
    PROVE  /\ Pc(w)' = task[w].todo[k]
           /\ task'[w].who = task[w].who /\ task'[w].title = task[w].title
<1> DEFINE r == SubSeq(task[w].todo, k, Len(task[w].todo))
<1>1. task \in [Workers -> Task] /\ r # <<>> /\ Head(r) = task[w].todo[k]
    BY RouteFrom DEF TasksOK
<1> HIDE DEF r
<1>2. task' = [task EXCEPT ![w] = [task[w] EXCEPT !.todo = r]]
    BY DEF r
<1>3. task'[w] = [task[w] EXCEPT !.todo = r] /\ task[w] \in Task
    BY <1>1, <1>2
<1>4. /\ task'[w].todo = r /\ task'[w].who = task[w].who
      /\ task'[w].title = task[w].title
    BY <1>3 DEF Task
<1> QED
    BY <1>1, <1>4 DEF Pc, IsIdle

LEMMA AdvanceLands ==
    ASSUME TasksOK, NEW w \in Workers, NEW step, At(w, step), Advance(w), step \notin Ends
    PROVE  /\ Pc(w)' \in After(step)
           /\ task'[w].who = task[w].who /\ task'[w].title = task[w].title
<1> DEFINE s == task[w].todo
<1>1. /\ 2 \in 1..Len(s) /\ s[2] \in After(step) /\ Tail(s) = SubSeq(s, 2, Len(s))
      /\ Len(s) \in Nat
    BY SecondStep
<1>2. Len(s) # 1
    BY <1>1
<1>3. task' = [task EXCEPT ![w] = [task[w] EXCEPT !.todo = Tail(s)]]
    BY <1>2 DEF Advance, Next1, Goto
<1>4. task' = [task EXCEPT ![w] = [task[w] EXCEPT !.todo = SubSeq(s, 2, Len(s))]]
    BY <1>1, <1>3
<1>5. /\ Pc(w)' = s[2]
      /\ task'[w].who = task[w].who /\ task'[w].title = task[w].title
    BY <1>1, <1>4, SkipLands
<1> QED
    BY <1>1, <1>5

LEMMA ClosingPc ==
    ASSUME NEW w \in Workers
    PROVE  /\ Closing(w) <=> Pc(w) \in {"ack?", "unack"}
           /\ Closing(w)' <=> Pc(w)' \in {"ack?", "unack"}
BY DEF Closing, At, Pc, IsIdle

\* A worker keeps to the closing of the registration, or ends it rightly.
LEMMA ClosingStays ==
    ASSUME Base, NEW w \in Workers, Looking(w) \/ Arriving(w) \/ Writing(w),
           ack, ack', setting' = "false"
    PROVE  /\ Closing(w) => Closing(w)'
           /\ \A v \in Workers \ {w} : Closing(v) => Closing(v)'
<1>0. TasksOK /\ admins \subseteq Names
    BY DEF Base, TypeOK
<1>1. Alone(w)
    BY <1>0, LookingMoves, StartingMoves, WritingMoves
<1>2. \A v \in Workers \ {w} : Closing(v) => Closing(v)'
    BY <1>1, ClosingPc DEF Alone
<1>3. ASSUME Closing(w) PROVE Closing(w)'
    <2>1. Pc(w) \in {"ack?", "unack"}
        BY <1>3, ClosingPc
    <2>2. ReadAck(w) \/ ForgetAck(w)
        <3>1. CASE Arriving(w)
            BY <1>0, <2>1, <3>1, StartingMoves
        <3>2. CASE Looking(w)
            BY <2>1, <3>2, PcAt
               DEF Looking, Preview, CountAccounts, ReadSetting, CheckTaken, CheckFirst,
                   SkipNaming, CheckLocked, FindTitle, FindOrg, ReadRow, CountAdmins, ReadAck,
                   ListAdmins, LookForKey, ReadPolicy, ReadAcked
        <3>3. CASE Writing(w)
            BY <2>1, <3>3, PcAt
               DEF Writing, Upsert, Rename, EnsureLibrary, Insert, CreateOrg, JoinOrg, Redeem,
                   SetAdmin, SetRegistration, ForgetAck, KeepAck, Complete
        <3> QED
            BY <3>1, <3>2, <3>3
    <2>3. CASE ReadAck(w)
        <3>1. At(w, "ack?") /\ Advance(w)
            BY <2>3 DEF ReadAck
        <3>2. Pc(w)' \in {"unack"}
            BY <1>0, <3>1, AdvanceLands DEF After, Ends
        <3> QED
            BY <3>2, ClosingPc
    <2>4. CASE ForgetAck(w)
        BY <2>4 DEF ForgetAck
    <2> QED
        BY <2>2, <2>3, <2>4
<1> QED
    BY <1>2, <1>3

LEMMA AckStep ==
    ASSUME Base, ClosingForgetsAck, [Next]_vars
    PROVE  ClosingForgetsAck'
<1>0. TypeOK /\ TasksOK
    BY DEF Base
<1>1. SUFFICES ASSUME setting' = "false", ack', "ack" \notin crossed'
               PROVE  \E w \in Workers : Closing(w)'
    BY DEF ClosingForgetsAck
<1>2. CASE \E w \in Workers : Looking(w) \/ Arriving(w) \/ Writing(w)
    <2>1. PICK w \in Workers : Looking(w) \/ Arriving(w) \/ Writing(w)
        BY <1>2
    <2>2. "ack" \notin crossed
        BY <1>1, <2>1, WorkersKeepStarts
    <2>3. CASE SetRegistration(w)
        <3>1. At(w, "close") /\ Advance(w)
            BY <1>1, <2>3 DEF SetRegistration
        <3>2. Pc(w)' \in {"ack?"}
            BY <1>0, <3>1, AdvanceLands DEF After, Ends
        <3> QED
            BY <3>2, ClosingPc
    <2>4. CASE KeepAck(w)
        BY <1>1, <2>4 DEF KeepAck
    <2>5. CASE ~SetRegistration(w) /\ ~KeepAck(w)
        <3>1. setting' = setting
            BY <2>1, <2>5, LookingFrame, StartingFrame
               DEF policy, Writing, Upsert, Rename, EnsureLibrary, Insert, CreateOrg, JoinOrg,
                   Redeem, SetAdmin, ForgetAck, Complete
        <3>2. ack
            BY <1>1, <2>1, <2>5, LookingFrame, StartingFrame
               DEF policy, Writing, Upsert, Rename, EnsureLibrary, Insert, CreateOrg, JoinOrg,
                   Redeem, SetAdmin, ForgetAck, Complete
        <3>3. PICK v \in Workers : Closing(v)
            BY <1>1, <2>2, <3>1, <3>2 DEF ClosingForgetsAck
        <3> QED
            BY <1>1, <2>1, <3>2, <3>3, ClosingStays
    <2> QED
        BY <2>3, <2>4, <2>5
<1>3. ASSUME UNCHANGED <<policy, task>>, crossed \subseteq crossed'
      PROVE  \E w \in Workers : Closing(w)'
    <2>1. \A w \in Workers : Pc(w)' = Pc(w)
        BY <1>0, <1>3, TasksKept
    <2> QED
        BY <1>1, <1>3, <2>1, ClosingPc DEF ClosingForgetsAck, policy
<1>4. CASE \E n \in Names : MintKey(n) \/ RevokeKeys(n)
    BY <1>3, <1>4 DEF MintKey, RevokeKeys
<1>5. CASE Starting
    <2>1. UNCHANGED Rest
        BY <1>5 DEF Starting, FindFile, FindRow, DeleteRow, InsertRow, OpenFile, FillFile
    <2> QED
        BY <1>3, <2>1 DEF Rest
<1>6. CASE Rotate \/ ScriptDies
    <2>1. UNCHANGED <<policy, task>> /\ crossed \subseteq crossed'
        BY <1>6 DEF Rotate, ScriptDies, Rest
    <2> QED
        BY <1>3, <2>1
<1>7. CASE Crash
    <2>1. UNCHANGED policy /\ crossed \subseteq crossed'
        BY <1>7 DEF Crash
    <2>2. PICK v \in Workers : Closing(v)
        BY <1>1, <2>1 DEF ClosingForgetsAck, policy
    <2>3. "ack" \in crossed'
        BY <1>7, <2>2 DEF Crash
    <2> QED
        BY <1>1, <2>3
<1>8. CASE UNCHANGED vars
    BY <1>3, <1>8 DEF vars
<1> QED
    BY <1>2, <1>4, <1>5, <1>6, <1>7, <1>8, NextCases

\* Accounts stay, and so does the answer that the set-up is complete.
LEMMA ForwardStep ==
    ASSUME [Next]_vars, TasksOK
    PROVE  accounts \subseteq accounts' /\ (complete => complete')
<1>1. ASSUME NEW w \in Workers, Looking(w) \/ Arriving(w)
      PROVE  UNCHANGED <<accounts, complete>>
    BY <1>1, LookingFrame, StartingFrame DEF people, policy
<1>2. ASSUME NEW w \in Workers, Writing(w)
      PROVE  accounts \subseteq accounts' /\ (complete => complete')
    BY <1>2
       DEF Writing, Upsert, Rename, EnsureLibrary, Insert, CreateOrg, JoinOrg, Redeem, SetAdmin,
           SetRegistration, ForgetAck, KeepAck, Complete, people, policy
<1>3. CASE \/ \E n \in Names : MintKey(n) \/ RevokeKeys(n)
           \/ Starting \/ Rotate \/ Crash \/ ScriptDies \/ UNCHANGED vars
    BY <1>3
       DEF MintKey, RevokeKeys, Starting, FindFile, FindRow, DeleteRow, InsertRow, OpenFile, FillFile,
           Rest, Rotate, Crash, ScriptDies, vars, people, policy
<1> QED
    BY <1>1, <1>2, <1>3, NextCases

\* The set-up of a server never falls back to an earlier state; and a "keep
\* open" an administrator gave does not outlive the closing of the registration,
\* however many requests close it and acknowledge it at once.
THEOREM SetupGoesForward == Spec => SetupStands
<1>1. Init => ClosingForgetsAck
    BY DEF Init, ClosingForgetsAck
<1>2. Base /\ ClosingForgetsAck /\ [Next]_vars => ClosingForgetsAck'
    BY AckStep
<1>3. ASSUME Base, [Next]_vars
      PROVE  /\ SetupState # "needs_owner" => SetupState' # "needs_owner"
             /\ SetupState = "steady" => SetupState' = "steady"
    <2>1. accounts \subseteq accounts' /\ (complete => complete')
        BY <1>3, ForwardStep DEF Base
    <2> QED
        BY <2>1 DEF SetupState, NeedsOwner
<1>4. Base /\ [Next]_vars
      => [/\ SetupState # "needs_owner" => SetupState' # "needs_owner"
          /\ SetupState = "steady" => SetupState' = "steady"]_vars
    BY <1>3
<1> QED
    BY <1>1, <1>2, <1>4, BaseHolds, PTL DEF Spec, SetupStands, SetupForward

-----------------------------------------------------------------------------
(* The display names.                                                      *)

\* Whoever is about to make an account has locked its name; and while no check
\* has been overtaken, the one worker that gives a name gives it to a user
\* whose name is open.
TitlesOK ==
    /\ AccountHasTitle
    /\ \A w \in Workers : Pc(w) \in {"library", "insert"} => principals[task[w].who].locked
    /\ "names" \notin crossed =>
           /\ \A w \in Workers : Naming(w) => ~principals[task[w].who].locked
           /\ \A v, w \in Workers : Naming(v) /\ Naming(w) => v = w

LEMMA NamingPc ==
    ASSUME NEW w \in Workers
    PROVE  /\ Naming(w) <=> Pc(w) \in {"find", "rename"}
           /\ Naming(w)' <=> Pc(w)' \in {"find", "rename"}
BY DEF Naming, At, Pc, IsIdle

LEMMA LookingNames ==
    ASSUME Base, NEW w \in Workers, Looking(w)
    PROVE  \/ Pc(w)' \notin {"library", "insert", "find", "rename"}
           \/ /\ Pc(w)' = "insert" /\ task'[w].who = task[w].who
              /\ principals[task[w].who].locked
           \/ /\ Pc(w)' = "find" /\ task'[w].who = task[w].who
              /\ ~principals[task[w].who].locked
              /\ (\E v \in Workers : Naming(v)) => "names" \in crossed'
           \/ /\ Pc(w) = "find" /\ Pc(w)' = "rename" /\ task'[w].who = task[w].who
<1>0. TasksOK /\ admins \subseteq Names
    BY DEF Base, TypeOK
<1>1. CASE Preview(w) \/ ReadSetting(w) \/ CheckTaken(w)
    BY <1>0, <1>1, EnrolMoves DEF Moves, MovesWith
<1>2. CASE CheckLocked(w)
    <2>1. CASE principals[task[w].who].locked
        <3>1. Fail(w)
            BY <1>2, <2>1 DEF CheckLocked
        <3>2. Moves(w, {})
            BY <1>0, <3>1, FailMoves
        <3> QED
            BY <3>2 DEF Moves, MovesWith
    <2>2. CASE ~principals[task[w].who].locked
        <3>1. /\ Pc(w)' = "idle" \/ (Pc(w)' = "find" /\ task'[w].who = task[w].who)
              /\ (\E v \in Workers : Naming(v)) => "names" \in crossed'
            BY <1>0, <1>2, EnrolMoves DEF Moves, MovesWith, CheckLocked
        <3> QED
            BY <2>2, <3>1
    <2> QED
        BY <2>1, <2>2
<1>3. CASE CountAccounts(w) \/ CheckFirst(w)
    BY <1>0, <1>3, CountMoves, CheckFirstMoves DEF Moves, MovesWith
<1>4. CASE SkipNaming(w)
    BY <1>0, <1>4, SkipNamingMoves DEF Moves, MovesWith
<1>5. CASE FindTitle(w)
    <2>1. Pc(w) = "find"
        BY <1>5, PcAt DEF FindTitle
    <2> QED
        BY <1>0, <1>5, <2>1, FindTitleMoves DEF Moves, MovesWith
<1>6. CASE FindOrg(w)
    BY <1>0, <1>6, FindOrgMoves DEF Moves, MovesWith
<1>7. CASE ReadRow(w) \/ CountAdmins(w)
    BY <1>0, <1>7, ReadRowMoves, AdministrationMoves DEF Moves, MovesWith
<1>8. CASE ReadAck(w) \/ ReadAcked(w)
    BY <1>0, <1>8, FirstRunMoves DEF Moves, MovesWith
<1>9. CASE ListAdmins(w) \/ LookForKey(w) \/ ReadPolicy(w)
    BY <1>0, <1>9, ListAdminsMoves, LookForKeyMoves, ReadPolicyMoves DEF Moves, MovesWith
<1> QED
    BY <1>1, <1>2, <1>3, <1>4, <1>5, <1>6, <1>7, <1>8, <1>9 DEF Looking

\* Where a step that writes leaves its worker, of the steps that name a user.
LEMMA WritingNames ==
    ASSUME Base, NEW w \in Workers, Writing(w)
    PROVE  \/ Pc(w)' \notin {"library", "insert", "find", "rename"}
           \/ Rename(w) /\ Pc(w)' = "library" /\ task'[w].who = task[w].who
           \/ /\ Pc(w) = "library" /\ Pc(w)' = "insert" /\ task'[w].who = task[w].who
              /\ principals' = principals
<1>0. TasksOK
    BY DEF Base
<1>1. CASE Upsert(w) \/ Insert(w) \/ CreateOrg(w) \/ JoinOrg(w) \/ Redeem(w)
    BY <1>0, <1>1, EnrolMoves DEF Moves, MovesWith
<1>2. CASE Rename(w)
    BY <1>0, <1>2, EnrolMoves DEF Moves, MovesWith
<1>3. CASE EnsureLibrary(w)
    <2>1. principals' = principals
        BY <1>3 DEF EnsureLibrary
    <2> QED
        BY <1>0, <1>3, <2>1, EnrolMoves DEF Moves, MovesWith
<1>4. CASE SetAdmin(w)
    BY <1>0, <1>4, AdministrationMoves DEF Moves, MovesWith
<1>5. CASE SetRegistration(w) \/ ForgetAck(w) \/ KeepAck(w) \/ Complete(w)
    BY <1>0, <1>5, FirstRunMoves DEF Moves, MovesWith
<1> QED
    BY <1>1, <1>2, <1>3, <1>4, <1>5 DEF Writing

\* A step that writes locks names and unlocks none, and changes no locked one
\* while no check has been overtaken.
LEMMA WritingTitles ==
    ASSUME Base, TitlesOK, NEW w \in Workers, Writing(w)
    PROVE  /\ \A n \in Names : principals[n].locked => principals'[n].locked
           /\ ~Rename(w) => \A n \in Names : principals'[n].locked = principals[n].locked
           /\ "names" \notin crossed =>
                  \A n \in Names : principals[n].locked => principals'[n] = principals[n]
           /\ Rename(w) => \/ Pc(w)' = "idle"
                           \/ principals'[task[w].who].locked
<1>0. TypeOK /\ TasksOK
    BY DEF Base
<1>1. CASE Upsert(w)
    <2>1. /\ \/ principals' = principals
             \/ /\ ~principals[task[w].who].locked
                /\ principals' = [principals EXCEPT ![task[w].who].title = task[w].title]
        BY <1>1 DEF Upsert
    <2>2. ~Rename(w)
        BY <1>1, PcAt DEF Upsert, Rename
    <2> QED
        BY <1>0, <2>1, <2>2 DEF TypeOK, Principal
<1>2. CASE Rename(w)
    <2>1. Pc(w) = "rename"
        BY <1>2, PcAt DEF Rename
    <2>2. task[w].who \in Names /\ Naming(w)
        BY <1>0, <2>1, KnownUser, NamingPc DEF ForUser
    <2>3. CASE principals' = principals /\ Fail(w)
        <3>1. Moves(w, {})
            BY <1>0, <2>3, FailMoves
        <3>2. Pc(w)' = "idle"
            BY <3>1 DEF Moves, MovesWith
        <3> QED
            BY <1>2, <2>3, <3>2
    <2>4. CASE principals' = [principals EXCEPT ![task[w].who] =
                                  [title |-> task[w].title, locked |-> TRUE]]
        BY <1>0, <1>2, <2>2, <2>4 DEF TypeOK, TitlesOK
    <2> QED
        BY <1>2, <2>3, <2>4 DEF Rename
<1>3. CASE ~Upsert(w) /\ ~Rename(w)
    <2>1. principals' = principals
        BY <1>3 DEF Writing, EnsureLibrary, Insert, CreateOrg, JoinOrg, Redeem, SetAdmin,
                    SetRegistration, ForgetAck, KeepAck, Complete, people
    <2> QED
        BY <1>3, <2>1
<1> QED
    BY <1>1, <1>2, <1>3

LEMMA TitlesStep ==
    ASSUME Base, TitlesOK, [Next]_vars
    PROVE  /\ TitlesOK'
           /\ \A n \in Names : principals[n].locked /\ "names" \notin crossed'
                               => principals'[n] = principals[n]
<1>0. TypeOK /\ TasksOK /\ Base' /\ accounts \subseteq Names
    BY BaseStep DEF Base, TypeOK
<1>1. ASSUME NEW w \in Workers, Looking(w)
      PROVE  TitlesOK' /\ principals' = principals
    <2>1. /\ principals' = principals /\ accounts' = accounts /\ Alone(w)
          /\ crossed \subseteq crossed'
        BY <1>0, <1>1, LookingFrame, LookingMoves, WorkersKeepStarts DEF people, TypeOK
    <2>2. AccountHasTitle'
        BY <2>1 DEF TitlesOK, AccountHasTitle
    <2>3. \A v \in Workers :
              Pc(v)' \in {"library", "insert"} => principals'[task'[v].who].locked
        BY <1>1, <2>1, LookingNames DEF Alone, TitlesOK
    <2>4. ASSUME "names" \notin crossed'
          PROVE  /\ \A v \in Workers : Naming(v)' => ~principals'[task'[v].who].locked
                 /\ \A u, v \in Workers : Naming(u)' /\ Naming(v)' => u = v
        <3>1. /\ \A v \in Workers : Naming(v) => ~principals[task[v].who].locked
              /\ \A u, v \in Workers : Naming(u) /\ Naming(v) => u = v
            BY <2>1, <2>4 DEF TitlesOK
        <3>2. \A v \in Workers \ {w} : Naming(v)' => Naming(v) /\ task'[v] = task[v]
            BY <2>1, NamingPc DEF Alone
        <3>3. Naming(w)' => \/ /\ \A v \in Workers : ~Naming(v)
                               /\ ~principals[task[w].who].locked
                               /\ task'[w].who = task[w].who
                            \/ Naming(w) /\ task'[w].who = task[w].who
            BY <1>1, <2>4, LookingNames, NamingPc
        <3> QED
            BY <2>1, <3>1, <3>2, <3>3
    <2> QED
        BY <2>1, <2>2, <2>3, <2>4 DEF TitlesOK
<1>2. ASSUME NEW w \in Workers, Arriving(w)
      PROVE  TitlesOK' /\ principals' = principals
    <2>1. /\ principals' = principals /\ accounts' = accounts /\ crossed' = crossed
          /\ Alone(w) /\ Pc(w)' \notin {"library", "insert", "find", "rename"}
        BY <1>0, <1>2, StartingFrame, StartingMoves DEF people
    <2>2. \A v \in Workers : Naming(v)' => Naming(v) /\ task'[v] = task[v]
        BY <2>1, NamingPc DEF Alone
    <2> QED
        BY <2>1, <2>2 DEF TitlesOK, AccountHasTitle, Alone
<1>3. ASSUME NEW w \in Workers, Writing(w)
      PROVE  /\ TitlesOK'
             /\ \A n \in Names : principals[n].locked /\ "names" \notin crossed'
                                 => principals'[n] = principals[n]
    <2>1. /\ Alone(w) /\ crossed \subseteq crossed'
          /\ Pc(w)' # "idle" => task'[w].who = task[w].who
        BY <1>0, <1>3, WritingMoves, WorkersKeepStarts
    <2>2. /\ \A n \in Names : principals[n].locked => principals'[n].locked
          /\ ~Rename(w) => \A n \in Names : principals'[n].locked = principals[n].locked
          /\ "names" \notin crossed =>
                 \A n \in Names : principals[n].locked => principals'[n] = principals[n]
          /\ Rename(w) => \/ Pc(w)' = "idle"
                          \/ principals'[task[w].who].locked
        BY <1>3, WritingTitles
    <2>3. \A v \in Workers : Pc(v) \in {"library", "insert", "find", "rename"}
                             => task[v].who \in Names
        BY <1>0, KnownUser DEF ForUser
    <2>4. AccountHasTitle'
        <3>1. CASE Insert(w)
            <4>1. Pc(w) = "insert" /\ accounts' \subseteq accounts \cup {task[w].who}
                BY <3>1, PcAt DEF Insert
            <4>2. task[w].who \in Names /\ principals[task[w].who].locked
                BY <2>3, <4>1 DEF TitlesOK
            <4> QED
                BY <1>0, <2>2, <4>1, <4>2 DEF TitlesOK, AccountHasTitle
        <3>2. CASE ~Insert(w)
            <4>1. accounts' = accounts
                BY <1>3, <3>2
                   DEF Writing, Upsert, Rename, EnsureLibrary, CreateOrg, JoinOrg, Redeem,
                       SetAdmin, SetRegistration, ForgetAck, KeepAck, Complete, people
            <4> QED
                BY <1>0, <2>2, <4>1 DEF TitlesOK, AccountHasTitle
        <3> QED
            BY <3>1, <3>2
    <2>5. ASSUME NEW v \in Workers, Pc(v)' \in {"library", "insert"}
          PROVE  principals'[task'[v].who].locked
        <3>1. CASE v # w
            BY <2>1, <2>2, <2>3, <2>5, <3>1 DEF TitlesOK, Alone
        <3>2. CASE v = w
            BY <1>3, <2>2, <2>5, <3>2, WritingNames DEF TitlesOK
        <3> QED
            BY <3>1, <3>2
    <2>6. ASSUME "names" \notin crossed'
          PROVE  /\ \A v \in Workers : Naming(v)' => ~principals'[task'[v].who].locked
                 /\ \A u, v \in Workers : Naming(u)' /\ Naming(v)' => u = v
        <3>1. /\ \A v \in Workers : Naming(v) => ~principals[task[v].who].locked
              /\ \A u, v \in Workers : Naming(u) /\ Naming(v) => u = v
            BY <2>1, <2>6 DEF TitlesOK
        <3>2. \A v \in Workers : Naming(v)' => v # w /\ Naming(v) /\ task'[v] = task[v]
            BY <1>3, <2>1, WritingNames, NamingPc DEF Alone
        <3>3. Rename(w) => Naming(w)
            BY PcAt, NamingPc DEF Rename
        <3>4. \A v \in Workers : Naming(v) => task[v].who \in Names
            BY <2>3, NamingPc
        <3> QED
            BY <2>2, <3>1, <3>2, <3>3, <3>4
    <2> QED
        BY <2>1, <2>2, <2>4, <2>5, <2>6 DEF TitlesOK
<1>4. ASSUME UNCHANGED <<task, principals, accounts>>, crossed \subseteq crossed'
      PROVE  TitlesOK'
    <2>1. \A w \in Workers : Pc(w)' = Pc(w) /\ (Naming(w)' <=> Naming(w))
        BY <1>0, <1>4, TasksKept, NamingPc
    <2> QED
        BY <1>4, <2>1 DEF TitlesOK, AccountHasTitle
<1>5. CASE \/ \E n \in Names : MintKey(n) \/ RevokeKeys(n)
           \/ Starting \/ ScriptDies \/ UNCHANGED vars
    <2>1. UNCHANGED <<task, principals, accounts>> /\ crossed \subseteq crossed'
        BY <1>5 DEF MintKey, RevokeKeys, Starting, FindFile, FindRow, DeleteRow, InsertRow,
                    OpenFile, FillFile, ScriptDies, Rest, people, vars
    <2> QED
        BY <1>4, <2>1
<1>6. CASE Rotate
    <2>1. /\ UNCHANGED <<task, accounts>> /\ LockTitles /\ crossed \subseteq crossed'
          /\ (\E w \in Workers : Naming(w)) => "names" \in crossed'
        BY <1>6 DEF Rotate
    <2>2. \A n \in Names : principals[n].locked => principals'[n] = principals[n]
        BY <1>0, <2>1, LockType DEF TypeOK
    <2>3. \A w \in Workers : Pc(w)' = Pc(w) /\ (Naming(w)' <=> Naming(w))
        BY <1>0, <2>1, TasksKept, NamingPc
    <2>4. \A w \in Workers : Pc(w) \in {"library", "insert"} => task[w].who \in Names
        BY <1>0, KnownUser DEF ForUser
    <2>5. AccountHasTitle'
        BY <1>0, <2>1, <2>2 DEF TitlesOK, AccountHasTitle
    <2> QED
        BY <2>1, <2>2, <2>3, <2>4, <2>5 DEF TitlesOK
<1>7. CASE Crash
    <2>1. UNCHANGED accounts /\ LockTitles
        BY <1>7 DEF Crash
    <2>2. \A n \in Names : principals[n].locked => principals'[n] = principals[n]
        BY <1>0, <2>1, LockType DEF TypeOK
    <2>3. \A w \in Workers : Pc(w)' = "idle" /\ ~Naming(w)'
        BY <1>7, CrashIdles, NamingPc
    <2>5. AccountHasTitle'
        BY <1>0, <2>1, <2>2 DEF TitlesOK, AccountHasTitle
    <2> QED
        BY <2>2, <2>3, <2>5 DEF TitlesOK
<1> QED
    BY <1>1, <1>2, <1>3, <1>5, <1>6, <1>7, NextCases

\* An account is known by one name for ever.  Its title is locked, whatever
\* registrations broke off before it or run beside it; and a locked title
\* changes only when a registration's look at the lock has been overtaken.
THEOREM TitleStandsForever == Spec => TitleStands
<1>1. Init => TitlesOK
    <2>1. SUFFICES ASSUME Init PROVE TitlesOK
        OBVIOUS
    <2>2. \A w \in Workers : Pc(w) = "idle" /\ ~Naming(w)
        BY <2>1, NothingType, NamingPc DEF Init, Pc, IsIdle
    <2> QED
        BY <2>1, <2>2 DEF Init, TitlesOK, AccountHasTitle
<1>2. Base /\ TitlesOK /\ [Next]_vars => TitlesOK'
    BY TitlesStep
<1>3. Base /\ TitlesOK /\ [Next]_vars =>
          [\A n \in Names : principals[n].locked /\ "names" \notin crossed'
                            => principals'[n] = principals[n]]_vars
    BY TitlesStep
<1>4. TitlesOK => AccountHasTitle
    BY DEF TitlesOK
<1> QED
    BY <1>1, <1>2, <1>3, <1>4, BaseHolds, PTL DEF Spec, TitleStands, TitleIsFinal

-----------------------------------------------------------------------------
(* The administrators.                                                     *)

\* Between its look whether it is the first and the account it makes.
Enrolling == {"upsert", "fresh", "locked", "find", "rename", "library", "insert"}

\* Whoever enrols while there is no account knows itself the first; and while no
\* check has been overtaken, at most one demotion is under way, and it leaves
\* an administrator.
AdminsOK ==
    /\ AdminRemains
    /\ \A w \in Workers : Pc(w) \in Enrolling /\ accounts = {} => task[w].first
    /\ "demotions" \notin crossed =>
           /\ \A w \in Workers : Pc(w) = "set" /\ ~task[w].flag
                                 => admins \ {task[w].who} # {}
           /\ \A v, w \in Workers : Demoting(v) /\ Demoting(w) => v = w

LEMMA DemotingPc ==
    ASSUME NEW w \in Workers
    PROVE  /\ Demoting(w) <=> Pc(w) \in {"admins", "set"} /\ ~task[w].flag
           /\ Demoting(w)' <=> Pc(w)' \in {"admins", "set"} /\ ~task'[w].flag
BY DEF Demoting, Pc, IsIdle

LEMMA LookingAdmins ==
    ASSUME Base, NEW w \in Workers, Looking(w)
    PROVE  /\ Pc(w)' \in Enrolling => \/ task'[w].first = (accounts = {})
                                      \/ /\ Pc(w) \in Enrolling
                                         /\ task'[w].first = task[w].first
           /\ Pc(w)' \in {"admins", "set"} => ReadRow(w) \/ CountAdmins(w)
<1>0. TasksOK /\ admins \subseteq Names
    BY DEF Base, TypeOK
<1>1. CASE Preview(w) \/ ReadSetting(w) \/ CheckTaken(w)
    BY <1>0, <1>1, EnrolMoves DEF Moves, MovesWith, Enrolling
<1>2. CASE CheckLocked(w)
    <2>1. Pc(w) = "locked"
        BY <1>2, PcAt DEF CheckLocked
    <2> QED
        BY <1>0, <1>2, <2>1, EnrolMoves DEF Moves, MovesWith, Enrolling
<1>3. CASE CountAccounts(w) \/ CheckFirst(w)
    BY <1>0, <1>3, CountMoves, CheckFirstMoves DEF Moves, MovesWith, Enrolling
<1>4. CASE SkipNaming(w)
    <2>1. Pc(w) = "fresh"
        BY <1>4, PcAt DEF SkipNaming
    <2> QED
        BY <1>0, <1>4, <2>1, SkipNamingMoves DEF Moves, MovesWith, Enrolling
<1>5. CASE FindTitle(w)
    <2>1. Pc(w) = "find"
        BY <1>5, PcAt DEF FindTitle
    <2> QED
        BY <1>0, <1>5, <2>1, FindTitleMoves DEF Moves, MovesWith, Enrolling
<1>6. CASE FindOrg(w)
    BY <1>0, <1>6, FindOrgMoves DEF Moves, MovesWith, Enrolling
<1>7. CASE ReadRow(w) \/ CountAdmins(w)
    BY <1>0, <1>7, ReadRowMoves, AdministrationMoves DEF Moves, MovesWith, Enrolling
<1>8. CASE ReadAck(w) \/ ReadAcked(w)
    BY <1>0, <1>8, FirstRunMoves DEF Moves, MovesWith, Enrolling
<1>9. CASE ListAdmins(w) \/ LookForKey(w) \/ ReadPolicy(w)
    BY <1>0, <1>9, ListAdminsMoves, LookForKeyMoves, ReadPolicyMoves
       DEF Moves, MovesWith, Enrolling
<1> QED
    BY <1>1, <1>2, <1>3, <1>4, <1>5, <1>6, <1>7, <1>8, <1>9 DEF Looking

LEMMA WritingAdmins ==
    ASSUME Base, NEW w \in Workers, Writing(w)
    PROVE  /\ Pc(w)' \in Enrolling => Pc(w) \in Enrolling
           /\ Pc(w)' \notin {"admins", "set"}
<1>0. TasksOK
    BY DEF Base
<1>1. CASE Insert(w) \/ CreateOrg(w) \/ JoinOrg(w) \/ Redeem(w)
    BY <1>0, <1>1, EnrolMoves DEF Moves, MovesWith, Enrolling
<1>2. CASE Rename(w) \/ Upsert(w)
    <2>1. Pc(w) \in Enrolling
        BY <1>2, PcAt DEF Rename, Upsert, Enrolling
    <2> QED
        BY <1>0, <1>2, <2>1, EnrolMoves DEF Moves, MovesWith, Enrolling
<1>3. CASE EnsureLibrary(w)
    BY <1>0, <1>3, EnrolMoves DEF Moves, MovesWith, Enrolling
<1>4. CASE SetAdmin(w)
    BY <1>0, <1>4, AdministrationMoves DEF Moves, MovesWith, Enrolling
<1>5. CASE SetRegistration(w) \/ ForgetAck(w) \/ KeepAck(w) \/ Complete(w)
    BY <1>0, <1>5, FirstRunMoves DEF Moves, MovesWith, Enrolling
<1> QED
    BY <1>1, <1>2, <1>3, <1>4, <1>5 DEF Writing

\* Two administrators are more than one.
LEMMA AnotherAdmin ==
    ASSUME NEW S, NEW n, ~(Cardinality(S) <= 1)
    PROVE  S \ {n} # {}
<1>1. SUFFICES ASSUME S \ {n} = {} PROVE FALSE
    OBVIOUS
<1>2. S = {} \/ S = {n}
    BY <1>1
<1>3. Cardinality({}) = 0 /\ Cardinality({n}) = 1
    BY FS_EmptySet, FS_Singleton
<1> QED
    BY <1>2, <1>3

\* A check that lets a demotion go on has found another administrator.
LEMMA DemotionChecks ==
    ASSUME Base, AdminsOK, NEW w \in Workers, ReadRow(w) \/ CountAdmins(w),
           "demotions" \notin crossed', Pc(w)' = "set", ~task'[w].flag
    PROVE  admins \ {task'[w].who} # {}
<1>0. TypeOK /\ TasksOK /\ crossed \subseteq crossed'
    BY WorkersKeepStarts DEF Base, Looking
<1>1. CASE ReadRow(w)
    <2>1. /\ task'[w].who = task[w].who /\ task'[w].flag = task[w].flag
          /\ task[w].who \in accounts
        BY <1>0, <1>1, ReadRowMoves DEF Moves, MovesWith
    <2>2. admins # {}
        BY <1>0, <2>1 DEF AdminsOK, AdminRemains
    <2>3. task[w].who \notin admins
        BY <1>0, <1>1, <2>1, ReadRowMoves DEF Moves, MovesWith
    <2> QED
        BY <2>1, <2>2, <2>3
<1>2. CASE CountAdmins(w)
    <2>1. CASE Cardinality(admins) <= 1
        <3>1. Moves(w, {})
            BY <1>0, <1>2, <2>1, FailMoves DEF CountAdmins
        <3> QED
            BY <3>1 DEF Moves, MovesWith
    <2>2. CASE ~(Cardinality(admins) <= 1)
        BY <2>2, AnotherAdmin
    <2> QED
        BY <2>1, <2>2
<1> QED
    BY <1>1, <1>2

LEMMA AdminsStep ==
    ASSUME Base, AdminsOK, [Next]_vars
    PROVE  AdminsOK'
<1>0. TypeOK /\ TasksOK /\ UsersOK /\ accounts \subseteq accounts'
    BY ForwardStep DEF Base
<1>1. ASSUME NEW w \in Workers, Looking(w)
      PROVE  AdminsOK'
    <2>1. /\ admins' = admins /\ accounts' = accounts /\ Alone(w)
          /\ crossed \subseteq crossed'
          /\ Pc(w)' # "idle" => task'[w].who = task[w].who /\ task'[w].flag = task[w].flag
        BY <1>0, <1>1, LookingFrame, LookingMoves, WorkersKeepStarts DEF people, TypeOK
    <2>2. AdminRemains'
        BY <2>1 DEF AdminsOK, AdminRemains
    <2>3. \A v \in Workers : Pc(v)' \in Enrolling /\ accounts' = {} => task'[v].first
        BY <1>1, <2>1, LookingAdmins DEF AdminsOK, Alone
    <2>4. ASSUME "demotions" \notin crossed'
          PROVE  /\ \A v \in Workers : Pc(v)' = "set" /\ ~task'[v].flag
                                        => admins' \ {task'[v].who} # {}
                 /\ \A u, v \in Workers : Demoting(u)' /\ Demoting(v)' => u = v
        <3>1. /\ \A v \in Workers : Pc(v) = "set" /\ ~task[v].flag
                                     => admins \ {task[v].who} # {}
              /\ \A u, v \in Workers : Demoting(u) /\ Demoting(v) => u = v
            BY <2>1, <2>4 DEF AdminsOK
        <3>2. \A v \in Workers \ {w} : /\ Demoting(v)' => Demoting(v)
                                       /\ task'[v] = task[v] /\ Pc(v)' = Pc(v)
            BY <2>1, DemotingPc DEF Alone
        <3>3. Demoting(w)' => Demoting(w) \/ \A v \in Workers : ~Demoting(v)
            <4>1. SUFFICES ASSUME Demoting(w)'
                           PROVE  Demoting(w) \/ \A v \in Workers : ~Demoting(v)
                OBVIOUS
            <4>2. Pc(w)' \in {"admins", "set"} /\ ~task[w].flag
                BY <2>1, <4>1, DemotingPc
            <4>3. CASE ReadRow(w)
                BY <2>4, <4>2, <4>3 DEF ReadRow
            <4>4. CASE CountAdmins(w)
                BY <4>2, <4>4, PcAt, DemotingPc DEF CountAdmins
            <4> QED
                BY <1>1, <4>2, <4>3, <4>4, LookingAdmins
        <3>4. Pc(w)' = "set" /\ ~task'[w].flag => admins' \ {task'[w].who} # {}
            BY <1>1, <2>1, <2>4, LookingAdmins, DemotionChecks
        <3> QED
            BY <2>1, <3>1, <3>2, <3>3, <3>4
    <2> QED
        BY <2>2, <2>3, <2>4 DEF AdminsOK
<1>2. ASSUME NEW w \in Workers, Arriving(w)
      PROVE  AdminsOK'
    <2>1. /\ admins' = admins /\ accounts' = accounts /\ crossed' = crossed
          /\ Alone(w) /\ Pc(w)' \notin Enrolling \cup {"admins", "set"}
        BY <1>0, <1>2, StartingFrame, StartingMoves DEF people, Enrolling
    <2>2. \A v \in Workers : Demoting(v)' => Demoting(v)
        BY <2>1, DemotingPc DEF Alone
    <2> QED
        BY <2>1, <2>2 DEF AdminsOK, AdminRemains, Alone
<1>3. ASSUME NEW w \in Workers, Writing(w)
      PROVE  AdminsOK'
    <2>1. /\ Alone(w) /\ crossed \subseteq crossed'
          /\ Pc(w)' # "idle" => task'[w].first = task[w].first
        BY <1>0, <1>3, WritingMoves, WorkersKeepStarts
    <2>2. \A v \in Workers : Pc(v)' \in Enrolling /\ accounts' = {} => task'[v].first
        <3>1. Pc(w)' \in Enrolling => Pc(w) \in Enrolling /\ Pc(w)' # "idle"
            BY <1>3, WritingAdmins DEF Enrolling
        <3> QED
            BY <1>0, <2>1, <3>1 DEF AdminsOK, Alone
    <2>3. \A v \in Workers : Demoting(v)' \/ Pc(v)' = "set"
                             => v # w /\ (Demoting(v)' => Demoting(v))
                                /\ task'[v] = task[v] /\ Pc(v)' = Pc(v)
        BY <1>3, <2>1, WritingAdmins, DemotingPc DEF Alone
    <2>4. CASE Insert(w)
        <3>1. /\ admins \subseteq admins'
              /\ \/ accounts' = accounts
                 \/ task[w].first /\ task[w].who \in admins'
                 \/ ~task[w].first
            BY <2>4 DEF Insert
        <3>2. Pc(w) = "insert"
            BY <2>4, PcAt DEF Insert
        <3>3. AdminRemains'
            BY <2>1, <3>1, <3>2 DEF AdminsOK, AdminRemains, Enrolling
        <3> QED
            BY <2>1, <2>2, <2>3, <3>1, <3>3 DEF AdminsOK
    <2>5. CASE SetAdmin(w) /\ task[w].flag
        <3>1. admins \subseteq admins' /\ accounts' = accounts
            BY <2>5 DEF SetAdmin
        <3> QED
            BY <2>1, <2>2, <2>3, <3>1 DEF AdminsOK, AdminRemains
    <2>6. CASE SetAdmin(w) /\ ~task[w].flag
        <3>1. admins' = admins \ {task[w].who} /\ accounts' = accounts
            BY <2>6 DEF SetAdmin
        <3>2. Pc(w) = "set" /\ Demoting(w)
            BY <2>6, PcAt, DemotingPc DEF SetAdmin
        <3>3. AdminRemains'
            BY <2>1, <2>6, <3>1, <3>2 DEF AdminsOK, AdminRemains
        <3>4. "demotions" \notin crossed' => \A v \in Workers \ {w} : ~Demoting(v)
            BY <2>1, <3>2 DEF AdminsOK
        <3>5. \A v \in Workers : Pc(v)' = "set" /\ ~task'[v].flag => Demoting(v)'
            BY DemotingPc
        <3>6. "demotions" \notin crossed' => \A v \in Workers : ~Demoting(v)'
            BY <2>3, <3>4
        <3> QED
            BY <2>2, <3>3, <3>5, <3>6 DEF AdminsOK
    <2>7. CASE ~Insert(w) /\ ~SetAdmin(w)
        <3>1. admins' = admins /\ accounts' = accounts
            BY <1>3, <2>7
               DEF Writing, Upsert, Rename, EnsureLibrary, CreateOrg, JoinOrg, Redeem,
                   SetRegistration, ForgetAck, KeepAck, Complete, people
        <3> QED
            BY <2>1, <2>2, <2>3, <3>1 DEF AdminsOK, AdminRemains
    <2> QED
        BY <2>4, <2>5, <2>6, <2>7
<1>4. CASE \/ \E n \in Names : MintKey(n) \/ RevokeKeys(n)
           \/ Starting \/ Rotate \/ ScriptDies \/ UNCHANGED vars
    <2>1. UNCHANGED <<task, admins, accounts>> /\ crossed \subseteq crossed'
        BY <1>4 DEF MintKey, RevokeKeys, Starting, FindFile, FindRow, DeleteRow, InsertRow,
                    OpenFile, FillFile, Rotate, ScriptDies, Rest, people, vars
    <2>2. \A w \in Workers : Pc(w)' = Pc(w) /\ (Demoting(w)' <=> Demoting(w))
        BY <1>0, <2>1, TasksKept, DemotingPc
    <2> QED
        BY <2>1, <2>2 DEF AdminsOK, AdminRemains
<1>5. CASE Crash
    <2>1. UNCHANGED <<admins, accounts>> /\ crossed \subseteq crossed'
        BY <1>5 DEF Crash
    <2>2. \A w \in Workers : Pc(w)' = "idle" /\ ~Demoting(w)'
        BY <1>5, CrashIdles, DemotingPc
    <2> QED
        BY <2>1, <2>2 DEF AdminsOK, AdminRemains, Enrolling
<1> QED
    BY <1>1, <1>2, <1>3, <1>4, <1>5, NextCases

\* A server with accounts has an administrator: the first account's, for the
\* registrations that run beside it know themselves the first as well; and one
\* that a demotion leaves, as long as no demotion starts while another is under
\* way.
THEOREM AnAdminRemains == Spec => []AdminRemains
<1>1. Init => AdminsOK
    <2>1. SUFFICES ASSUME Init PROVE AdminsOK
        OBVIOUS
    <2>2. \A w \in Workers : Pc(w) = "idle" /\ ~Demoting(w)
        BY <2>1, NothingType, DemotingPc DEF Init, Pc, IsIdle
    <2> QED
        BY <2>1, <2>2 DEF Init, AdminsOK, AdminRemains, Enrolling
<1>2. Base /\ AdminsOK /\ [Next]_vars => AdminsOK'
    BY AdminsStep
<1>3. AdminsOK => AdminRemains
    BY DEF AdminsOK
<1> QED
    BY <1>1, <1>2, <1>3, BaseHolds, PTL DEF Spec

-----------------------------------------------------------------------------
(* What an account needs.                                                  *)

\* A request for user n is at one of the steps.
Has(n, steps) == \E w \in Workers : Pc(w) \in steps /\ task[w].who = n

\* What is missing for an account somebody is still to make.
Settled(n) ==
    /\ n \in orgs \/ Has(n, {"org?", "org"})
    /\ n \in orgs => n \in owners \/ Has(n, {"member"})
    /\ n \in libraries \/ (n \notin orgs /\ Has(n, {"org?", "org"})) \/ Has(n, {"member", "home"})

HomesOK ==
    /\ orgs \subseteq accounts
    /\ "owner" \in crossed \/ \A n \in accounts : Settled(n)

\* A worker that was at none of the steps leaves nothing undone.
LEMMA OthersHave ==
    ASSUME NEW w \in Workers, Alone(w), NEW n, NEW steps, Has(n, steps),
           Pc(w) \notin steps \/ task[w].who # n
    PROVE  Has(n, steps)'
BY DEF Has, Alone

LEMMA OtherHomes ==
    ASSUME NEW w \in Workers, Alone(w), NEW n, Settled(n),
           Pc(w) \notin {"org?", "org", "member", "home"} \/ task[w].who # n,
           n \in orgs' <=> n \in orgs, n \in owners => n \in owners',
           n \in libraries => n \in libraries'
    PROVE  Settled(n)'
<1>1. /\ Has(n, {"org?", "org"}) => Has(n, {"org?", "org"})'
      /\ Has(n, {"member"}) => Has(n, {"member"})'
      /\ Has(n, {"member", "home"}) => Has(n, {"member", "home"})'
    BY OthersHave
<1> QED
    BY <1>1 DEF Settled

LEMMA MakingPc ==
    ASSUME NEW w \in Workers
    PROVE  Making(w) <=> Pc(w) \in {"org?", "org", "member", "home"}
BY DEF Making, At, Pc, IsIdle

\* The steps that concern the organisation are these.
LEMMA MakingSteps ==
    ASSUME NEW w \in Workers, Looking(w) \/ Writing(w),
           Pc(w) \in {"org?", "org", "member", "home"}
    PROVE  FindOrg(w) \/ CreateOrg(w) \/ JoinOrg(w) \/ EnsureLibrary(w)
<1>1. CASE Looking(w)
    BY <1>1, PcAt
       DEF Looking, Preview, CountAccounts, ReadSetting, CheckTaken, CheckFirst, SkipNaming,
           CheckLocked, FindTitle, ReadRow, CountAdmins, ReadAck, ListAdmins, LookForKey,
           ReadPolicy, ReadAcked
<1>2. CASE Writing(w)
    BY <1>2, PcAt
       DEF Writing, Upsert, Rename, Insert, Redeem, SetAdmin, SetRegistration, ForgetAck,
           KeepAck, Complete
<1> QED
    BY <1>1, <1>2

LEMMA OrgSteps ==
    ASSUME Base, HomesOK, NEW w \in Workers, FindOrg(w) \/ CreateOrg(w) \/ JoinOrg(w),
           "owner" \notin crossed
    PROVE  orgs' \subseteq accounts /\ \A n \in accounts : Settled(n)'
<1>0. /\ TypeOK /\ TasksOK /\ UsersOK /\ \A n \in accounts : Settled(n)
      /\ orgs \subseteq accounts /\ Alone(w)
    BY LookingMoves, WritingMoves DEF Base, HomesOK, Looking, Writing, TypeOK
<1>b. PICK u : u = task[w].who
    OBVIOUS
<1>a. ASSUME NEW n \in accounts, n # u, n \in orgs' <=> n \in orgs,
             n \in owners => n \in owners', n \in libraries => n \in libraries'
      PROVE  Settled(n)'
    BY <1>0, <1>b, <1>a, OtherHomes
<1>1. CASE FindOrg(w)
    <2>1. /\ Pc(w) = "org?" /\ At(w, "org?")
          /\ UNCHANGED <<orgs, owners, libraries>>
        BY <1>1, PcAt DEF FindOrg, people
    <2>2. CASE u \in orgs
        <3>1. 4 \in 1..Len(task[w].todo) /\ task[w].todo[4] = "home"
            BY <1>0, <1>b, <2>1, OrgHome
        <3>2. task' = [task EXCEPT ![w] = [task[w] EXCEPT
                           !.todo = SubSeq(task[w].todo, 4, Len(task[w].todo))]]
            BY <1>1, <1>b, <2>2 DEF FindOrg, Goto
        <3>3. Pc(w)' = "home" /\ task'[w].who = u
            BY <1>0, <1>b, <3>1, <3>2, SkipLands
        <3>4. Has(u, {"member", "home"})'
            BY <3>3 DEF Has
        <3>5. Has(u, {"member"}) => Has(u, {"member"})'
            BY <1>0, <1>b, <2>1, OthersHave
        <3>6. u \in accounts => Settled(u)'
            BY <1>0, <1>b, <2>1, <2>2, <3>4, <3>5 DEF Settled
        <3> QED
            BY <1>0, <1>b, <1>a, <2>1, <3>6
    <2>3. CASE u \notin orgs
        <3>1. Pc(w)' \in {"org"} /\ task'[w].who = u
            BY <1>0, <1>b, <1>1, <2>1, <2>3, AdvanceLands DEF FindOrg, After, Ends
        <3>2. Has(u, {"org?", "org"})'
            BY <3>1 DEF Has
        <3>3. Settled(u)'
            BY <2>1, <2>3, <3>2 DEF Settled
        <3> QED
            BY <1>0, <1>b, <1>a, <2>1, <3>3
    <2> QED
        BY <2>2, <2>3
<1>2. CASE CreateOrg(w)
    <2>1. /\ Pc(w) = "org" /\ At(w, "org") /\ UNCHANGED <<owners, libraries>>
          /\ orgs' = orgs \cup {u} /\ u \in accounts
        BY <1>0, <1>b, <1>2, PcAt DEF CreateOrg, UsersOK, Late
    <2>2. CASE u \in orgs
        <3>1. /\ Has(u, {"member"}) => Has(u, {"member"})'
              /\ Has(u, {"member", "home"}) => Has(u, {"member", "home"})'
            BY <1>0, <1>b, <2>1, OthersHave
        <3>2. Settled(u)'
            BY <1>0, <1>b, <2>1, <2>2, <3>1 DEF Settled
        <3> QED
            BY <1>0, <1>b, <1>a, <2>1, <2>2, <3>2
    <2>3. CASE u \notin orgs
        <3>1. Pc(w)' \in {"member"} /\ task'[w].who = u
            BY <1>0, <1>b, <1>2, <2>1, <2>3, AdvanceLands DEF CreateOrg, After, Ends
        <3>2. Has(u, {"member"})' /\ Has(u, {"member", "home"})'
            BY <3>1 DEF Has
        <3>3. Settled(u)'
            BY <2>1, <2>3, <3>2 DEF Settled
        <3> QED
            BY <1>0, <1>b, <1>a, <2>1, <3>3
    <2> QED
        BY <2>2, <2>3
<1>3. CASE JoinOrg(w)
    <2>1. /\ Pc(w) = "member" /\ At(w, "member") /\ UNCHANGED <<orgs, libraries>>
          /\ owners' = owners \cup {u}
        BY <1>3, <1>b, PcAt DEF JoinOrg
    <2>2. Pc(w)' \in {"home"} /\ task'[w].who = u
        BY <1>0, <1>b, <1>3, <2>1, AdvanceLands DEF JoinOrg, After, Ends
    <2>3. Has(u, {"member", "home"})'
        BY <2>2 DEF Has
    <2>4. Has(u, {"org?", "org"}) => Has(u, {"org?", "org"})'
        BY <1>0, <1>b, <2>1, OthersHave
    <2>5. u \in accounts => Settled(u)'
        BY <1>0, <1>b, <2>1, <2>3, <2>4 DEF Settled
    <2> QED
        BY <1>0, <1>b, <1>a, <2>1, <2>5
<1> QED
    BY <1>1, <1>2, <1>3

LEMMA HomesStep ==
    ASSUME Base, HomesOK, [Next]_vars
    PROVE  HomesOK'
<1>0. /\ TypeOK /\ TasksOK /\ UsersOK /\ accounts \subseteq accounts'
      /\ orgs \subseteq accounts
    BY ForwardStep DEF Base, HomesOK
<1>1. ASSUME NEW w \in Workers, Alone(w), Pc(w) \notin {"org?", "org", "member", "home"},
             UNCHANGED <<accounts, orgs, owners>>, libraries \subseteq libraries',
             crossed \subseteq crossed'
      PROVE  HomesOK'
    BY <1>0, <1>1, OtherHomes DEF HomesOK
<1>2. ASSUME NEW w \in Workers, Arriving(w)
      PROVE  HomesOK'
    BY <1>0, <1>1, <1>2, StartingFrame, StartingMoves DEF people
<1>3. ASSUME NEW w \in Workers, Looking(w) \/ Writing(w)
      PROVE  HomesOK'
    <2>1. Alone(w) /\ crossed \subseteq crossed'
        BY <1>0, <1>3, LookingMoves, WritingMoves, WorkersKeepStarts DEF TypeOK
    <2>a. PICK u : u = task[w].who
        OBVIOUS
    <2>2. CASE FindOrg(w) \/ CreateOrg(w) \/ JoinOrg(w)
        <3>1. accounts' = accounts /\ crossed' = crossed
            BY <2>2 DEF FindOrg, CreateOrg, JoinOrg, people
        <3>2. orgs' \subseteq accounts
            BY <1>0, <2>2, PcAt DEF FindOrg, CreateOrg, JoinOrg, people, UsersOK, Late
        <3> QED
            BY <2>2, <3>1, <3>2, OrgSteps DEF HomesOK
    <2>3. CASE EnsureLibrary(w)
        <3>1. /\ UNCHANGED <<accounts, orgs, owners, crossed>>
              /\ libraries' = libraries \cup {u}
              /\ Pc(w) \in {"library", "home"}
            BY <2>3, <2>a, PcAt DEF EnsureLibrary, StoreLibrary
        <3>2. Has(u, {"member"}) => Has(u, {"member"})'
            BY <2>1, <2>a, <3>1, OthersHave
        <3>3. Has(u, {"org?", "org"}) => Has(u, {"org?", "org"})'
            BY <2>1, <2>a, <3>1, OthersHave
        <3>4. Settled(u) => Settled(u)'
            BY <3>1, <3>2, <3>3 DEF Settled
        <3>5. \A n \in accounts : n # u /\ Settled(n) => Settled(n)'
            BY <2>1, <2>a, <3>1, OtherHomes
        <3> QED
            BY <1>0, <2>1, <2>a, <3>1, <3>4, <3>5 DEF HomesOK
    <2>4. CASE Insert(w)
        <3>1. Pc(w) = "insert" /\ UNCHANGED <<libraries, orgs, owners>>
            BY <2>4, PcAt DEF Insert
        <3>2. CASE accounts' = accounts
            BY <1>1, <2>1, <3>1, <3>2
        <3>3. CASE accounts' = accounts \cup {u} /\ u \notin accounts
            <4>1. At(w, "insert") /\ Advance(w)
                BY <2>4, <2>a, <3>3 DEF Insert
            <4>2. Pc(w)' \in {"org?"} /\ task'[w].who = u
                BY <1>0, <2>a, <4>1, AdvanceLands DEF After, Ends
            <4>3. Has(u, {"org?", "org"})'
                BY <4>2 DEF Has
            <4>4. Settled(u)'
                BY <1>0, <3>1, <3>3, <4>3 DEF Settled
            <4>5. \A n \in accounts : Settled(n) => Settled(n)'
                BY <2>1, <2>a, <3>1, OtherHomes
            <4> QED
                BY <1>0, <2>1, <2>a, <3>1, <3>3, <4>4, <4>5 DEF HomesOK
        <3> QED
            BY <2>4, <2>a, <3>2, <3>3 DEF Insert
    <2>5. CASE /\ ~FindOrg(w) /\ ~CreateOrg(w) /\ ~JoinOrg(w) /\ ~EnsureLibrary(w)
               /\ ~Insert(w)
        <3>1. UNCHANGED <<accounts, orgs, owners, libraries>>
            BY <1>3, <2>5, LookingFrame
               DEF people, Writing, Upsert, Rename, Redeem, SetAdmin, SetRegistration, ForgetAck,
                   KeepAck, Complete
        <3> QED
            BY <1>1, <1>3, <2>1, <2>5, <3>1, MakingSteps
    <2> QED
        BY <2>2, <2>3, <2>4, <2>5
<1>4. CASE \/ \E n \in Names : MintKey(n) \/ RevokeKeys(n)
           \/ Starting \/ Rotate \/ ScriptDies \/ UNCHANGED vars
    <2>1. UNCHANGED <<task, accounts, orgs, owners, libraries>> /\ crossed \subseteq crossed'
        BY <1>4 DEF MintKey, RevokeKeys, Starting, FindFile, FindRow, DeleteRow, InsertRow,
                    OpenFile, FillFile, Rotate, ScriptDies, Rest, people, vars
    <2>2. \A w \in Workers : Pc(w)' = Pc(w)
        BY <1>0, <2>1, TasksKept
    <2>3. \A n, steps : Has(n, steps)' <=> Has(n, steps)
        BY <2>1, <2>2 DEF Has
    <2> QED
        BY <2>1, <2>3 DEF HomesOK, Settled
<1>5. CASE Crash
    <2>1. UNCHANGED <<accounts, orgs, owners, libraries>> /\ crossed \subseteq crossed'
        BY <1>5 DEF Crash
    <2>2. CASE \E w \in Workers : Making(w)
        BY <1>5, <2>1, <2>2 DEF Crash, HomesOK
    <2>3. CASE \A w \in Workers : ~Making(w)
        <3>1. \A n : /\ ~Has(n, {"org?", "org"}) /\ ~Has(n, {"member"})
                     /\ ~Has(n, {"member", "home"})
            BY <2>3, MakingPc DEF Has
        <3> QED
            BY <2>1, <3>1 DEF HomesOK, Settled
    <2> QED
        BY <2>2, <2>3
<1> QED
    BY <1>2, <1>3, <1>4, <1>5, NextCases

\* An account whose requests are over has its library and its organisation with
\* itself in it, unless the server died before they were complete: of requests
\* that make the organisation beside each other, one goes on to its end.
THEOREM AccountBecomesReady == Spec => []AccountIsReady
<1>1. Init => HomesOK
    BY DEF Init, HomesOK
<1>2. Base /\ HomesOK /\ [Next]_vars => HomesOK'
    BY HomesStep
<1>3. HomesOK => AccountIsReady
    <2>1. ASSUME NEW n, NEW steps, Has(n, steps), "idle" \notin steps
          PROVE  \E w \in Workers : ~IsIdle(w) /\ task[w].who = n
        BY <2>1 DEF Has, Pc
    <2> QED
        BY <2>1 DEF HomesOK, Settled, AccountIsReady
<1> QED
    BY <1>1, <1>2, <1>3, BaseHolds, PTL DEF Spec

=============================================================================
