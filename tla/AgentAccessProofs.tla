-------------------------- MODULE AgentAccessProofs --------------------------
(***************************************************************************)
(* What a user's credentials open and what his reads cost, for any number  *)
(* of servers, threads, libraries, keys and codes.                         *)
(***************************************************************************)
EXTENDS AgentAccess, FiniteSetTheorems, WellFoundedInduction, TLAPS

-----------------------------------------------------------------------------
(* Plans: what a request of each kind does, step by step.                  *)

Targets == Rights \cup {"list"}

LEMMA SetToSeqIsOnto ==
    ASSUME NEW S, IsFiniteSet(S)
    PROVE  /\ SetToSeq(S) \in [1..Cardinality(S) -> S]
           /\ \A x \in S : \E j \in 1..Cardinality(S) : SetToSeq(S)[j] = x
<1> DEFINE n == Cardinality(S)
<1>n. n \in Nat
    BY FS_CardinalityType
<1>1. PICK g : g \in Bijection(1..n, S)
    BY FS_CardinalityType DEF ExistsBijection
<1>2. g \in [1..n -> S] /\ IsInjective(g)
    BY <1>1 DEF Bijection, Injection
<1> DEFINE f == SetToSeq(S)
<1>3. f \in [1..n -> S] /\ IsInjective(f)
    BY <1>2 DEF SetToSeq
<1>4. f \in Injection(1..n, S)
    BY <1>3 DEF Injection
<1>5. Cardinality(1..n) = Cardinality(S)
    BY <1>n, FS_Interval
<1>6. f \in Surjection(1..n, S)
    BY <1>4, <1>5, FS_Injection
<1> HIDE DEF n, f
<1>7. \A x \in S : \E j \in 1..n : f[j] = x
    BY <1>6 DEF Surjection
<1> QED
    BY <1>3, <1>7 DEF n, f

QuestionWords == {"role", "admin", "seat"}

\* A question about one of the libraries.  Only readers are looked for among the seats.
IsQuestion(q, libs, right) ==
    \E what \in QuestionWords, l \in libs :
        q = Ask(what, l, right) /\ (what = "seat" => right = "read")

WellAsked(q) ==
    /\ q.do \in QuestionWords => q.lib \in Team /\ q.right \in Targets
    /\ q.do = "seat" => q.right = "read"
    /\ q.right = "list" => q.do \in QuestionWords

LEMMA LookUpsLength ==
    ASSUME NEW right \in Targets
    PROVE  /\ LookUps(right) \in Seq({"role", "admin", "seat"})
           /\ Len(LookUps(right)) = IF right = "read" THEN 3 ELSE 2
           /\ LookUps(right) = IF right = "list" THEN <<"admin", "role">>
                               ELSE IF right = "read" THEN <<"role", "admin", "seat">>
                               ELSE <<"role", "admin">>
           /\ \A i \in 1..Len(LookUps(right)) : LookUps(right)[i] = "seat" => right = "read"
<1>1. CASE right = "list"
    <2>1. LookUps(right) = <<"admin", "role">> /\ right # "read"
        BY <1>1 DEF LookUps
    <2>2. PICK L : L = <<"admin", "role">>
        OBVIOUS
    <2>3. L \in Seq({"role", "admin", "seat"}) /\ Len(L) = 2 /\ L[1] # "seat" /\ L[2] # "seat"
        BY <2>2
    <2>4. \A i \in 1..Len(L) : L[i] # "seat"
        BY <2>3
    <2> QED
        BY <1>1, <2>1, <2>2, <2>3, <2>4
<1>2. CASE right = "read"
    <2>1. LookUps(right) = <<"role", "admin", "seat">>
        BY <1>2 DEF LookUps
    <2>2. LookUps(right) \in Seq({"role", "admin", "seat"}) /\ Len(LookUps(right)) = 3
        BY <2>1
    <2>3. LookUps(right) = IF right = "list" THEN <<"admin", "role">>
                           ELSE IF right = "read" THEN <<"role", "admin", "seat">>
                           ELSE <<"role", "admin">>
        BY <1>2, <2>1
    <2>4. Len(LookUps(right)) = IF right = "read" THEN 3 ELSE 2
        BY <1>2, <2>2
    <2> QED
        BY <1>2, <2>2, <2>3, <2>4, Zenon
<1>3. CASE right \in {"write", "maintain"}
    <2>1. LookUps(right) = <<"role", "admin">> /\ right # "list" /\ right # "read"
        BY <1>3 DEF LookUps
    <2>2. PICK L : L = <<"role", "admin">>
        OBVIOUS
    <2>3. L \in Seq({"role", "admin", "seat"}) /\ Len(L) = 2 /\ L[1] # "seat" /\ L[2] # "seat"
        BY <2>2
    <2>4. \A i \in 1..Len(L) : L[i] # "seat"
        BY <2>3
    <2>5. Len(LookUps(right)) = 2 /\ LookUps(right) \in Seq({"role", "admin", "seat"})
          /\ \A i \in 1..Len(LookUps(right)) : LookUps(right)[i] # "seat"
        BY <2>1, <2>2, <2>3, <2>4
    <2>6. \A i \in 1..Len(LookUps(right)) : LookUps(right)[i] = "seat" => right = "read"
        BY <2>5
    <2>7. LookUps(right) = IF right = "list" THEN <<"admin", "role">>
                           ELSE IF right = "read" THEN <<"role", "admin", "seat">>
                           ELSE <<"role", "admin">>
        BY <2>1, Zenon
    <2>8. Len(LookUps(right)) = IF right = "read" THEN 3 ELSE 2
        BY <2>1, <2>5
    <2> QED
        BY <2>5, <2>6, <2>7, <2>8, Zenon
<1>4. right \in {"list", "read", "write", "maintain"}
    BY DEF Targets, Rights
<1> QED
    BY <1>1, <1>2, <1>3, <1>4

LEMMA QuestionsInTurn ==
    ASSUME NEW l \in Team, NEW right \in Targets
    PROVE  /\ Questions(l, right) \in Seq(Asks)
           /\ Len(Questions(l, right)) = Len(LookUps(right))
           /\ \A i \in 1..Len(LookUps(right)) :
                Questions(l, right)[i] = Ask(LookUps(right)[i], l, right)
           /\ \A i \in 1..Len(LookUps(right)) : IsQuestion(Questions(l, right)[i], {l}, right)
<1> DEFINE L == LookUps(right)
<1>1. L \in Seq({"role", "admin", "seat"}) /\ DOMAIN L = 1..Len(L) /\ Len(L) \in Nat
    BY LookUpsLength
<1>2. \A i \in 1..Len(L) : L[i] \in {"role", "admin", "seat"}
    BY <1>1
<1>3. Questions(l, right) = [i \in 1..Len(L) |-> Ask(L[i], l, right)]
    BY <1>1 DEF Questions
<1> HIDE DEF L
<1>4. \A i \in 1..Len(L) : Ask(L[i], l, right) \in Asks
    <2>1. \A x \in {"role", "admin", "seat"} : [do |-> x, lib |-> l, right |-> right] \in Asks
        BY DEF Asks, Steps, Targets
    <2> QED
        BY <1>2, <2>1 DEF Ask
<1>5. Questions(l, right) \in [1..Len(L) -> Asks]
    BY <1>3, <1>4
<1>s. \A i \in 1..Len(L) : L[i] = "seat" => right = "read"
    BY LookUpsLength DEF L
<1>6. \A i \in 1..Len(L) : IsQuestion(Ask(L[i], l, right), {l}, right)
    BY <1>2, <1>s DEF IsQuestion, QuestionWords
<1>7. \A i \in 1..Len(L) : Questions(l, right)[i] = Ask(L[i], l, right)
    BY <1>3
<1>8. Len(Questions(l, right)) = Len(L) /\ Questions(l, right) \in Seq(Asks)
    BY <1>1, <1>3, <1>5
<1> QED
    BY <1>6, <1>7, <1>8 DEF L

\* All libraries are asked about, and no others.
LEMMA AskedInTurn ==
    ASSUME NEW libs \in SUBSET Team, NEW right \in Targets
    PROVE  /\ AskAll(libs, right) \in Seq(Asks)
           /\ \A i \in 1..Len(AskAll(libs, right)) : IsQuestion(AskAll(libs, right)[i], libs, right)
           /\ \A l \in libs, k \in 1..Len(LookUps(right)) :
                \E i \in 1..Len(AskAll(libs, right)) :
                    AskAll(libs, right)[i] = Ask(LookUps(right)[k], l, right)
<1> DEFINE n == Len(LookUps(right))
           c == Cardinality(libs)
           f == SetToSeq(libs)
           A == AskAll(libs, right)
<1>1. n \in {2, 3}
    BY LookUpsLength
<1>2. c \in Nat /\ f \in [1..c -> libs] /\ \A l \in libs : \E j \in 1..c : f[j] = l
    BY AccessAssumption, FS_Subset, FS_CardinalityType, SetToSeqIsOnto
<1>3. A = [i \in 1..n * c |-> Questions(f[1 + ((i - 1) \div n)], right)[1 + ((i - 1) % n)]]
    BY DEF AskAll
<1> HIDE DEF n, c, f, A
<1>4. n * c \in Nat
    BY <1>1, <1>2
<1>5. \A i \in 1..n * c : 1 + ((i - 1) \div n) \in 1..c /\ 1 + ((i - 1) % n) \in 1..n
    <2>1. CASE n = 2
        BY <2>1, <1>2
    <2>2. CASE n = 3
        BY <2>2, <1>2
    <2> QED
        BY <2>1, <2>2, <1>1
<1>6. \A l \in libs, k \in 1..n : Questions(l, right)[k] = Ask(LookUps(right)[k], l, right)
                                  /\ IsQuestion(Questions(l, right)[k], libs, right)
                                  /\ Questions(l, right)[k] \in Asks
    BY QuestionsInTurn DEF n, IsQuestion
<1>7. \A i \in 1..n * c : A[i] \in Asks /\ IsQuestion(A[i], libs, right)
    BY <1>2, <1>3, <1>5, <1>6
<1>8. A \in [1..n * c -> Asks]
    BY <1>3, <1>7
<1>9. A \in Seq(Asks) /\ Len(A) = n * c
    BY <1>4, <1>8
<1>10. ASSUME NEW l \in libs, NEW k \in 1..n
       PROVE  \E i \in 1..Len(A) : A[i] = Ask(LookUps(right)[k], l, right)
    <2>1. PICK j \in 1..c : f[j] = l
        BY <1>2
    <2> DEFINE i == n * (j - 1) + k
    <2>2. i \in 1..n * c /\ (i - 1) \div n = j - 1 /\ (i - 1) % n = k - 1
        <3>1. CASE n = 2
            BY <3>1, <1>2
        <3>2. CASE n = 3
            BY <3>2, <1>2
        <3> QED
            BY <3>1, <3>2, <1>1
    <2> HIDE DEF i
    <2>3. 1 + ((i - 1) \div n) = j /\ 1 + ((i - 1) % n) = k
        BY <2>2, <1>2, <1>1
    <2>4. A[i] = Questions(l, right)[k]
        BY <2>1, <2>2, <2>3, <1>3
    <2> QED
        BY <2>2, <2>4, <1>6, <1>9
<1> QED
    BY <1>7, <1>9, <1>10 DEF A, n

\* When, within a request of its kind, a step is taken.
Stage(kind, q) ==
    IF q.do \in {"role", "admin", "seat"}
    THEN CASE q.right = "list"  -> 3
           [] q.right = "read"  -> IF kind = "record" THEN 0 ELSE 4
           [] q.right = "write" -> 5
           [] OTHER             -> 6
    ELSE CASE q.do = "token"   -> 0
           [] q.do = "granted" -> 1
           [] q.do = "orgs"    -> 2
           [] OTHER            -> 7

InOrder(kind, s) ==
    \A i, j \in 1..Len(s) : i < j =>
        \/ Stage(kind, s[i]) < Stage(kind, s[j])
        \/ Stage(kind, s[i]) = Stage(kind, s[j]) /\ Stage(kind, s[i]) \notin {1, 2}

LookWords == {"token", "granted", "orgs", "role", "admin", "seat"}

\* Part of a look-up, between two stages.
Piece(kind, s, lo, hi) ==
    /\ s \in Seq(Asks) /\ InOrder(kind, s)
    /\ \A i \in 1..Len(s) : /\ s[i].do \in LookWords /\ WellAsked(s[i])
                            /\ Stage(kind, s[i]) >= lo /\ Stage(kind, s[i]) <= hi

InTodo(s, q) == \E i \in 1..Len(s) : s[i] = q

LEMMA StageType == \A kind, q : Stage(kind, q) \in 0..7
<1> TAKE kind, q
<1>1. CASE q.do \in {"role", "admin", "seat"}
    BY <1>1 DEF Stage
<1>2. CASE q.do \notin {"role", "admin", "seat"}
    BY <1>2 DEF Stage
<1> QED
    BY <1>1, <1>2

LEMMA Concatenated ==
    ASSUME NEW S, NEW s \in Seq(S), NEW t \in Seq(S)
    PROVE  /\ s \o t \in Seq(S) /\ Len(s \o t) = Len(s) + Len(t)
           /\ Len(s) \in Nat /\ Len(t) \in Nat
           /\ \A i \in 1..Len(s) : (s \o t)[i] = s[i]
           /\ \A i \in 1..Len(t) : (s \o t)[Len(s) + i] = t[i]
           /\ \A i \in 1..Len(s \o t) :
                i \in 1..Len(s) \/ \E j \in 1..Len(t) : i = Len(s) + j
<1>1. Len(s) \in Nat /\ Len(t) \in Nat /\ s \o t \in Seq(S) /\ Len(s \o t) = Len(s) + Len(t)
    OBVIOUS
<1>2. \A i \in 1..(Len(s) + Len(t)) : (s \o t)[i] = IF i <= Len(s) THEN s[i] ELSE t[i - Len(s)]
    OBVIOUS
<1>3. \A i \in 1..Len(s) : (s \o t)[i] = s[i]
    BY <1>1, <1>2
<1>4. \A i \in 1..Len(t) : (s \o t)[Len(s) + i] = t[i]
    BY <1>1, <1>2
<1>5. ASSUME NEW i \in 1..Len(s \o t), i \notin 1..Len(s)
      PROVE  \E j \in 1..Len(t) : i = Len(s) + j
    <2>1. i - Len(s) \in 1..Len(t) /\ i = Len(s) + (i - Len(s))
        BY <1>1, <1>5
    <2> QED
        BY <2>1
<1> QED
    BY <1>1, <1>3, <1>4, <1>5

LEMMA Joined ==
    ASSUME NEW s \in Seq(Asks), NEW t \in Seq(Asks)
    PROVE  /\ s \o t \in Seq(Asks) /\ Len(s \o t) = Len(s) + Len(t)
           /\ Len(s) \in Nat /\ Len(t) \in Nat
           /\ \A i \in 1..Len(s) : (s \o t)[i] = s[i]
           /\ \A i \in 1..Len(t) : (s \o t)[Len(s) + i] = t[i]
           /\ \A i \in 1..Len(s \o t) :
                i \in 1..Len(s) \/ \E j \in 1..Len(t) : i = Len(s) + j
BY Concatenated

LEMMA JoinedHas ==
    ASSUME NEW s \in Seq(Asks), NEW t \in Seq(Asks), NEW q, InTodo(s, q) \/ InTodo(t, q)
    PROVE  InTodo(s \o t, q)
<1>1. CASE InTodo(s, q)
    BY <1>1, Joined DEF InTodo
<1>2. CASE InTodo(t, q)
    <2>1. PICK i \in 1..Len(t) : t[i] = q
        BY <1>2 DEF InTodo
    <2>2. Len(s) + i \in 1..Len(s \o t) /\ (s \o t)[Len(s) + i] = q
        BY <2>1, Joined
    <2> QED
        BY <2>2 DEF InTodo
<1> QED
    BY <1>1, <1>2

LEMMA JoinedPieces ==
    ASSUME NEW kind, NEW s, NEW t, NEW a \in 0..7, NEW b \in 0..7, NEW c \in 0..7, NEW d \in 0..7,
           Piece(kind, s, a, b), Piece(kind, t, c, d), a <= c, b < c, b <= d
    PROVE  Piece(kind, s \o t, a, d)
<1> DEFINE u == s \o t
<1>1. s \in Seq(Asks) /\ t \in Seq(Asks)
    BY DEF Piece
<1>2. u \in Seq(Asks)
    BY <1>1, Joined
<1>3. \A i \in 1..Len(s) : u[i] = s[i]
    BY <1>1, Joined
<1>4. \A i \in 1..Len(t) : u[Len(s) + i] = t[i]
    BY <1>1, Joined
<1>5. \A i \in 1..Len(u) : i \in 1..Len(s) \/ \E j \in 1..Len(t) : i = Len(s) + j
    BY <1>1, Joined
<1>6. Len(s) \in Nat /\ Len(t) \in Nat
    BY <1>1
<1> HIDE DEF u
<1>7. \A i \in 1..Len(u) : /\ u[i].do \in LookWords /\ WellAsked(u[i])
                           /\ Stage(kind, u[i]) >= a /\ Stage(kind, u[i]) <= d
    <2> TAKE i \in 1..Len(u)
    <2>1. CASE i \in 1..Len(s)
        BY <2>1, <1>3, StageType, SMTT(30) DEF Piece
    <2>2. ASSUME NEW j \in 1..Len(t), i = Len(s) + j
          PROVE  u[i].do \in LookWords /\ WellAsked(u[i]) /\ Stage(kind, u[i]) >= a /\ Stage(kind, u[i]) <= d
        <3>1. u[i] = t[j]
            BY <2>2, <1>4
        <3> QED
            BY <3>1, StageType DEF Piece
    <2> QED
        BY <2>1, <2>2, <1>5
<1>8. InOrder(kind, u)
    <2> SUFFICES ASSUME NEW i \in 1..Len(u), NEW j \in 1..Len(u), i < j
                 PROVE  \/ Stage(kind, u[i]) < Stage(kind, u[j])
                        \/ /\ Stage(kind, u[i]) = Stage(kind, u[j])
                           /\ Stage(kind, u[i]) \notin {1, 2}
        BY DEF InOrder
    <2>1. CASE i \in 1..Len(s) /\ j \in 1..Len(s)
        BY <2>1, <1>3 DEF Piece, InOrder
    <2>2. CASE i \in 1..Len(s) /\ \E k \in 1..Len(t) : j = Len(s) + k
        <3>1. PICK k \in 1..Len(t) : j = Len(s) + k
            BY <2>2
        <3>2. u[i] = s[i] /\ u[j] = t[k]
            BY <2>2, <3>1, <1>3, <1>4
        <3>3. Stage(kind, s[i]) <= b /\ Stage(kind, t[k]) >= c
            BY <2>2 DEF Piece
        <3> QED
            BY <3>2, <3>3, StageType, SMTT(30)
    <2>3. CASE \E k \in 1..Len(t) : i = Len(s) + k
        <3>1. PICK k \in 1..Len(t) : i = Len(s) + k
            BY <2>3
        <3>a. j \notin 1..Len(s)
            BY <3>1, <1>6
        <3>2. PICK m \in 1..Len(t) : j = Len(s) + m
            BY <3>a, <1>5
        <3>3. k < m /\ u[i] = t[k] /\ u[j] = t[m]
            BY <3>1, <3>2, <1>4, <1>6
        <3> QED
            BY <3>3 DEF Piece, InOrder
    <2> QED
        BY <2>1, <2>2, <2>3, <1>5
<1> QED
    BY <1>2, <1>7, <1>8 DEF Piece, u

\* The stage at which a right is asked about.
RightStage(kind, right) ==
    CASE right = "list"  -> 3
      [] right = "read"  -> IF kind = "record" THEN 0 ELSE 4
      [] right = "write" -> 5
      [] OTHER           -> 6

LEMMA QuestionStage ==
    ASSUME NEW kind, NEW q, NEW libs \in SUBSET Team, NEW right \in Targets,
           IsQuestion(q, libs, right)
    PROVE  Stage(kind, q) = RightStage(kind, right) /\ q.do \in LookWords /\ WellAsked(q)
<1>1. q.do \in {"role", "admin", "seat"} /\ q.right = right /\ q.lib \in Team
      /\ (q.do = "seat" => right = "read")
    BY DEF IsQuestion, Ask, QuestionWords
<1> QED
    BY <1>1 DEF Stage, RightStage, LookWords, WellAsked, QuestionWords

\* Questions about one right make a piece.
LEMMA QuestionsArePiece ==
    ASSUME NEW kind, NEW s \in Seq(Asks), NEW libs \in SUBSET Team, NEW right \in Targets,
           \A i \in 1..Len(s) : IsQuestion(s[i], libs, right)
    PROVE  Piece(kind, s, RightStage(kind, right), RightStage(kind, right))
<1>1. RightStage(kind, right) \in {0, 3, 4, 5, 6}
    BY DEF RightStage
<1>2. \A i \in 1..Len(s) : /\ Stage(kind, s[i]) = RightStage(kind, right)
                             /\ s[i].do \in LookWords /\ WellAsked(s[i])
    BY QuestionStage
<1> QED
    BY <1>1, <1>2 DEF Piece, InOrder

Plans(kind) ==
    CASE kind = "key"      -> {Plain(<<"key", "grants">> \o Metered)}
      [] kind = "token"    -> {TokenRead}
      [] kind = "listing"  -> {Listing}
      [] kind = "page"     -> {Questions(l, right) \o <<Ask("page", l, right)>> :
                                  l \in Team, right \in Rights}
      [] kind = "record"   -> {Questions(l, "read") \o ListAll \o <<Ask("page", l, "read")>> :
                                  l \in Team}
      [] kind = "keys"     -> {Plain(<<"member", "count", "insert">>), Plain(<<"count", "insert">>),
                               Plain(<<"owned", "delete", "replace">>),
                               Plain(<<"owned", "delete", "drop">>)}
      [] kind = "exchange" -> {Plain(<<"code", "consume", "mint">>)}
      [] kind = "flush"    -> {Plain(<<"store">>)}
      [] OTHER             -> {<<>>}

LookKinds == {"token", "listing", "page", "record"}
MeterWords == {"account", "quota", "read", "meter", "buffer"}

WordsOf(kind) ==
    CASE kind = "key"      -> {"key", "grants"} \cup MeterWords
      [] kind = "token"    -> LookWords \cup MeterWords
      [] kind \in {"listing", "page", "record"} -> (LookWords \ {"token"}) \cup {"page"}
      [] kind = "keys"     -> {"member", "count", "insert", "owned", "delete", "replace", "drop"}
      [] kind = "exchange" -> {"code", "consume", "mint"}
      [] kind = "flush"    -> {"store"}
      [] OTHER             -> {}

\* Steps that are never the last.
Midway == LookWords \cup {"owned", "delete"}

\* The step right before.
Before(what) ==
    CASE what = "grants"              -> "key"
      [] what = "quota"               -> "account"
      [] what = "read"                -> "quota"
      [] what = "meter"               -> "read"
      [] what = "buffer"              -> "meter"
      [] what = "insert"              -> "count"
      [] what = "delete"              -> "owned"
      [] what \in {"replace", "drop"} -> "delete"
      [] what = "consume"             -> "code"
      [] what = "mint"                -> "consume"

Chained == {"grants", "quota", "read", "meter", "buffer", "insert", "delete", "replace", "drop",
            "consume", "mint"}

InChain(s) == \A i \in 1..Len(s) : s[i].do \in Chained => i > 1 /\ s[i-1].do = Before(s[i].do)

\* What is charged is told to the list of events next.
Charges(s) == \A i \in 1..Len(s) : s[i].do = "meter" => i < Len(s) /\ s[i+1].do = "buffer"

IsPlan(kind, s) ==
    /\ s \in Seq(Asks)
    /\ \A i \in 1..Len(s) : s[i].do \in WordsOf(kind)
    /\ InChain(s) /\ Charges(s)
    /\ kind # "none" => Len(s) > 0 /\ s[Len(s)].do \notin Midway

LEMMA PlainSteps ==
    ASSUME NEW whats \in Seq(Steps)
    PROVE  /\ Plain(whats) \in Seq(Asks) /\ Len(Plain(whats)) = Len(whats)
           /\ \A i \in 1..Len(whats) : /\ Plain(whats)[i] = Ask(whats[i], "none", "none")
                                       /\ Plain(whats)[i].do = whats[i]
                                       /\ Plain(whats)[i].right = "none"
<1>1. \A x \in Steps : Ask(x, "none", "none") \in Asks /\ Ask(x, "none", "none").do = x /\ Ask(x, "none", "none").right = "none"
    BY DEF Ask, Asks
<1>2. DOMAIN whats = 1..Len(whats) /\ Len(whats) \in Nat /\ \A i \in 1..Len(whats) : whats[i] \in Steps
    OBVIOUS
<1>3. Plain(whats) = [i \in 1..Len(whats) |-> Ask(whats[i], "none", "none")]
    BY <1>2 DEF Plain
<1>4. \A i \in 1..Len(whats) : Plain(whats)[i] = Ask(whats[i], "none", "none") /\ Plain(whats)[i] \in Asks
    BY <1>1, <1>2, <1>3
<1>5. DOMAIN Plain(whats) = 1..Len(whats) /\ Plain(whats) \in [1..Len(whats) -> Asks]
    BY <1>3, <1>4
<1>6. Plain(whats) \in Seq(Asks) /\ Len(Plain(whats)) = Len(whats)
    BY <1>2, <1>5
<1>7. \A i \in 1..Len(whats) : Plain(whats)[i].do = whats[i] /\ Plain(whats)[i].right = "none"
    BY <1>1, <1>2, <1>4
<1> QED
    BY <1>4, <1>6, <1>7

LEMMA MeteredSteps ==
    /\ Metered \in Seq(Steps) /\ Len(Metered) = 5
    /\ Plain(Metered) \in Seq(Asks) /\ Len(Plain(Metered)) = 5
    /\ \A i \in 1..5 : Plain(Metered)[i].do = Metered[i] /\ Plain(Metered)[i].right = "none"
    /\ Metered = <<"account", "quota", "read", "meter", "buffer">>
<1>1. Metered \in Seq(Steps) /\ Len(Metered) = 5
    BY DEF Metered, Steps
<1> QED
    BY <1>1, PlainSteps DEF Metered

\* A list of words in a chain.
Good(kind, whats) ==
    /\ whats \in Seq(Steps) /\ Len(whats) > 0 /\ whats[Len(whats)] \notin Midway
    /\ \A i \in 1..Len(whats) :
        /\ whats[i] \in WordsOf(kind)
        /\ whats[i] \in Chained => i > 1 /\ whats[i-1] = Before(whats[i])
        /\ whats[i] = "meter" => i < Len(whats) /\ whats[i+1] = "buffer"

LEMMA WordsArePlan ==
    ASSUME NEW kind, NEW whats, Good(kind, whats)
    PROVE  IsPlan(kind, Plain(whats))
<1>0. whats \in Seq(Steps) /\ Len(whats) \in Nat
    BY DEF Good
<1>1. \A i \in 1..Len(whats) : Plain(whats)[i].do = whats[i]
    BY <1>0, PlainSteps
<1>2. Plain(whats) \in Seq(Asks) /\ Len(Plain(whats)) = Len(whats)
    BY <1>0, PlainSteps
<1>3. \A i \in 1..Len(whats) : i > 1 => i - 1 \in 1..Len(whats)
    BY <1>0
<1> DEFINE P == Plain(whats)
<1> HIDE DEF P
<1>4. InChain(P)
    BY <1>0, <1>1, <1>2, <1>3 DEF P, Good, InChain
<1>5. \A i \in 1..Len(P) : P[i].do \in WordsOf(kind)
    BY <1>0, <1>1, <1>2 DEF P, Good
<1>6. Len(P) > 0 /\ P[Len(P)].do \notin Midway
    BY <1>0, <1>1, <1>2 DEF P, Good
<1>7. \A i \in 1..Len(whats) : i < Len(whats) => i + 1 \in 1..Len(whats)
    BY <1>0
<1>8. Charges(P)
    BY <1>0, <1>1, <1>2, <1>7 DEF P, Good, Charges
<1> QED
    BY <1>2, <1>4, <1>5, <1>6, <1>8 DEF P, IsPlan

KeyWords == <<"key", "grants", "account", "quota", "read", "meter", "buffer">>

LEMMA KeyPlan == Plain(<<"key", "grants">> \o Metered) = Plain(KeyWords)
<1> DEFINE K == <<"key", "grants">>
           C == K \o Metered
<1>1. K \in Seq(Steps) /\ Len(K) = 2 /\ K[1] = "key" /\ K[2] = "grants"
    BY DEF Steps
<1>2. Metered \in Seq(Steps) /\ Len(Metered) = 5
    BY MeteredSteps
<1> HIDE DEF K
<1>3. /\ C \in Seq(Steps) /\ Len(C) = 7
      /\ \A i \in 1..2 : C[i] = K[i]
      /\ \A i \in 1..5 : C[2 + i] = Metered[i]
    <2> DEFINE M == Metered
    <2>1. M \in Seq(Steps) /\ Len(M) = 5
        BY <1>2
    <2> HIDE DEF M
    <2>2. /\ K \o M \in Seq(Steps) /\ Len(K \o M) = Len(K) + Len(M)
          /\ \A i \in 1..Len(K) : (K \o M)[i] = K[i]
          /\ \A i \in 1..Len(M) : (K \o M)[Len(K) + i] = M[i]
        <3>1. \A s, t \in Seq(Steps) :
                /\ s \o t \in Seq(Steps) /\ Len(s \o t) = Len(s) + Len(t)
                /\ \A i \in 1..Len(s) : (s \o t)[i] = s[i]
                /\ \A i \in 1..Len(t) : (s \o t)[Len(s) + i] = t[i]
            BY Concatenated
        <3>2. K \in Seq(Steps) /\ M \in Seq(Steps)
            BY <1>1, <2>1
        <3> QED
            BY <3>1, <3>2, Zenon
    <2>3. C = K \o M
        BY DEF M
    <2> HIDE DEF C
    <2> QED
        BY <1>1, <2>1, <2>2, <2>3 DEF M
<1> HIDE DEF C
<1>4. \A i \in 1..7 : C[i] = KeyWords[i]
    <2>1. C[1] = K[1] /\ C[2] = K[2]
        BY <1>3
    <2>2. C[3] = Metered[1] /\ C[4] = Metered[2] /\ C[5] = Metered[3] /\ C[6] = Metered[4]
          /\ C[7] = Metered[5]
        BY <1>3
    <2> QED
        BY <1>1, <2>1, <2>2 DEF Metered, KeyWords
<1>5. KeyWords \in Seq(Steps) /\ Len(KeyWords) = 7
    BY DEF Steps, KeyWords
<1>6. \A x \in Seq(Steps) : Len(x) = 7 => x \in [1..7 -> Steps]
    OBVIOUS
<1>7. C \in [1..7 -> Steps] /\ KeyWords \in [1..7 -> Steps]
    BY <1>3, <1>5, <1>6
<1>8. C = KeyWords
    BY <1>4, <1>7
<1> QED
    BY <1>8 DEF C, K

LEMMA GoodWords ==
    /\ Good("key", KeyWords) /\ Good("exchange", <<"code", "consume", "mint">>)
    /\ Good("flush", <<"store">>)
    /\ Good("keys", <<"member", "count", "insert">>) /\ Good("keys", <<"count", "insert">>)
    /\ Good("keys", <<"owned", "delete", "replace">>) /\ Good("keys", <<"owned", "delete", "drop">>)
<1>1. Good("key", KeyWords)
    <2>1. KeyWords \in Seq(Steps) /\ Len(KeyWords) = 7 /\ KeyWords[7] \notin Midway
        BY DEF KeyWords, Steps, LookWords, Midway
    <2>2. \A i \in 1..7 : KeyWords[i] \in WordsOf("key")
        BY DEF WordsOf, MeterWords, KeyWords
    <2>3. \A i \in 1..7 : KeyWords[i] \in Chained => i > 1 /\ KeyWords[i-1] = Before(KeyWords[i])
        BY DEF Chained, Before, KeyWords
    <2>4. \A i \in 1..7 : KeyWords[i] = "meter" => i < 7 /\ KeyWords[i+1] = "buffer"
        BY DEF KeyWords
    <2> QED
        BY <2>1, <2>2, <2>3, <2>4 DEF Good
<1>2. Good("exchange", <<"code", "consume", "mint">>)
    BY DEF Good, WordsOf, Chained, Before, Steps, LookWords, Midway
<1>3. Good("flush", <<"store">>)
    BY DEF Good, WordsOf, Chained, Before, Steps, LookWords, Midway
<1>4. Good("keys", <<"member", "count", "insert">>)
    <2>1. PICK W : W = <<"member", "count", "insert">>
        OBVIOUS
    <2>2. /\ W \in Seq(Steps) /\ Len(W) > 0 /\ W[Len(W)] \notin Midway
          /\ \A i \in 1..Len(W) : W[i] # "meter"
        BY <2>1 DEF Steps, LookWords, Midway
    <2>3. \A i \in 1..Len(W) :
            W[i] \in WordsOf("keys") /\ (W[i] \in Chained => i > 1 /\ W[i-1] = Before(W[i]))
        BY <2>1 DEF WordsOf, Chained, Before
    <2> QED
        BY <2>1, <2>2, <2>3 DEF Good
<1>5. Good("keys", <<"count", "insert">>)
    <2>1. PICK W : W = <<"count", "insert">>
        OBVIOUS
    <2>2. /\ W \in Seq(Steps) /\ Len(W) > 0 /\ W[Len(W)] \notin Midway
          /\ \A i \in 1..Len(W) : W[i] # "meter"
        BY <2>1 DEF Steps, LookWords, Midway
    <2>3. \A i \in 1..Len(W) :
            W[i] \in WordsOf("keys") /\ (W[i] \in Chained => i > 1 /\ W[i-1] = Before(W[i]))
        BY <2>1 DEF WordsOf, Chained, Before
    <2> QED
        BY <2>1, <2>2, <2>3 DEF Good
<1>6. Good("keys", <<"owned", "delete", "replace">>)
    <2>1. PICK W : W = <<"owned", "delete", "replace">>
        OBVIOUS
    <2>2. /\ W \in Seq(Steps) /\ Len(W) > 0 /\ W[Len(W)] \notin Midway
          /\ \A i \in 1..Len(W) : W[i] # "meter"
        BY <2>1 DEF Steps, LookWords, Midway
    <2>3. \A i \in 1..Len(W) :
            W[i] \in WordsOf("keys") /\ (W[i] \in Chained => i > 1 /\ W[i-1] = Before(W[i]))
        BY <2>1 DEF WordsOf, Chained, Before
    <2> QED
        BY <2>1, <2>2, <2>3 DEF Good
<1>7. Good("keys", <<"owned", "delete", "drop">>)
    <2>1. PICK W : W = <<"owned", "delete", "drop">>
        OBVIOUS
    <2>2. /\ W \in Seq(Steps) /\ Len(W) > 0 /\ W[Len(W)] \notin Midway
          /\ \A i \in 1..Len(W) : W[i] # "meter"
        BY <2>1 DEF Steps, LookWords, Midway
    <2>3. \A i \in 1..Len(W) :
            W[i] \in WordsOf("keys") /\ (W[i] \in Chained => i > 1 /\ W[i-1] = Before(W[i]))
        BY <2>1 DEF WordsOf, Chained, Before
    <2> QED
        BY <2>1, <2>2, <2>3 DEF Good
<1> QED
    BY <1>1, <1>2, <1>3, <1>4, <1>5, <1>6, <1>7

LEMMA SimplePlans ==
    ASSUME NEW kind \in {"key", "keys", "exchange", "flush", "none"}, NEW s \in Plans(kind)
    PROVE  IsPlan(kind, s)
<1>1. CASE kind = "none"
    <2>1. s = <<>>
        BY <1>1 DEF Plans
    <2> QED
        BY <1>1, <2>1 DEF IsPlan, InChain, Charges
<1>2. CASE kind # "none"
    <2>1. CASE kind = "key"
        BY <2>1, GoodWords, KeyPlan, WordsArePlan DEF Plans
    <2>2. CASE kind = "exchange"
        <3>1. Plans("exchange") = {Plain(<<"code", "consume", "mint">>)}
            BY DEF Plans
        <3> DEFINE W == <<"code", "consume", "mint">>
        <3>2. Good("exchange", W) /\ s = Plain(W)
            BY <2>2, <3>1, GoodWords
        <3> HIDE DEF W
        <3> QED
            BY <2>2, <3>2, WordsArePlan
    <2>3. CASE kind = "flush"
        <3>1. Plans("flush") = {Plain(<<"store">>)}
            BY DEF Plans
        <3> DEFINE W == <<"store">>
        <3>2. Good("flush", W) /\ s = Plain(W)
            BY <2>3, <3>1, GoodWords
        <3> HIDE DEF W
        <3> QED
            BY <2>3, <3>2, WordsArePlan
    <2>4. CASE kind = "keys"
        <3>1. Plans("keys") = {Plain(<<"member", "count", "insert">>), Plain(<<"count", "insert">>),
                               Plain(<<"owned", "delete", "replace">>),
                               Plain(<<"owned", "delete", "drop">>)}
            BY DEF Plans
        <3> QED
            BY <2>4, <3>1, GoodWords, WordsArePlan, Zenon
    <2> QED
        BY <1>2, <2>1, <2>2, <2>3, <2>4
<1> QED
    BY <1>1, <1>2

\* The rights over the team's libraries that a user may hold, each with its reason.
Holdable == ({"grant", "admin"} \X Team \X Rights) \cup ({"seat"} \X Open \X {"read"})

\* What a look-up should find of them, and the step that finds it.
Owed(kind, page, x) ==
    CASE kind = "token"   -> {"list", "read", x[3]}
      [] kind = "listing" -> {"list"} \cup (IF x[3] = "maintain" THEN {"maintain"} ELSE {})
      [] kind = "page"    -> IF x[2] = page.lib /\ x[3] = page.right THEN {x[3]} ELSE {}
      [] kind = "record"  -> IF x[2] = page.lib /\ x[3] = "read" THEN {"read", "list"} ELSE {}
      [] OTHER            -> {}

Granted == Ask("granted", "none", "none")
Orgs    == Ask("orgs", "none", "none")

StepFor(f, l, right) ==
    IF right = "list" /\ f = "grant" THEN Granted
    ELSE IF right = "list" /\ l \in Open THEN Orgs
    ELSE Ask(IF f = "grant" THEN "role" ELSE f, l, right)

\* The steps of a look-up are in order, and a page is last.
Looking(kind, s) ==
    /\ InOrder(kind, s)
    /\ \A i \in 1..Len(s) : WellAsked(s[i]) /\ (s[i].do = "page" => i = Len(s))

LooksUp(kind, s) ==
    /\ IsPlan(kind, s) /\ Looking(kind, s)
    /\ \A x \in Holdable : \A right \in Owed(kind, s[Len(s)], x) :
            InTodo(s, StepFor(x[1], x[2], right))

\* A look-up ends with the page, or with the metered read.
IsEnd(kind, e) ==
    /\ e \in Seq(Asks) /\ Len(e) > 0 /\ InChain(e) /\ Charges(e)
    /\ \A i \in 1..Len(e) : /\ e[i].do \in WordsOf(kind) \ LookWords /\ e[i].right # "list"
                            /\ e[i].do = "page" => i = Len(e)

LEMMA WordsOfLook ==
    ASSUME NEW kind \in LookKinds
    PROVE  /\ LookWords \ {"token"} \subseteq WordsOf(kind) /\ LookWords \cap Chained = {}
           /\ kind = "token" => "token" \in WordsOf(kind) /\ MeterWords \subseteq WordsOf(kind)
           /\ kind # "token" => "page" \in WordsOf(kind)
           /\ "page" \notin LookWords /\ "page" \notin Chained /\ MeterWords \cap LookWords = {}
           /\ WordsOf(kind) \cap Midway \subseteq LookWords
<1>1. LookWords \cap Chained = {} /\ "page" \notin LookWords /\ "page" \notin Chained
      /\ MeterWords \cap LookWords = {}
    BY DEF LookWords, Chained, MeterWords
<1>m. (LookWords \cup MeterWords \cup {"page"}) \cap Midway \subseteq LookWords
    BY DEF LookWords, MeterWords, Midway
<1>2. CASE kind = "token"
    <2>1. WordsOf(kind) = LookWords \cup MeterWords
        BY <1>2 DEF WordsOf
    <2>2. "token" \in LookWords
        BY DEF LookWords
    <2> QED
        BY <1>1, <1>m, <1>2, <2>1, <2>2
<1>3. CASE kind \in {"listing", "page", "record"}
    <2>1. WordsOf(kind) = (LookWords \ {"token"}) \cup {"page"} /\ kind # "token"
        BY <1>3 DEF WordsOf
    <2> QED
        BY <1>1, <1>m, <2>1
<1>4. kind = "token" \/ kind \in {"listing", "page", "record"}
    BY DEF LookKinds
<1> QED
    BY <1>2, <1>3, <1>4

LEMMA FrontAndEnd ==
    ASSUME NEW kind \in LookKinds, NEW s, NEW e, Piece(kind, s, 0, 6), IsEnd(kind, e),
           kind = "token" \/ \A i \in 1..Len(s) : s[i].do # "token"
    PROVE  /\ IsPlan(kind, s \o e) /\ Looking(kind, s \o e)
           /\ (s \o e)[Len(s \o e)] = e[Len(e)]
<1> DEFINE u == s \o e
<1>1. s \in Seq(Asks) /\ e \in Seq(Asks)
    BY DEF Piece, IsEnd
<1>2. u \in Seq(Asks) /\ Len(u) = Len(s) + Len(e) /\ Len(s) \in Nat /\ Len(e) \in Nat /\ Len(e) > 0
    BY <1>1, Joined DEF IsEnd
<1>3. \A i \in 1..Len(s) : u[i] = s[i]
    BY <1>1, Joined
<1>4. \A i \in 1..Len(e) : u[Len(s) + i] = e[i]
    BY <1>1, Joined
<1>5. \A i \in 1..Len(u) : i \in 1..Len(s) \/ \E j \in 1..Len(e) : i = Len(s) + j
    BY <1>1, Joined
<1> HIDE DEF u
<1>6. u[Len(u)] = e[Len(e)]
    BY <1>2, <1>4
<1>7. \A i \in 1..Len(s) : s[i].do \in LookWords /\ s[i].do \in WordsOf(kind) /\ s[i].do \notin Chained
    BY WordsOfLook DEF Piece, LookKinds
<1>8. \A i \in 1..Len(e) : e[i].do \in WordsOf(kind) /\ e[i].do \notin LookWords
    BY DEF IsEnd
<1>9. \A i \in 1..Len(u) : u[i].do \in WordsOf(kind)
    BY <1>3, <1>4, <1>5, <1>7, <1>8
<1>10. \A i \in 1..Len(u) : u[i].do = "page" => i = Len(u)
    <2>1. \A i \in 1..Len(s) : u[i].do # "page"
        BY <1>3, <1>7, WordsOfLook
    <2>2. \A j \in 1..Len(e) : u[Len(s) + j].do = "page" => Len(s) + j = Len(u)
        BY <1>2, <1>4 DEF IsEnd
    <2> QED
        BY <1>5, <2>1, <2>2
<1>11. InChain(u)
    <2>1. \A i \in 1..Len(s) : u[i].do \notin Chained
        BY <1>3, <1>7
    <2>2. ASSUME NEW j \in 1..Len(e), u[Len(s) + j].do \in Chained
          PROVE  Len(s) + j > 1 /\ u[(Len(s) + j) - 1].do = Before(u[Len(s) + j].do)
        <3>1. j > 1 /\ e[j-1].do = Before(e[j].do)
            BY <1>4, <2>2 DEF IsEnd, InChain
        <3>2. j - 1 \in 1..Len(e) /\ (Len(s) + j) - 1 = Len(s) + (j - 1)
            BY <3>1, <1>2
        <3>3. u[Len(s) + (j - 1)] = e[j-1]
            BY <1>4, <3>2
        <3> QED
            BY <1>2, <1>4, <3>1, <3>2, <3>3
    <2> QED
        BY <1>5, <2>1, <2>2 DEF InChain
<1>c. Charges(u)
    <2>1. \A i \in 1..Len(s) : u[i].do # "meter"
        BY <1>3, <1>7 DEF Chained
    <2>2. ASSUME NEW j \in 1..Len(e), u[Len(s) + j].do = "meter"
          PROVE  Len(s) + j < Len(u) /\ u[(Len(s) + j) + 1].do = "buffer"
        <3>1. j < Len(e) /\ e[j+1].do = "buffer"
            BY <1>4, <2>2 DEF IsEnd, Charges
        <3>2. j + 1 \in 1..Len(e) /\ (Len(s) + j) + 1 = Len(s) + (j + 1)
            BY <3>1, <1>2
        <3>3. u[Len(s) + (j + 1)] = e[j+1]
            BY <1>4, <3>2
        <3> QED
            BY <1>2, <3>1, <3>2, <3>3
    <2> QED
        BY <1>5, <2>1, <2>2 DEF Charges
<1>12. InOrder(kind, u)
    <2>1. \A i \in 1..Len(s) : Stage(kind, u[i]) \in 0..6
        BY <1>3, StageType DEF Piece
    <2>2. \A j \in 1..Len(e) : Stage(kind, u[Len(s) + j]) = 7
        <3>1. \A j \in 1..Len(e) : e[j].do \notin {"token", "granted", "orgs", "role", "admin", "seat"}
            BY <1>8 DEF LookWords
        <3>2. \A j \in 1..Len(e) : Stage(kind, e[j]) = 7
            BY <3>1 DEF Stage
        <3> QED
            BY <1>4, <3>2
    <2>3. \A i, j \in 1..Len(s) : i < j =>
            \/ Stage(kind, u[i]) < Stage(kind, u[j])
            \/ Stage(kind, u[i]) = Stage(kind, u[j]) /\ Stage(kind, u[i]) \notin {1, 2}
        BY <1>3 DEF Piece, InOrder
    <2> SUFFICES ASSUME NEW i \in 1..Len(u), NEW j \in 1..Len(u), i < j
                 PROVE  \/ Stage(kind, u[i]) < Stage(kind, u[j])
                        \/ /\ Stage(kind, u[i]) = Stage(kind, u[j])
                           /\ Stage(kind, u[i]) \notin {1, 2}
        BY DEF InOrder
    <2>4. CASE j \in 1..Len(s)
        <3>1. i \in 1..Len(s)
            BY <2>4, <1>2
        <3> QED
            BY <2>3, <2>4, <3>1
    <2>5. CASE j \notin 1..Len(s)
        <3>1. Stage(kind, u[j]) = 7
            BY <2>5, <1>5, <2>2
        <3>2. Stage(kind, u[i]) \in 0..6 \cup {7}
            BY <1>5, <2>1, <2>2
        <3> QED
            BY <3>1, <3>2
    <2> QED
        BY <2>4, <2>5
<1>w. \A i \in 1..Len(u) : WellAsked(u[i])
    <2>1. \A j \in 1..Len(e) : WellAsked(e[j])
        BY DEF IsEnd, WellAsked, QuestionWords, LookWords
    <2>2. \A i \in 1..Len(s) : WellAsked(s[i])
        BY DEF Piece
    <2> QED
        BY <1>3, <1>4, <1>5, <2>1, <2>2
<1>13. Len(u) > 0 /\ u[Len(u)].do \notin Midway
    BY <1>2, <1>6, <1>8, WordsOfLook
<1> QED
    BY <1>2, <1>6, <1>9, <1>10, <1>11, <1>c, <1>12, <1>w, <1>13 DEF IsPlan, Looking, u

LEMMA TakePieces ==
    ASSUME NEW kind
    PROVE  /\ Piece(kind, Plain(<<"token">>), 0, 0)
           /\ Piece(kind, ListAll, 1, 3)
           /\ \A i \in 1..Len(ListAll) : ListAll[i].do # "token"
           /\ InTodo(ListAll, Granted) /\ InTodo(ListAll, Orgs)
           /\ \A l \in Private, what \in {"admin", "role"} : InTodo(ListAll, Ask(what, l, "list"))
<1>1. PICK W : W = <<"token">>
    OBVIOUS
<1>2. PICK G : G = <<"granted", "orgs">>
    OBVIOUS
<1>a. W \in Seq(Steps) /\ Len(W) = 1 /\ W[1] = "token"
    BY <1>1 DEF Steps
<1>b. G \in Seq(Steps) /\ Len(G) = 2 /\ G[1] = "granted" /\ G[2] = "orgs"
    BY <1>2 DEF Steps
<1>c. PICK PW : PW = Plain(W)
    OBVIOUS
<1>d. PICK PG : PG = Plain(G)
    OBVIOUS
<1>e. PICK A : A = AskAll(Private, "list")
    OBVIOUS
<1>3. PW \in Seq(Asks) /\ Len(PW) = 1 /\ PW[1].do = "token" /\ PW[1].right = "none"
    <2>1. /\ PW \in Seq(Asks) /\ Len(PW) = Len(W)
          /\ \A i \in 1..Len(W) : PW[i].do = W[i] /\ PW[i].right = "none"
        BY <1>a, <1>c, PlainSteps, Zenon
    <2> QED
        BY <2>1, <1>a
<1>4. /\ PG \in Seq(Asks) /\ Len(PG) = 2
      /\ PG[1].do = "granted" /\ PG[2].do = "orgs" /\ PG[1].right = "none" /\ PG[2].right = "none"
      /\ PG[1] = Granted /\ PG[2] = Orgs
    <2>1. /\ PG \in Seq(Asks) /\ Len(PG) = Len(G)
          /\ \A i \in 1..Len(G) : /\ PG[i].do = G[i] /\ PG[i] = Ask(G[i], "none", "none")
                                  /\ PG[i].right = "none"
        BY <1>b, <1>d, PlainSteps, Zenon
    <2>2. 1 \in 1..Len(G) /\ 2 \in 1..Len(G)
        BY <1>b
    <2>3. PG[1] = Granted /\ PG[2] = Orgs
        BY <1>b, <2>1, <2>2, Zenon DEF Granted, Orgs
    <2>4. PG[1].do = G[1] /\ PG[2].do = G[2] /\ PG[1].right = "none" /\ PG[2].right = "none"
        BY <2>1, <2>2, Zenon
    <2>5. PG \in Seq(Asks) /\ Len(PG) = Len(G)
        BY <2>1, Zenon
    <2> QED
        BY <1>b, <2>3, <2>4, <2>5
<1>5. Piece(kind, PW, 0, 0)
    <2>1. Stage(kind, PW[1]) = 0
        BY <1>3 DEF Stage
    <2> QED
        BY <1>3, <2>1 DEF Piece, InOrder, LookWords, WellAsked, QuestionWords
<1>6. Piece(kind, PG, 1, 2)
    <2>1. Stage(kind, PG[1]) = 1 /\ Stage(kind, PG[2]) = 2
        BY <1>4 DEF Stage
    <2>2. \A i \in 1..Len(PG) : i = 1 \/ i = 2
        BY <1>4
    <2>3. InOrder(kind, PG)
        BY <1>4, <2>1, <2>2 DEF InOrder
    <2> QED
        BY <1>4, <2>1, <2>2, <2>3 DEF Piece, LookWords, WellAsked, QuestionWords
<1>7. /\ A \in Seq(Asks)
      /\ \A i \in 1..Len(A) : IsQuestion(A[i], Private, "list")
      /\ \A l \in Private, k \in 1..2 : InTodo(A, Ask(LookUps("list")[k], l, "list"))
    <2>1. Private \in SUBSET Team /\ "list" \in Targets
        BY DEF Team, Targets
    <2>2. Len(LookUps("list")) = 2
        BY <2>1, LookUpsLength
    <2> QED
        BY <1>e, <2>1, <2>2, AskedInTurn DEF InTodo
<1>8. Piece(kind, A, 3, 3)
    BY <1>7, QuestionsArePiece DEF RightStage, Team, Targets
<1>9. ListAll = PG \o A
    BY <1>1, <1>2, <1>d, <1>e DEF ListAll
<1>10. Piece(kind, ListAll, 1, 3)
    BY <1>6, <1>8, <1>9, JoinedPieces
<1>11. \A i \in 1..Len(ListAll) : ListAll[i].do # "token"
    <2>1. \A i \in 1..Len(ListAll) : Stage(kind, ListAll[i]) >= 1
        BY <1>10 DEF Piece
    <2>2. \A q : q.do = "token" => Stage(kind, q) = 0
        BY DEF Stage
    <2> QED
        BY <2>1, <2>2
<1>12. InTodo(PG, Granted) /\ InTodo(PG, Orgs)
    BY <1>4 DEF InTodo
<1>13. InTodo(ListAll, Granted) /\ InTodo(ListAll, Orgs)
    BY <1>4, <1>7, <1>9, <1>12, JoinedHas
<1>14. \A l \in Private, what \in {"admin", "role"} : InTodo(A, Ask(what, l, "list"))
    <2>1. LookUps("list")[1] = "admin" /\ LookUps("list")[2] = "role"
        BY LookUpsLength DEF Targets
    <2> QED
        BY <1>7, <2>1
<1>15. \A l \in Private, what \in {"admin", "role"} : InTodo(ListAll, Ask(what, l, "list"))
    BY <1>4, <1>7, <1>9, <1>14, JoinedHas
<1> QED
    BY <1>1, <1>c, <1>5, <1>10, <1>11, <1>13, <1>15

\* Each library of the team is asked about.
LEMMA TakeAll ==
    ASSUME NEW kind, NEW right \in Rights
    PROVE  /\ AskAll(Team, right) \in Seq(Asks)
           /\ Piece(kind, AskAll(Team, right), RightStage(kind, right), RightStage(kind, right))
           /\ \A i \in 1..Len(AskAll(Team, right)) : AskAll(Team, right)[i].do # "token"
           /\ \A l \in Team : /\ InTodo(AskAll(Team, right), Ask("role", l, right))
                              /\ InTodo(AskAll(Team, right), Ask("admin", l, right))
                              /\ right = "read" => InTodo(AskAll(Team, right), Ask("seat", l, right))
<1> DEFINE A == AskAll(Team, right)
<1>1. /\ A \in Seq(Asks)
      /\ \A i \in 1..Len(A) : IsQuestion(A[i], Team, right)
      /\ \A l \in Team, k \in 1..Len(LookUps(right)) : InTodo(A, Ask(LookUps(right)[k], l, right))
    BY AskedInTurn DEF InTodo, Targets
<1> HIDE DEF A
<1>2. Piece(kind, A, RightStage(kind, right), RightStage(kind, right))
    BY <1>1, QuestionsArePiece DEF Targets
<1>3. \A i \in 1..Len(A) : A[i].do # "token"
    <2>1. \A q : IsQuestion(q, Team, right) => q.do # "token"
        BY DEF IsQuestion, Ask, QuestionWords
    <2> QED
        BY <1>1, <2>1
<1>4. ASSUME NEW l \in Team
      PROVE  /\ InTodo(A, Ask("role", l, right)) /\ InTodo(A, Ask("admin", l, right))
             /\ right = "read" => InTodo(A, Ask("seat", l, right))
    <2>1. LookUps(right)[1] = "role" /\ LookUps(right)[2] = "admin"
          /\ Len(LookUps(right)) \in {2, 3}
          /\ (right = "read" => LookUps(right)[3] = "seat" /\ Len(LookUps(right)) = 3)
        BY LookUpsLength DEF Targets, Rights
    <2> QED
        BY <1>1, <2>1
<1> QED
    BY <1>1, <1>2, <1>3, <1>4 DEF A

LEMMA PageIsEnd ==
    ASSUME NEW kind \in {"listing", "page", "record"}, NEW e \in Seq(Asks),
           Len(e) = 1, e[1].do = "page", e[1].right # "list"
    PROVE  IsEnd(kind, e)
<1>1. "page" \in WordsOf(kind) \ LookWords /\ "page" \notin Chained
    BY WordsOfLook DEF LookKinds
<1>2. \A i \in 1..Len(e) : i = 1
    OBVIOUS
<1> QED
    BY <1>1, <1>2 DEF IsEnd, InChain, Charges

LEMMA MeteredIsEnd == IsEnd("token", Plain(Metered))
<1>1. PICK e : e = Plain(Metered)
    OBVIOUS
<1>2. /\ e \in Seq(Asks) /\ Len(e) = 5
      /\ e[1].do = "account" /\ e[2].do = "quota" /\ e[3].do = "read" /\ e[4].do = "meter"
      /\ e[5].do = "buffer" /\ \A i \in 1..5 : e[i].right = "none"
    <2>1. e \in Seq(Asks) /\ Len(e) = 5 /\ \A i \in 1..5 : e[i].do = Metered[i] /\ e[i].right = "none"
        BY <1>1, MeteredSteps, Zenon
    <2>2. /\ Metered[1] = "account" /\ Metered[2] = "quota" /\ Metered[3] = "read"
          /\ Metered[4] = "meter" /\ Metered[5] = "buffer"
        BY DEF Metered
    <2>3. {1, 2, 3, 4, 5} \subseteq 1..5
        OBVIOUS
    <2> QED
        BY <2>1, <2>2, <2>3, Zenon
<1>3. \A i \in 1..Len(e) : i \in {1, 2, 3, 4, 5}
    BY <1>2
<1>4. InChain(e) /\ Charges(e)
    BY <1>2, <1>3 DEF InChain, Chained, Before, Charges
<1>5. \A i \in 1..Len(e) : e[i].do \in MeterWords /\ e[i].do # "page" /\ e[i].right # "list"
    BY <1>2, <1>3 DEF MeterWords
<1>6. MeterWords \subseteq WordsOf("token") /\ MeterWords \cap LookWords = {}
    BY WordsOfLook DEF LookKinds
<1> QED
    BY <1>1, <1>2, <1>4, <1>5, <1>6 DEF IsEnd

\* What is owed of a right, case by case.
LEMMA StepsFor ==
    ASSUME NEW x \in Holdable, NEW right \in Targets
    PROVE  /\ x[2] \in Team /\ x[1] \in {"grant", "admin", "seat"} /\ x[3] \in Rights
           /\ x[1] = "seat" => x[2] \in Open /\ x[3] = "read"
           /\ right = "list" => StepFor(x[1], x[2], right) =
                IF x[1] = "grant" THEN Granted
                ELSE IF x[2] \in Open THEN Orgs ELSE Ask(x[1], x[2], "list")
           /\ right = "list" /\ x[1] # "grant" /\ x[2] \notin Open =>
                x[1] = "admin" /\ x[2] \in Private
           /\ right # "list" => StepFor(x[1], x[2], right) =
                Ask(IF x[1] = "grant" THEN "role" ELSE x[1], x[2], right)
BY DEF Holdable, StepFor, Team, Rights

\* A look-up of libraries finds what is listed.
LEMMA ListIsSought ==
    ASSUME NEW x \in Holdable
    PROVE  InTodo(ListAll, StepFor(x[1], x[2], "list"))
<1>1. "list" \in Targets
    BY DEF Targets
<1>2. InTodo(ListAll, Granted) /\ InTodo(ListAll, Orgs)
      /\ \A l \in Private : InTodo(ListAll, Ask("admin", l, "list"))
    BY TakePieces
<1> QED
    BY <1>1, <1>2, StepsFor

LEMMA RightIsSought ==
    ASSUME NEW x \in Holdable, NEW right \in {"read", x[3]}
    PROVE  InTodo(AskAll(Team, right), StepFor(x[1], x[2], right))
<1>1. right \in Rights /\ right # "list" /\ right \in Targets
    BY StepsFor DEF Targets, Rights
<1>2. x[1] = "seat" => right = "read"
    BY <1>1, StepsFor
<1>3. x[2] \in Team /\ x[1] \in {"grant", "admin", "seat"}
    BY <1>1, StepsFor
<1>4. /\ InTodo(AskAll(Team, right), Ask("role", x[2], right))
      /\ InTodo(AskAll(Team, right), Ask("admin", x[2], right))
      /\ right = "read" => InTodo(AskAll(Team, right), Ask("seat", x[2], right))
    BY <1>1, <1>3, TakeAll
<1>5. CASE x[1] = "grant"
    BY <1>1, <1>4, <1>5, StepsFor
<1>6. CASE x[1] = "admin"
    BY <1>1, <1>4, <1>6, StepsFor
<1>7. CASE x[1] = "seat"
    BY <1>1, <1>2, <1>4, <1>7, StepsFor
<1> QED
    BY <1>3, <1>5, <1>6, <1>7

LEMMA TokenPlan == LooksUp("token", TokenRead)
<1>1. PICK P : P = Plain(<<"token">>)
    OBVIOUS
<1>2. PICK R : R = AskAll(Team, "read")
    OBVIOUS
<1>3. PICK W : W = AskAll(Team, "write")
    OBVIOUS
<1>4. PICK M : M = AskAll(Team, "maintain")
    OBVIOUS
<1>5. PICK L : L = ListAll
    OBVIOUS
<1>6. PICK e : e = Plain(Metered)
    OBVIOUS
<1> DEFINE F1 == P \o L
           F2 == F1 \o R
           F3 == F2 \o W
           F == F3 \o M
<1>7. TokenRead = F \o e
    BY <1>1, <1>2, <1>3, <1>4, <1>5, <1>6 DEF TokenRead
<1>8. /\ Piece("token", P, 0, 0) /\ Piece("token", L, 1, 3)
      /\ Piece("token", R, 4, 4) /\ Piece("token", W, 5, 5) /\ Piece("token", M, 6, 6)
    BY <1>1, <1>2, <1>3, <1>4, <1>5, TakePieces, TakeAll DEF RightStage, Rights
<1>9. Piece("token", F1, 0, 3)
    BY <1>8, JoinedPieces
<1>10. Piece("token", F2, 0, 4)
    <2> HIDE DEF F1
    <2> QED
        BY <1>8, <1>9, JoinedPieces
<1>11. Piece("token", F3, 0, 5)
    <2> HIDE DEF F2
    <2> QED
        BY <1>8, <1>10, JoinedPieces
<1>12. Piece("token", F, 0, 6)
    <2> HIDE DEF F3
    <2> QED
        BY <1>8, <1>11, JoinedPieces
<1>13. /\ F \in Seq(Asks) /\ F1 \in Seq(Asks) /\ F2 \in Seq(Asks) /\ F3 \in Seq(Asks)
       /\ P \in Seq(Asks) /\ R \in Seq(Asks) /\ W \in Seq(Asks) /\ M \in Seq(Asks)
       /\ L \in Seq(Asks) /\ e \in Seq(Asks)
    <2> HIDE DEF F, F1, F2, F3
    <2> QED
        BY <1>6, <1>8, <1>9, <1>10, <1>11, <1>12, MeteredSteps DEF Piece
<1>14. ASSUME NEW x \in Holdable, NEW right \in {"list", "read", x[3]}
       PROVE  InTodo(F \o e, StepFor(x[1], x[2], right))
    <2>1. PICK q : q = StepFor(x[1], x[2], right)
        OBVIOUS
    <2>2. InTodo(L, q) \/ InTodo(R, q) \/ InTodo(W, q) \/ InTodo(M, q)
        <3>1. CASE right = "list"
            BY <3>1, <2>1, <1>5, ListIsSought
        <3>2. CASE right # "list"
            <4>1. right \in {"read", x[3]} /\ x[3] \in Rights
                BY <3>2, StepsFor DEF Targets
            <4>2. InTodo(AskAll(Team, right), q)
                BY <4>1, <2>1, RightIsSought
            <4>3. right \in {"read", "write", "maintain"}
                BY <4>1 DEF Rights
            <4> QED
                BY <4>2, <4>3, <1>2, <1>3, <1>4
        <3> QED
            BY <3>1, <3>2
    <2>3. InTodo(L, q) => InTodo(F1, q)
        BY <1>13, JoinedHas
    <2> HIDE DEF F1
    <2>4. InTodo(F1, q) \/ InTodo(R, q) => InTodo(F2, q)
        BY <1>13, JoinedHas
    <2> HIDE DEF F2
    <2>5. InTodo(F2, q) \/ InTodo(W, q) => InTodo(F3, q)
        BY <1>13, JoinedHas
    <2> HIDE DEF F3
    <2>6. InTodo(F3, q) \/ InTodo(M, q) => InTodo(F, q)
        BY <1>13, JoinedHas
    <2> HIDE DEF F
    <2>7. InTodo(F, q) => InTodo(F \o e, q)
        BY <1>13, JoinedHas
    <2> QED
        BY <2>1, <2>2, <2>3, <2>4, <2>5, <2>6, <2>7
<1> HIDE DEF F
<1>15. IsEnd("token", e)
    BY <1>6, MeteredIsEnd
<1>16. /\ IsPlan("token", F \o e) /\ Looking("token", F \o e)
    <2>1. "token" \in LookKinds
        BY DEF LookKinds
    <2> QED
        BY <1>12, <1>15, <2>1, FrontAndEnd, Zenon
<1>17. \A x, page : Owed("token", page, x) = {"list", "read", x[3]}
    BY DEF Owed
<1> QED
    BY <1>7, <1>14, <1>16, <1>17 DEF LooksUp

LEMMA ListingPlan == LooksUp("listing", Listing)
<1>1. PICK M : M = AskAll(Team, "maintain")
    OBVIOUS
<1>2. PICK L : L = ListAll
    OBVIOUS
<1>3. PICK e : e = Plain(<<"page">>)
    OBVIOUS
<1> DEFINE F == L \o M
<1>4. Listing = F \o e
    BY <1>1, <1>2, <1>3 DEF Listing
<1>5. /\ Piece("listing", L, 1, 3) /\ Piece("listing", M, 6, 6)
      /\ \A i \in 1..Len(L) : L[i].do # "token"
      /\ \A i \in 1..Len(M) : M[i].do # "token"
    BY <1>1, <1>2, TakePieces, TakeAll DEF RightStage, Rights
<1>6. Piece("listing", F, 0, 6)
    <2>1. Piece("listing", F, 1, 6)
        BY <1>5, JoinedPieces
    <2> HIDE DEF F
    <2> QED
        BY <2>1, StageType DEF Piece
<1>7. L \in Seq(Asks) /\ M \in Seq(Asks)
    BY <1>5 DEF Piece
<1>8. \A i \in 1..Len(F) : F[i].do # "token"
    BY <1>5, <1>7, Joined
<1>9. F \in Seq(Asks)
    BY <1>7, Joined
<1>10. e \in Seq(Asks) /\ Len(e) = 1 /\ e[1].do = "page" /\ e[1].right = "none"
    <2>1. PICK G : G = <<"page">>
        OBVIOUS
    <2>2. G \in Seq(Steps) /\ Len(G) = 1 /\ G[1] = "page"
        BY <2>1 DEF Steps
    <2>3. /\ e \in Seq(Asks) /\ Len(e) = Len(G)
          /\ \A i \in 1..Len(G) : e[i].do = G[i] /\ e[i].right = "none"
        BY <2>1, <2>2, <1>3, PlainSteps, Zenon
    <2> QED
        BY <2>2, <2>3
<1>11. ASSUME NEW x \in Holdable, NEW right \in Owed("listing", e[1], x)
       PROVE  InTodo(F \o e, StepFor(x[1], x[2], right))
    <2>1. PICK q : q = StepFor(x[1], x[2], right)
        OBVIOUS
    <2>2. right = "list" \/ (right = "maintain" /\ x[3] = "maintain")
        BY DEF Owed
    <2>3. right = "list" => InTodo(L, q)
        BY <2>1, <1>2, ListIsSought
    <2>4. right = "maintain" => InTodo(M, q)
        BY <2>1, <2>2, <1>1, RightIsSought
    <2>5. InTodo(L, q) \/ InTodo(M, q) => InTodo(F, q)
        BY <1>7, JoinedHas
    <2> HIDE DEF F
    <2>6. InTodo(F, q) => InTodo(F \o e, q)
        BY <1>9, <1>10, JoinedHas
    <2> QED
        BY <2>1, <2>2, <2>3, <2>4, <2>5, <2>6
<1> HIDE DEF F
<1>12. IsEnd("listing", e)
    BY <1>10, PageIsEnd
<1>13. /\ IsPlan("listing", F \o e) /\ Looking("listing", F \o e)
       /\ (F \o e)[Len(F \o e)] = e[Len(e)]
    <2>1. "listing" \in LookKinds
        BY DEF LookKinds
    <2>2. PICK f : f = F
        OBVIOUS
    <2>3. Piece("listing", f, 0, 6) /\ \A i \in 1..Len(f) : f[i].do # "token"
        BY <1>6, <1>8, <2>2
    <2> QED
        BY <1>12, <2>1, <2>2, <2>3, FrontAndEnd
<1>14. (F \o e)[Len(F \o e)] = e[1]
    BY <1>10, <1>13
<1> QED
    BY <1>4, <1>11, <1>13, <1>14 DEF LooksUp

LEMMA PageStep ==
    ASSUME NEW l \in Team, NEW right \in Rights
    PROVE  /\ <<Ask("page", l, right)>> \in Seq(Asks) /\ Len(<<Ask("page", l, right)>>) = 1
           /\ <<Ask("page", l, right)>>[1].do = "page"
           /\ <<Ask("page", l, right)>>[1].lib = l /\ <<Ask("page", l, right)>>[1].right = right
<1>1. PICK q : q = Ask("page", l, right)
    OBVIOUS
<1>2. q \in Asks /\ q.do = "page" /\ q.lib = l /\ q.right = right
    BY <1>1 DEF Ask, Asks, Steps
<1>3. <<q>> \in Seq(Asks) /\ Len(<<q>>) = 1 /\ <<q>>[1] = q
    BY <1>2
<1> QED
    BY <1>1, <1>2, <1>3

\* One library is asked about.
LEMMA TakeOne ==
    ASSUME NEW kind, NEW l \in Team, NEW right \in Rights
    PROVE  /\ Piece(kind, Questions(l, right), RightStage(kind, right), RightStage(kind, right))
           /\ \A i \in 1..Len(Questions(l, right)) : Questions(l, right)[i].do # "token"
           /\ InTodo(Questions(l, right), Ask("role", l, right))
           /\ InTodo(Questions(l, right), Ask("admin", l, right))
           /\ right = "read" => InTodo(Questions(l, right), Ask("seat", l, right))
<1>1. right \in Targets
    BY DEF Targets
<1>2. PICK Q : Q = Questions(l, right)
    OBVIOUS
<1>3. PICK L : L = LookUps(right)
    OBVIOUS
<1>4. /\ Q \in Seq(Asks) /\ Len(Q) = Len(L)
      /\ \A i \in 1..Len(L) : Q[i] = Ask(L[i], l, right)
      /\ \A i \in 1..Len(L) : IsQuestion(Q[i], {l}, right)
    BY <1>1, <1>2, <1>3, QuestionsInTurn
<1>5. Piece(kind, Q, RightStage(kind, right), RightStage(kind, right))
    BY <1>1, <1>4, QuestionsArePiece
<1>6. \A i \in 1..Len(Q) : Q[i].do # "token"
    <2>1. \A q : IsQuestion(q, {l}, right) => q.do # "token"
        BY DEF IsQuestion, Ask, QuestionWords
    <2> QED
        BY <1>4, <2>1
<1>7. L[1] = "role" /\ L[2] = "admin" /\ Len(L) \in {2, 3}
      /\ (right = "read" => L[3] = "seat" /\ Len(L) = 3)
    BY <1>1, <1>3, LookUpsLength DEF Rights
<1>8. /\ InTodo(Q, Ask("role", l, right)) /\ InTodo(Q, Ask("admin", l, right))
      /\ right = "read" => InTodo(Q, Ask("seat", l, right))
    <2>1. Q[1] = Ask("role", l, right) /\ 1 \in 1..Len(Q)
        BY <1>4, <1>7
    <2>2. Q[2] = Ask("admin", l, right) /\ 2 \in 1..Len(Q)
        BY <1>4, <1>7
    <2>3. right = "read" => Q[3] = Ask("seat", l, right) /\ 3 \in 1..Len(Q)
        BY <1>4, <1>7
    <2> QED
        BY <2>1, <2>2, <2>3 DEF InTodo
<1> QED
    BY <1>2, <1>5, <1>6, <1>8

LEMMA OneIsSought ==
    ASSUME NEW x \in Holdable
    PROVE  InTodo(Questions(x[2], x[3]), StepFor(x[1], x[2], x[3]))
<1>1. x[3] \in Rights /\ x[3] # "list" /\ x[3] \in Targets /\ x[2] \in Team
    BY StepsFor DEF Targets, Rights
<1>2. x[1] \in {"grant", "admin", "seat"} /\ (x[1] = "seat" => x[3] = "read")
    BY <1>1, StepsFor
<1>3. /\ InTodo(Questions(x[2], x[3]), Ask("role", x[2], x[3]))
      /\ InTodo(Questions(x[2], x[3]), Ask("admin", x[2], x[3]))
      /\ x[3] = "read" => InTodo(Questions(x[2], x[3]), Ask("seat", x[2], x[3]))
    BY <1>1, TakeOne
<1>4. CASE x[1] = "grant"
    BY <1>1, <1>3, <1>4, StepsFor
<1>5. CASE x[1] = "admin"
    BY <1>1, <1>3, <1>5, StepsFor
<1>6. CASE x[1] = "seat"
    BY <1>1, <1>2, <1>3, <1>6, StepsFor
<1> QED
    BY <1>2, <1>4, <1>5, <1>6

LEMMA PagePlan ==
    ASSUME NEW l \in Team, NEW right \in Rights
    PROVE  LooksUp("page", Questions(l, right) \o <<Ask("page", l, right)>>)
<1>1. PICK Q : Q = Questions(l, right)
    OBVIOUS
<1>2. PICK e : e = <<Ask("page", l, right)>>
    OBVIOUS
<1>3. e \in Seq(Asks) /\ Len(e) = 1 /\ e[1].do = "page" /\ e[1].lib = l /\ e[1].right = right
    BY <1>2, PageStep
<1>4. Piece("page", Q, 0, 6) /\ \A i \in 1..Len(Q) : Q[i].do # "token"
    <2>1. RightStage("page", right) \in 0..6
        BY DEF RightStage
    <2>2. /\ Piece("page", Q, RightStage("page", right), RightStage("page", right))
          /\ \A i \in 1..Len(Q) : Q[i].do # "token"
        BY <1>1, TakeOne
    <2> QED
        BY <2>1, <2>2, StageType DEF Piece
<1>5. IsEnd("page", e)
    BY <1>3, PageIsEnd DEF Rights
<1>6. PICK s : s = Q \o e
    OBVIOUS
<1>7. /\ IsPlan("page", s) /\ Looking("page", s)
      /\ s[Len(s)] = e[Len(e)]
    <2>1. "page" \in LookKinds
        BY DEF LookKinds
    <2>2. /\ IsPlan("page", Q \o e) /\ Looking("page", Q \o e)
          /\ (Q \o e)[Len(Q \o e)] = e[Len(e)]
        BY <1>4, <1>5, <2>1, FrontAndEnd, Zenon
    <2> QED
        BY <1>6, <2>2, Zenon
<1>8. s[Len(s)] = e[1]
    BY <1>3, <1>7
<1>9. ASSUME NEW x \in Holdable, NEW t \in Owed("page", e[1], x)
      PROVE  InTodo(s, StepFor(x[1], x[2], t))
    <2>1. x[2] = l /\ x[3] = right /\ t = right
        BY <1>3, <1>9 DEF Owed
    <2>2. InTodo(Q, StepFor(x[1], x[2], t))
        BY <2>1, <1>1, OneIsSought
    <2>3. Q \in Seq(Asks)
        BY <1>4 DEF Piece
    <2> QED
        BY <1>3, <1>6, <2>2, <2>3, JoinedHas
<1>10. LooksUp("page", s)
    BY <1>7, <1>8, <1>9 DEF LooksUp
<1> QED
    BY <1>1, <1>2, <1>3, <1>6, <1>8, <1>10

LEMMA RecordPlan ==
    ASSUME NEW l \in Team
    PROVE  LooksUp("record", Questions(l, "read") \o ListAll \o <<Ask("page", l, "read")>>)
<1>1. PICK Q : Q = Questions(l, "read")
    OBVIOUS
<1>2. PICK L : L = ListAll
    OBVIOUS
<1>3. PICK e : e = <<Ask("page", l, "read")>>
    OBVIOUS
<1>4. PICK F : F = Q \o L
    OBVIOUS
<1>5. PICK s : s = F \o e
    OBVIOUS
<1>r. "read" \in Rights
    BY DEF Rights
<1>6. e \in Seq(Asks) /\ Len(e) = 1 /\ e[1].do = "page" /\ e[1].lib = l /\ e[1].right = "read"
    BY <1>3, <1>r, PageStep
<1>7. /\ Piece("record", Q, 0, 0) /\ Piece("record", L, 1, 3)
      /\ \A i \in 1..Len(Q) : Q[i].do # "token"
      /\ \A i \in 1..Len(L) : L[i].do # "token"
    <2>1. RightStage("record", "read") = 0
        BY DEF RightStage
    <2>2. /\ Piece("record", Q, RightStage("record", "read"), RightStage("record", "read"))
          /\ \A i \in 1..Len(Q) : Q[i].do # "token"
        BY <1>1, <1>r, TakeOne
    <2>3. Piece("record", L, 1, 3) /\ \A i \in 1..Len(L) : L[i].do # "token"
        BY <1>2, TakePieces
    <2> QED
        BY <2>1, <2>2, <2>3
<1>8. Q \in Seq(Asks) /\ L \in Seq(Asks)
    BY <1>7 DEF Piece
<1>9. Piece("record", F, 0, 6)
    <2>1. Piece("record", F, 0, 3)
        BY <1>4, <1>7, JoinedPieces
    <2> QED
        BY <2>1, StageType DEF Piece
<1>10. \A i \in 1..Len(F) : F[i].do # "token"
    BY <1>4, <1>7, <1>8, Joined
<1>11. F \in Seq(Asks)
    BY <1>9 DEF Piece
<1>12. IsEnd("record", e)
    BY <1>6, PageIsEnd
<1>13. /\ IsPlan("record", s) /\ Looking("record", s)
       /\ s[Len(s)] = e[Len(e)]
    <2>1. "record" \in LookKinds
        BY DEF LookKinds
    <2>2. /\ IsPlan("record", F \o e) /\ Looking("record", F \o e)
          /\ (F \o e)[Len(F \o e)] = e[Len(e)]
        BY <1>9, <1>10, <1>12, <2>1, FrontAndEnd, Zenon
    <2> QED
        BY <1>5, <2>2, Zenon
<1>14. s[Len(s)] = e[1]
    BY <1>6, <1>13
<1>15. ASSUME NEW x \in Holdable, NEW t \in Owed("record", e[1], x)
       PROVE  InTodo(s, StepFor(x[1], x[2], t))
    <2>1. x[2] = l /\ x[3] = "read" /\ t \in {"read", "list"}
        BY <1>6, <1>15 DEF Owed
    <2>2. t = "read" => InTodo(Q, StepFor(x[1], x[2], t))
        BY <2>1, <1>1, OneIsSought
    <2>3. t = "list" => InTodo(L, StepFor(x[1], x[2], t))
        BY <1>2, ListIsSought
    <2>4. InTodo(F, StepFor(x[1], x[2], t))
        BY <1>4, <1>8, <2>1, <2>2, <2>3, JoinedHas
    <2> QED
        BY <1>5, <1>6, <1>11, <2>4, JoinedHas
<1>16. LooksUp("record", s)
    BY <1>13, <1>14, <1>15 DEF LooksUp
<1> QED
    BY <1>1, <1>2, <1>3, <1>4, <1>5, <1>16

\* So every plan is a plan, and the plan of a look-up looks up what is owed.
LEMMA LookPlans ==
    ASSUME NEW kind \in LookKinds, NEW s \in Plans(kind)
    PROVE  LooksUp(kind, s)
<1>1. CASE kind = "token"
    <2>1. s = TokenRead
        BY <1>1 DEF Plans
    <2> QED
        BY <1>1, <2>1, TokenPlan
<1>2. CASE kind = "listing"
    <2>1. s = Listing
        BY <1>2 DEF Plans
    <2> QED
        BY <1>2, <2>1, ListingPlan
<1>3. CASE kind = "page"
    <2>1. PICK l \in Team, right \in Rights : s = Questions(l, right) \o <<Ask("page", l, right)>>
        BY <1>3 DEF Plans
    <2> QED
        BY <1>3, <2>1, PagePlan
<1>4. CASE kind = "record"
    <2>1. PICK l \in Team : s = Questions(l, "read") \o ListAll \o <<Ask("page", l, "read")>>
        BY <1>4 DEF Plans
    <2> QED
        BY <1>4, <2>1, RecordPlan
<1> QED
    BY <1>1, <1>2, <1>3, <1>4 DEF LookKinds

Kinds == {"none", "key", "token", "listing", "page", "record", "keys", "exchange", "flush"}

LEMMA AllPlans ==
    ASSUME NEW kind \in Kinds, NEW s \in Plans(kind)
    PROVE  IsPlan(kind, s)
<1>1. kind \in LookKinds \/ kind \in {"key", "keys", "exchange", "flush", "none"}
    BY DEF Kinds, LookKinds
<1> QED
    BY <1>1, LookPlans, SimplePlans DEF LooksUp

-----------------------------------------------------------------------------
(* Tails of a plan: what a request has still to do.                        *)

LEMMA NatMin ==
    ASSUME NEW S \in SUBSET Nat, S # {}
    PROVE  Min(S) \in S /\ \A y \in S : Min(S) <= y
<1>1. PICK x \in S : \A y \in S : ~(<<y, x>> \in OpToRel(<, Nat))
    BY NatLessThanWellFounded, WFMin
<1>2. x \in Nat /\ \A y \in S : y \in Nat
    OBVIOUS
<1>3. \A y \in S : ~(y < x)
    BY <1>1, <1>2 DEF OpToRel
<1>4. \A y \in S : x <= y
    BY <1>2, <1>3
<1> QED
    BY <1>4 DEF Min

\* What any tail of a plan is.
Shape(kind, s) ==
    /\ s \in Seq(Asks)
    /\ \A i \in 1..Len(s) : s[i].do \in WordsOf(kind)
    /\ \A i \in 2..Len(s) : s[i].do \in Chained => s[i-1].do = Before(s[i].do)
    /\ Len(s) > 0 => s[Len(s)].do \notin Midway
    /\ kind \in LookKinds => Looking(kind, s)
    /\ kind = "keys" => \A i \in 1..Len(s) : s[i].do \in {"insert", "replace", "drop"} => i = Len(s)
    /\ kind = "key" => \A i \in 2..Len(s) : s[i].do = "account" => s[i-1].do = "grants"
    /\ Charges(s)

IsRest(r, s, n) ==
    /\ r \in Seq(Asks) /\ n \in 0..Len(s) /\ Len(r) = Len(s) - n
    /\ \A i \in 1..Len(r) : r[i] = s[n+i]

LEMMA PlanSets ==
    /\ Plans("key") = {Plain(<<"key", "grants">> \o Metered)}
    /\ \A l \in Team, right \in Rights :
            Questions(l, right) \o <<Ask("page", l, right)>> \in Plans("page")
    /\ Plans("record") = {Questions(l, "read") \o ListAll \o <<Ask("page", l, "read")>> : l \in Team}
    /\ Plans("exchange") = {Plain(<<"code", "consume", "mint">>)}
    /\ Plans("flush") = {Plain(<<"store">>)}
<1>1. Plans("key") = {Plain(<<"key", "grants">> \o Metered)}
    BY DEF Plans
<1>2. ASSUME NEW l \in Team, NEW right \in Rights
      PROVE  Questions(l, right) \o <<Ask("page", l, right)>> \in Plans("page")
    <2>1. PICK s : s = Questions(l, right) \o <<Ask("page", l, right)>>
        OBVIOUS
    <2>2. s \in {Questions(m, r) \o <<Ask("page", m, r)>> : m \in Team, r \in Rights}
        BY <2>1
    <2>3. s \in Plans("page")
        BY <2>2 DEF Plans
    <2> QED
        BY <2>1, <2>3, Zenon
<1>3. Plans("record") = {Questions(l, "read") \o ListAll \o <<Ask("page", l, "read")>> : l \in Team}
    BY DEF Plans
<1>4. Plans("exchange") = {Plain(<<"code", "consume", "mint">>)}
    BY DEF Plans
<1>5. Plans("flush") = {Plain(<<"store">>)}
    BY DEF Plans
<1> QED
    BY <1>1, <1>2, <1>3, <1>4, <1>5, Zenon

\* The step on a key's tables is the last.
LEMMA KeysEnd ==
    ASSUME NEW s \in Plans("keys")
    PROVE  \A i \in 1..Len(s) : s[i].do \in {"insert", "replace", "drop"} => i = Len(s)
<1>1. PICK A : A = <<"member", "count", "insert">>
    OBVIOUS
<1>2. PICK B : B = <<"count", "insert">>
    OBVIOUS
<1>3. PICK C : C = <<"owned", "delete", "replace">>
    OBVIOUS
<1>4. PICK D : D = <<"owned", "delete", "drop">>
    OBVIOUS
<1> DEFINE Ends(x) == \A i \in 1..Len(x) : x[i] \in {"insert", "replace", "drop"} => i = Len(x)
<1>5. A \in Seq(Steps) /\ Ends(A) /\ B \in Seq(Steps) /\ Ends(B)
    BY <1>1, <1>2 DEF Steps
<1>6. C \in Seq(Steps) /\ Ends(C) /\ D \in Seq(Steps) /\ Ends(D)
    BY <1>3, <1>4 DEF Steps
<1>7. Plans("keys") = {Plain(<<"member", "count", "insert">>), Plain(<<"count", "insert">>),
                       Plain(<<"owned", "delete", "replace">>),
                       Plain(<<"owned", "delete", "drop">>)}
    BY DEF Plans
<1>8. Plans("keys") = {Plain(A), Plain(B), Plain(C), Plain(D)}
    BY <1>1, <1>2, <1>3, <1>4, <1>7, Zenon
<1>9. PICK x \in Seq(Steps) : s = Plain(x) /\ Ends(x)
    BY <1>5, <1>6, <1>8
<1> QED
    BY <1>9, PlainSteps

\* A key's grants are read before the read is metered.
LEMMA KeyStarts ==
    ASSUME NEW s \in Plans("key")
    PROVE  Len(s) = 7 /\ \A i \in 1..7 : s[i].do = "account" => i = 3 /\ s[2].do = "grants"
<1>1. PICK K : K = KeyWords
    OBVIOUS
<1>2. K \in Seq(Steps) /\ Len(K) = 7 /\ K[2] = "grants" /\ \A i \in 1..7 : K[i] = "account" => i = 3
    BY <1>1 DEF KeyWords, Steps
<1>3. s = Plain(K)
    BY <1>1, KeyPlan, PlanSets
<1>4. Len(s) = 7 /\ \A i \in 1..7 : s[i].do = K[i]
    BY <1>2, <1>3, PlainSteps
<1> QED
    BY <1>2, <1>4

LEMMA PlanShape ==
    ASSUME NEW kind \in Kinds, NEW s \in Plans(kind)
    PROVE  /\ Shape(kind, s) /\ \A i \in 1..Len(s) : s[i].do \in Chained => i > 1
           /\ kind = "key" => s[1].do # "account"
<1>1. IsPlan(kind, s)
    BY AllPlans
<1>2. kind \in LookKinds => Looking(kind, s)
    BY LookPlans DEF LooksUp
<1>3. kind = "none" => s = <<>>
    BY DEF Plans
<1>4. Len(s) > 0 => kind # "none"
    BY <1>3
<1>5. \A i \in 2..Len(s) : i \in 1..Len(s)
    BY <1>1 DEF IsPlan
<1>6. kind = "keys" => \A i \in 1..Len(s) : s[i].do \in {"insert", "replace", "drop"} => i = Len(s)
    BY KeysEnd
<1>7. ASSUME kind = "key"
      PROVE  s[1].do # "account" /\ \A i \in 2..Len(s) : s[i].do = "account" => s[i-1].do = "grants"
    <2>1. Len(s) = 7 /\ \A i \in 1..7 : s[i].do = "account" => i = 3 /\ s[2].do = "grants"
        BY <1>7, KeyStarts
    <2>2. 3 - 1 = 2 /\ 1 \in 1..7 /\ \A i \in 2..7 : i \in 1..7
        OBVIOUS
    <2>3. \A i \in 2..7 : s[i].do = "account" => s[i-1].do = "grants"
        BY <2>1, <2>2
    <2> QED
        BY <2>1, <2>2, <2>3
<1> QED
    BY <1>1, <1>2, <1>4, <1>5, <1>6, <1>7 DEF IsPlan, InChain, Shape

LEMMA RestShape ==
    ASSUME NEW kind, NEW s, NEW r, NEW n, Shape(kind, s), IsRest(r, s, n)
    PROVE  Shape(kind, r) /\ (Len(r) > 0 => r[Len(r)] = s[Len(s)])
<1>1. s \in Seq(Asks) /\ Len(s) \in Nat /\ n \in 0..Len(s) /\ r \in Seq(Asks) /\ Len(r) = Len(s) - n
      /\ n \in Nat
    BY DEF Shape, IsRest
<1>2. \A i \in 1..Len(r) : n + i \in 1..Len(s) /\ r[i] = s[n+i] /\ (n + i = Len(s) <=> i = Len(r))
    BY <1>1 DEF IsRest
<1>3. \A i \in 1..Len(r) : r[i].do \in WordsOf(kind)
    BY <1>2 DEF Shape
<1>4. ASSUME NEW i \in 2..Len(r), r[i].do \in Chained
      PROVE  r[i-1].do = Before(r[i].do)
    <2>1. i \in 1..Len(r) /\ i - 1 \in 1..Len(r) /\ n + i \in 2..Len(s) /\ n + (i - 1) = (n + i) - 1
        BY <1>1
    <2>2. r[i] = s[n+i] /\ r[i-1] = s[(n+i)-1]
        BY <1>2, <2>1
    <2> QED
        BY <1>4, <2>1, <2>2 DEF Shape
<1>5. Len(r) > 0 => r[Len(r)] = s[Len(s)]
    BY <1>1, <1>2
<1>6. Len(r) > 0 => Len(s) > 0
    BY <1>1
<1>7. ASSUME kind \in LookKinds
      PROVE  Looking(kind, r)
    <2>1. \A i, j \in 1..Len(r) : i < j => n + i \in 1..Len(s) /\ n + j \in 1..Len(s) /\ n + i < n + j
        BY <1>1
    <2>2. InOrder(kind, r)
        BY <1>2, <1>7, <2>1 DEF Shape, Looking, InOrder
    <2> QED
        BY <1>2, <1>7, <2>2 DEF Shape, Looking
<1>8. kind = "keys" => \A i \in 1..Len(r) : r[i].do \in {"insert", "replace", "drop"} => i = Len(r)
    BY <1>2 DEF Shape
<1>9. ASSUME kind = "key", NEW i \in 2..Len(r), r[i].do = "account"
      PROVE  r[i-1].do = "grants"
    <2>1. i \in 1..Len(r) /\ i - 1 \in 1..Len(r) /\ n + i \in 2..Len(s) /\ n + (i - 1) = (n + i) - 1
        BY <1>1
    <2>2. r[i] = s[n+i] /\ r[i-1] = s[(n+i)-1]
        BY <1>2, <2>1
    <2> QED
        BY <1>9, <2>1, <2>2 DEF Shape
<1>10. Charges(r)
    <2>1. ASSUME NEW i \in 1..Len(r), r[i].do = "meter"
          PROVE  i < Len(r) /\ r[i+1].do = "buffer"
        <3>1. n + i < Len(s) /\ s[(n+i)+1].do = "buffer"
            BY <1>2, <2>1 DEF Shape, Charges
        <3>2. i + 1 \in 1..Len(r) /\ n + (i + 1) = (n + i) + 1
            BY <1>1, <3>1
        <3> QED
            BY <1>1, <1>2, <3>1, <3>2
    <2> QED
        BY <2>1 DEF Charges
<1> QED
    BY <1>1, <1>3, <1>4, <1>5, <1>6, <1>7, <1>8, <1>9, <1>10 DEF Shape

LEMMA TailIsRest ==
    ASSUME NEW s \in Seq(Asks), s # <<>>
    PROVE  IsRest(Tail(s), s, 1) /\ Head(s) = s[1] /\ Len(s) \in Nat \ {0}
BY DEF IsRest

\* Passing over steps, but never over the last.
LEMMA PastIsRest ==
    ASSUME NEW s \in Seq(Asks), Len(s) > 0, NEW skipped, Len(s) \notin skipped
    PROVE  \E n \in 0..Len(s) :
                /\ IsRest(Past(s, skipped), s, n) /\ n < Len(s)
                /\ n + 1 \notin skipped /\ \A i \in 1..n : i \in skipped
<1> DEFINE kept == DOMAIN s \ skipped
<1>1. DOMAIN s = 1..Len(s) /\ Len(s) \in Nat
    OBVIOUS
<1>2. Len(s) \in kept /\ kept \in SUBSET Nat /\ kept \subseteq 1..Len(s)
    BY <1>1
<1>3. PICK m \in kept : m = Min(kept) /\ \A y \in kept : m <= y
    <2> HIDE DEF kept
    <2> QED
        BY <1>2, NatMin
<1>4. m \in 1..Len(s) /\ m \notin skipped /\ \A i \in 1..Len(s) : i < m => i \in skipped
    <2>1. m \in 1..Len(s) /\ m \notin skipped
        BY <1>1, <1>3
    <2>2. ASSUME NEW i \in 1..Len(s), i < m, i \notin skipped
          PROVE  FALSE
        <3>1. i \in kept
            BY <1>1, <2>2
        <3>2. m <= i
            BY <1>3, <3>1
        <3> QED
            BY <1>1, <2>1, <2>2, <3>2
    <2> QED
        BY <2>1, <2>2
<1>5. Past(s, skipped) = SubSeq(s, m, Len(s))
    BY <1>3 DEF Past
<1>6. PICK r : r = SubSeq(s, m, Len(s))
    OBVIOUS
<1>7. r \in Seq(Asks) /\ Len(r) = Len(s) - (m - 1) /\ \A i \in 1..Len(r) : r[i] = s[(m - 1) + i]
    BY <1>1, <1>4, <1>6
<1>8. m - 1 \in 0..Len(s) /\ m - 1 < Len(s) /\ (m - 1) + 1 = m /\ \A i \in 1..(m - 1) : i \in 1..Len(s) /\ i < m
    BY <1>1, <1>4
<1>9. IsRest(Past(s, skipped), s, m - 1)
    BY <1>5, <1>6, <1>7, <1>8 DEF IsRest
<1> QED
    BY <1>4, <1>8, <1>9

-----------------------------------------------------------------------------
(* Types: what a request in any state is.                                  *)

Costs == {ReadUnits(n) : n \in Found}

First(t, what) == t.todo # <<>> /\ Head(t.todo).do = what

\* A request that waits to be metered has its cost from the read before.
Well(t) ==
    /\ t \in Task /\ Shape(t.kind, t.todo)
    /\ t.todo = <<>> => t = Idle
    /\ First(t, "meter") => t.cost \in Costs

TasksWell == task \in [Workers -> Task] /\ \A w \in Workers : Well(task[w])

Same(t, u) ==
    /\ u.kind = t.kind /\ u.key = t.key /\ u.code = t.code /\ u.grants = t.grants
    /\ u.alive = t.alive

\* The request goes on with some later step.
Moved(t, u) ==
    /\ Same(t, u) /\ u.todo # <<>>
    /\ \E n \in 1..Len(t.todo) : IsRest(u.todo, t.todo, n)
    /\ \A what \in Chained : First(u, what) => First(t, Before(what))
    /\ t.kind = "key" /\ First(u, "account") => First(t, "grants")

LEMMA CostsType == Costs \subseteq Nat \ {0} /\ Costs # {} /\ IsFiniteSet(Costs)
<1>1. Found \subseteq Nat /\ Found # {} /\ IsFiniteSet(Found)
    BY AccessAssumption
<1>2. ASSUME NEW n \in Nat
      PROVE  ReadUnits(n) \in Nat \ {0}
    <2>1. PICK d : d = (n + 9) \div 10
        OBVIOUS
    <2>2. d \in Nat
        BY <2>1
    <2>3. {1, d} \in SUBSET Nat /\ {1, d} # {}
        BY <2>2
    <2>4. Max({1, d}) \in {1, d} /\ Max({1, d}) >= 1
        <3>1. \E x \in {1, d} : \A y \in {1, d} : x >= y
            <4>1. CASE d >= 1
                BY <2>2, <4>1
            <4>2. CASE ~(d >= 1)
                BY <2>2, <4>2
            <4> QED
                BY <4>1, <4>2
        <3> QED
            BY <2>2, <3>1 DEF Max
    <2>5. ReadUnits(n) = Max({1, d})
        BY <2>1 DEF ReadUnits
    <2> QED
        BY <2>2, <2>4, <2>5
<1>3. Costs \subseteq Nat \ {0} /\ Costs # {}
    BY <1>1, <1>2 DEF Costs
<1>4. IsFiniteSet(Costs)
    <2>1. PICK f : f = [n \in Found |-> ReadUnits(n)]
        OBVIOUS
    <2>2. f \in [Found -> Costs] /\ \A c \in Costs : \E n \in Found : f[n] = c
        BY <2>1 DEF Costs
    <2>3. f \in Surjection(Found, Costs)
        BY <2>2 DEF Surjection
    <2> QED
        BY <1>1, <2>3, FS_Surjection
<1> QED
    BY <1>3, <1>4

LEMMA IdleIsWell == Well(Idle)
<1>1. OldCode \in Codes
    BY AccessAssumption
<1>2. NoGrants \in KeyGrants
    BY DEF NoGrants, KeyGrants
<1>3. <<>> \in Seq(Asks) /\ Len(<<>>) = 0
    OBVIOUS
<1>4. Idle \in Task
    BY <1>1, <1>2, <1>3 DEF Idle, Task, Accounts
<1>5. Idle.todo = <<>> /\ Idle.kind = "none"
    BY DEF Idle
<1>6. Shape("none", <<>>)
    BY <1>3 DEF Shape, LookKinds, Charges
<1> QED
    BY <1>4, <1>5, <1>6 DEF Well, First

LEMMA TaskFields ==
    ASSUME NEW t \in Task
    PROVE  /\ t.todo \in Seq(Asks) /\ Len(t.todo) \in Nat
           /\ t.todo # <<>> => Len(t.todo) > 0 /\ Head(t.todo) = t.todo[1] /\ Head(t.todo) \in Asks
                               /\ Tail(t.todo) \in Seq(Asks) /\ IsRest(Tail(t.todo), t.todo, 1)
<1>1. t.todo \in Seq(Asks)
    BY DEF Task
<1>2. PICK s \in Seq(Asks) : s = t.todo
    BY <1>1
<1>3. s # <<>> => Len(s) > 0 /\ Head(s) = s[1] /\ Head(s) \in Asks /\ Tail(s) \in Seq(Asks) /\ IsRest(Tail(s), s, 1)
    BY TailIsRest
<1> QED
    BY <1>2, <1>3

\* The step before the next one, and the last step, of a request under way.
LEMMA ShapeFacts ==
    ASSUME NEW t, Well(t), t.todo # <<>>
    PROVE  /\ Len(t.todo) > 0 /\ t.todo \in Seq(Asks) /\ Len(t.todo) \in Nat
           /\ Head(t.todo) = t.todo[1] /\ Head(t.todo) \in Asks
           /\ IsRest(Tail(t.todo), t.todo, 1)
           /\ Head(t.todo).do \in WordsOf(t.kind)
           /\ t.todo[Len(t.todo)].do \notin Midway
           /\ \A i \in 2..Len(t.todo) : t.todo[i].do \in Chained => t.todo[i-1].do = Before(t.todo[i].do)
           /\ t.kind = "key" => \A i \in 2..Len(t.todo) : t.todo[i].do = "account" => t.todo[i-1].do = "grants"
           /\ Charges(t.todo)
<1>1. t \in Task
    BY DEF Well
<1>2. /\ Len(t.todo) > 0 /\ t.todo \in Seq(Asks) /\ Len(t.todo) \in Nat
      /\ Head(t.todo) = t.todo[1] /\ Head(t.todo) \in Asks
      /\ IsRest(Tail(t.todo), t.todo, 1)
    BY <1>1, TaskFields
<1> QED
    BY <1>2 DEF Well, Shape

\* One step on.
LEMMA AdvanceMoves ==
    ASSUME NEW t, NEW u, Well(t), t.todo # <<>>, Same(t, u), u.todo = Tail(t.todo), u.todo # <<>>
    PROVE  Moved(t, u)
<1>1. /\ Len(t.todo) > 0 /\ t.todo \in Seq(Asks) /\ Len(t.todo) \in Nat
      /\ Head(t.todo) = t.todo[1] /\ IsRest(Tail(t.todo), t.todo, 1)
      /\ \A i \in 2..Len(t.todo) : t.todo[i].do \in Chained => t.todo[i-1].do = Before(t.todo[i].do)
      /\ t.kind = "key" => \A i \in 2..Len(t.todo) : t.todo[i].do = "account" => t.todo[i-1].do = "grants"
    BY ShapeFacts
<1>2. PICK r \in Seq(Asks) : r = Tail(t.todo)
    BY <1>1 DEF IsRest
<1>3. IsRest(r, t.todo, 1) /\ r # <<>>
    BY <1>1, <1>2
<1>4. Len(r) > 0 /\ Head(r) = r[1] /\ r[1] = t.todo[2] /\ 2 \in 2..Len(t.todo)
    BY <1>1, <1>3 DEF IsRest
<1>5. r[1].do \in Chained => Head(t.todo).do = Before(r[1].do)
    <2>1. 2 - 1 = 1
        OBVIOUS
    <2> QED
        BY <1>1, <1>4, <2>1
<1>6. \A what \in Chained : First(u, what) => First(t, Before(what))
    BY <1>2, <1>4, <1>5 DEF First
<1>7. \E n \in 1..Len(t.todo) : IsRest(u.todo, t.todo, n)
    BY <1>1
<1>8. t.kind = "key" /\ r[1].do = "account" => Head(t.todo).do = "grants"
    <2>1. 2 - 1 = 1
        OBVIOUS
    <2> QED
        BY <1>1, <1>4, <2>1
<1>9. t.kind = "key" /\ First(u, "account") => First(t, "grants")
    BY <1>2, <1>4, <1>8 DEF First
<1> QED
    BY <1>6, <1>7, <1>9 DEF Moved

LEMMA MovedIsWell ==
    ASSUME NEW t, NEW u, Well(t), Moved(t, u), u \in Task,
           First(u, "meter") => u.cost \in Costs
    PROVE  Well(u)
<1>1. PICK n \in 1..Len(t.todo) : IsRest(u.todo, t.todo, n)
    BY DEF Moved
<1>2. Shape(t.kind, t.todo) /\ u.kind = t.kind
    BY DEF Well, Moved, Same
<1>3. Shape(u.kind, u.todo)
    BY <1>1, <1>2, RestShape
<1> QED
    BY <1>3 DEF Well, Moved

LEMMA FreshIsWell ==
    ASSUME NEW u \in Task, u.kind \in Kinds, u.todo \in Plans(u.kind), u.kind # "none"
    PROVE  Well(u) /\ u.todo # <<>> /\ \A what \in Chained : ~First(u, what)
<1>1. IsPlan(u.kind, u.todo) /\ Shape(u.kind, u.todo)
    BY AllPlans, PlanShape
<1>2. Len(u.todo) > 0 /\ u.todo # <<>> /\ InChain(u.todo)
    BY <1>1 DEF IsPlan
<1>3. Head(u.todo) = u.todo[1] /\ Len(u.todo) \in Nat
    BY <1>2, TaskFields
<1>4. ~ (u.todo[1].do \in Chained)
    BY <1>2, <1>3 DEF InChain
<1>5. \A what \in Chained : ~First(u, what)
    BY <1>3, <1>4 DEF First
<1>6. "meter" \in Chained
    BY DEF Chained
<1> QED
    BY <1>1, <1>2, <1>5, <1>6 DEF Well

\* Questions passed over: what is left begins with one that was not.
LEMMA Passing ==
    ASSUME NEW t, Well(t), NEW s, NEW m \in Nat, IsRest(s, t.todo, m), s # <<>>, NEW settled,
           \A i \in 1..Len(s) : i \in settled => s[i].do \in Midway
    PROVE  \E n \in 0..Len(s) :
                /\ IsRest(Past(s, settled), t.todo, m + n) /\ Past(s, settled) # <<>>
                /\ n < Len(s) /\ \A i \in 1..n : i \in settled /\ s[i] = t.todo[m+i]
<1>1. s \in Seq(Asks) /\ Len(s) \in Nat /\ Len(s) > 0
    BY DEF IsRest
<1>2. Shape(t.kind, t.todo) /\ t.todo \in Seq(Asks) /\ Len(t.todo) \in Nat
    BY DEF Well, Shape
<1>3. s[Len(s)].do \notin Midway
    <2>1. Shape(t.kind, s)
        BY <1>2, RestShape
    <2> QED
        BY <1>1, <2>1 DEF Shape
<1>4. Len(s) \notin settled
    BY <1>1, <1>3
<1>5. PICK n \in 0..Len(s) :
        /\ IsRest(Past(s, settled), s, n) /\ n < Len(s)
        /\ n + 1 \notin settled /\ \A i \in 1..n : i \in settled
    BY <1>1, <1>4, PastIsRest
<1>6. PICK r : r = Past(s, settled)
    OBVIOUS
<1>7. /\ r \in Seq(Asks) /\ Len(r) = Len(s) - n /\ \A i \in 1..Len(r) : r[i] = s[n+i]
    BY <1>5, <1>6 DEF IsRest
<1>8. /\ m \in 0..Len(t.todo) /\ Len(s) = Len(t.todo) - m
      /\ \A i \in 1..Len(s) : s[i] = t.todo[m+i]
    BY DEF IsRest
<1>9. r # <<>>
    BY <1>1, <1>5, <1>7
<1>10. \A i \in 1..Len(r) : n + i \in 1..Len(s) /\ m + (n + i) = (m + n) + i
    BY <1>1, <1>5, <1>7
<1>11. IsRest(r, t.todo, m + n)
    BY <1>1, <1>2, <1>5, <1>7, <1>8, <1>10 DEF IsRest
<1>12. \A i \in 1..n : i \in settled /\ s[i] = t.todo[m+i]
    BY <1>1, <1>5, <1>8
<1> QED
    BY <1>5, <1>6, <1>9, <1>11, <1>12

\* After a question, or some, none of the chained steps.
LEMMA LookMoves ==
    ASSUME NEW t, NEW u, Well(t), Same(t, u), u.todo # <<>>, NEW n \in 1..Len(t.todo),
           IsRest(u.todo, t.todo, n), t.todo[n].do \in LookWords
    PROVE  Moved(t, u) /\ \A what \in Chained : ~First(u, what)
<1>1. t.todo \in Seq(Asks) /\ Len(t.todo) \in Nat /\ n \in Nat
    BY DEF Well, Shape
<1>2. PICK r \in Seq(Asks) : r = u.todo
    BY DEF IsRest
<1>3. Len(r) > 0 /\ Head(r) = r[1] /\ Len(r) = Len(t.todo) - n /\ r[1] = t.todo[n+1]
    BY <1>1, <1>2 DEF IsRest
<1>4. n + 1 \in 2..Len(t.todo) /\ (n + 1) - 1 = n
    BY <1>1, <1>3
<1>5. t.todo[n+1].do \in Chained => t.todo[n].do = Before(t.todo[n+1].do)
    BY <1>4 DEF Well, Shape
<1>6. \A what \in Chained : Before(what) \notin LookWords
    BY DEF Chained, Before, LookWords
<1>7. r[1].do \notin Chained
    BY <1>3, <1>5, <1>6
<1>8. \A what \in Chained : ~First(u, what)
    BY <1>2, <1>3, <1>7 DEF First
<1>9. t.kind # "key"
    <2>1. t.todo[n].do \in WordsOf(t.kind)
        BY DEF Well, Shape
    <2>2. WordsOf("key") \cap LookWords = {}
        BY DEF WordsOf, MeterWords, LookWords
    <2> QED
        BY <2>1, <2>2
<1> QED
    BY <1>8, <1>9 DEF Moved

-----------------------------------------------------------------------------
(* The steps of Next, seen from the worker that takes them.                *)

\* The tables have their types.
Tables ==
    /\ seat \in {"removed", "member", "admin"}
    /\ grant \in [Team -> {"none", "reader", "writer", "maintainer"}]
    /\ keys \subseteq Keys /\ IsFiniteSet(keys) /\ payer \in [Keys -> Accounts]
    /\ keyGrants \in [Keys -> KeyGrants] /\ wanted \in [Keys -> SUBSET Offers]
    /\ codes \in [Codes -> {"none", "issued", "consumed"}]
    /\ tokens \in [Codes -> Nat] /\ live \subseteq Codes
    /\ units \in [Accounts -> [1..MaxMonths -> Nat]]
    /\ buffer \in [Servers -> Nat] /\ hand \in [Servers -> Nat] /\ events \in Nat
    /\ month \in 1..MaxMonths

Still == UNCHANGED <<access, keyring, oauth, usage, crossed>>

\* These change the tables.
Changing == {"consume", "mint", "insert", "replace", "drop", "meter", "buffer", "store"}

\* These look no right up.
Blind == {"token", "key", "page", "account", "quota", "read", "member", "count", "owned", "delete",
          "code"}

\* Whatever the tables say to a question is found.
Dealt(q, have) ==
    /\ q.do = "granted" => \A l \in Team : grant[l] # "none" => <<l, "list">> \in have
    /\ q.do = "orgs" /\ Active(seat) => \A l \in Open : <<l, "list">> \in have
    /\ q.do \in QuestionWords /\ Yes(q) => <<q.lib, q.right>> \in have

\* A step that is done with: nothing more can come of it.
Passed(kind, q, have) ==
    \/ Dealt(q, have) \/ Settled(kind, q, have)
    \/ q.right = "list" /\ q.do \in QuestionWords /\ ~Active(seat)

\* A right found in the tables as they are.
Grounded(p) ==
    \E x \in HeldByUser(seat, grant) : x[2] = p[1] /\ x[3] = IF p[2] = "list" THEN "read" ELSE p[2]

Finds(w, u) ==
    /\ task[w].have \subseteq u.have /\ \A p \in u.have : p \in task[w].have \/ Grounded(p)
    /\ \E n \in 1..Len(task[w].todo) :
        /\ IsRest(u.todo, task[w].todo, n)
        /\ \A i \in 1..n : Passed(task[w].kind, task[w].todo[i], u.have)

FoundByKey(k) == {<<x[2], x[3]>> : x \in HeldByKey(keyGrants[k])}

\* What the step of a request under way leaves to the next.
Kept(w, u) ==
    LET t == task[w]
    IN  /\ Moved(t, u) /\ u.stale = t.stale /\ \A what \in Changing : ~At(w, what)
        /\ u.waits = IF At(w, "delete") THEN Holding(t.key, w) # {} ELSE t.waits
        /\ ~At(w, "account") => u.account = t.account
        /\ At(w, "account") => u.account \in Accounts
        /\ ~At(w, "read") => u.cost = t.cost
        /\ \A what \in Blind : At(w, what) => u.have = t.have
        /\ At(w, "key") \/ At(w, "owned") => t.key \in keys
        /\ At(w, "count") => Cardinality(keys) < KeyLimit
        /\ At(w, "quota") => units[t.account][month] < Limit
        /\ At(w, "grants") => u.have = FoundByKey(t.key)
        /\ t.kind \in LookKinds => Finds(w, u)

\* A request about a key names it, and the grants it is to have if it is made or edited.
Fit(t) ==
    t.kind = "keys" =>
        /\ t.key \in Keys
        /\ t.grants \in Offers \/ \A i \in 1..Len(t.todo) : t.todo[i].do \notin {"insert", "replace"}

\* What a request begins with.
Asked(u) ==
    /\ u.kind \in Kinds \ {"none"} /\ u.todo \in Plans(u.kind) /\ u.have = {} /\ ~u.waits /\ ~u.stale
    /\ u.kind = "key" => u.key \in Keys /\ wanted[u.key] # {} /\ u.alive = (u.key \in keys)
    /\ u.kind \notin {"key", "keys"} => u.key = NoKey
    /\ Fit(u)
    /\ u.kind = "keys" =>
        \/ u.key \notin keys /\ wanted[u.key] = {} /\ \A v \in Workers : task[v].key # u.key
        \/ u.todo[1].do = "owned" /\ \A i \in 1..Len(u.todo) : u.todo[i].do # "insert"

\* The steps that leave the tables alone.
Turn(w, u) ==
    /\ Still /\ task' = [task EXCEPT ![w] = u] /\ Well(u)
    /\ u = Idle \/ Kept(w, u) \/ (IsIdle(w) /\ Asked(u))

Counted == UNCHANGED count \/ Event \/ Trouble

LEMMA IdleIsEmpty ==
    ASSUME TasksWell, NEW w \in Workers
    PROVE  /\ task[w] \in Task /\ Well(task[w])
           /\ IsIdle(w) => task[w] = Idle
           /\ \A what : At(w, what) <=> First(task[w], what)
BY DEF TasksWell, Well, IsIdle, At, First

LEMMA GotoTakes ==
    ASSUME TasksWell, NEW w \in Workers, ~IsIdle(w), NEW t \in Task, Same(task[w], t),
           t.todo = task[w].todo, t.cost \in Costs \/ (~At(w, "read") /\ t.cost = task[w].cost),
           Goto(w, t)
    PROVE  /\ UNCHANGED count
           /\ \E u \in Task :
                /\ task' = [task EXCEPT ![w] = u] /\ Well(u)
                /\ \/ u = Idle
                   \/ /\ Moved(task[w], u) /\ u.have = t.have /\ u.waits = t.waits
                      /\ u.stale = t.stale /\ u.account = t.account /\ u.cost = t.cost
                      /\ u.todo = Tail(task[w].todo)
<1> DEFINE u == [t EXCEPT !.todo = Tail(@)]
<1>1. UNCHANGED count /\ task' = [task EXCEPT ![w] = IF u.todo = <<>> THEN Idle ELSE u]
    BY DEF Goto, Become
<1>2. Well(task[w]) /\ task[w].todo # <<>>
    BY DEF TasksWell, IsIdle
<1>3. t.todo # <<>> /\ t.todo \in Seq(Asks) /\ Tail(t.todo) \in Seq(Asks)
    BY <1>2, ShapeFacts DEF IsRest
<1>4. u.todo = Tail(t.todo)
    BY DEF Task
<1>5. CASE u.todo = <<>>
    BY <1>1, <1>5, IdleIsWell DEF Well
<1>6. CASE u.todo # <<>>
    <2>1. u \in Task /\ Same(task[w], u) /\ u.have = t.have /\ u.waits = t.waits
          /\ u.stale = t.stale /\ u.account = t.account /\ u.cost = t.cost
        BY <1>3 DEF Task, Same
    <2>2. u.todo = Tail(task[w].todo)
        BY <1>4
    <2> HIDE DEF u
    <2>3. Moved(task[w], u)
        BY <1>2, <1>6, <2>1, <2>2, AdvanceMoves
    <2>4. First(u, "meter") => u.cost \in Costs
        <3>1. "meter" \in Chained /\ Before("meter") = "read"
            BY DEF Chained, Before
        <3>2. First(u, "meter") => First(task[w], "read")
            BY <2>3, <3>1 DEF Moved
        <3> QED
            BY <2>1, <3>2 DEF First, At, IsIdle
    <2>5. Well(u)
        BY <1>2, <2>1, <2>3, <2>4, MovedIsWell
    <2> QED
        BY <1>1, <1>6, <2>1, <2>2, <2>3, <2>5
<1> QED
    BY <1>5, <1>6

LEMMA LearnTakes ==
    ASSUME TasksWell, NEW w \in Workers, NEW todo, NEW m \in Nat, m # 0,
           IsRest(todo, task[w].todo, m), todo # <<>>, task[w].todo[m].do \in LookWords,
           NEW have \in SUBSET ((Team \cup KeyLibraries) \X Targets), Learn(w, have, todo)
    PROVE  /\ UNCHANGED count
           /\ \E u \in Task, n \in Nat :
                /\ task' = [task EXCEPT ![w] = u] /\ Well(u) /\ Moved(task[w], u)
                /\ u.have = have /\ u.waits = task[w].waits /\ u.stale = task[w].stale
                /\ u.account = task[w].account /\ u.cost = task[w].cost
                /\ IsRest(u.todo, task[w].todo, m + n)
                /\ \A i \in 1..n : Settled(task[w].kind, task[w].todo[m+i], have)
<1>1. PICK t : t = task[w]
    OBVIOUS
<1>2. t \in Task /\ Well(t)
    BY <1>1, IdleIsEmpty
<1>3. PICK settled : settled = {i \in DOMAIN todo : Settled(t.kind, todo[i], have)}
    OBVIOUS
<1>4. todo \in Seq(Asks) /\ DOMAIN todo = 1..Len(todo) /\ Len(todo) \in Nat /\ Len(todo) > 0
    BY DEF IsRest
<1>5. \A i \in 1..Len(todo) : i \in settled => Settled(t.kind, todo[i], have) /\ todo[i].do \in Midway
    BY <1>3, <1>4 DEF Settled, Midway, LookWords
<1>6. PICK n \in 0..Len(todo) :
        /\ IsRest(Past(todo, settled), t.todo, m + n) /\ Past(todo, settled) # <<>>
        /\ n < Len(todo) /\ \A i \in 1..n : i \in settled /\ todo[i] = t.todo[m+i]
    BY <1>1, <1>2, <1>5, Passing
<1>7. PICK r : r = Past(todo, settled)
    OBVIOUS
<1>8. r \in Seq(Asks) /\ r # <<>> /\ IsRest(r, t.todo, m + n)
    BY <1>6, <1>7 DEF IsRest
<1> DEFINE u == [t EXCEPT !.have = have, !.todo = r]
<1>9. u.todo = r /\ u.have = have /\ Same(t, u) /\ u.waits = t.waits /\ u.stale = t.stale
      /\ u.account = t.account /\ u.cost = t.cost /\ u \in Task
    BY <1>2, <1>8 DEF Task, Same, Targets
<1>10. task' = [task EXCEPT ![w] = u] /\ UNCHANGED count
    <2>1. Become(w, [task[w] EXCEPT !.have = have, !.todo = Past(todo, {i \in DOMAIN todo : Settled(task[w].kind, todo[i], have)})])
        BY DEF Learn
    <2>2. Become(w, u)
        BY <1>1, <1>3, <1>7, <2>1
    <2> QED
        BY <1>8, <1>9, <2>2 DEF Become
<1> HIDE DEF u
<1>11. t.todo[m+n].do \in LookWords /\ m + n \in 1..Len(t.todo)
    <2>1. CASE n = 0
        BY <1>1, <1>8, <2>1 DEF IsRest
    <2>2. CASE n # 0
        <3>1. n \in 1..n /\ n \in 1..Len(todo)
            BY <1>6, <2>2
        <3>2. Settled(t.kind, todo[n], have) /\ todo[n] = t.todo[m+n]
            BY <1>5, <1>6, <3>1
        <3> QED
            BY <1>8, <3>1, <3>2 DEF IsRest, Settled, LookWords
    <2> QED
        BY <2>1, <2>2
<1>12. Moved(t, u) /\ \A what \in Chained : ~First(u, what)
    BY <1>2, <1>8, <1>9, <1>11, LookMoves
<1>13. Well(u)
    <2>1. "meter" \in Chained
        BY DEF Chained
    <2> QED
        BY <1>2, <1>9, <1>12, <2>1, MovedIsWell
<1>14. \A i \in 1..n : Settled(t.kind, t.todo[m+i], have)
    <2>1. \A i \in 1..n : i \in 1..Len(todo)
        BY <1>4, <1>6
    <2> QED
        BY <1>5, <1>6, <2>1
<1>15. n \in Nat /\ u \in Task
    BY <1>4, <1>6, <1>9
<1>16. /\ task' = [task EXCEPT ![w] = u] /\ Well(u) /\ Moved(task[w], u)
       /\ u.have = have /\ u.waits = task[w].waits /\ u.stale = task[w].stale
       /\ u.account = task[w].account /\ u.cost = task[w].cost
       /\ IsRest(u.todo, task[w].todo, m + n)
       /\ \A i \in 1..n : Settled(task[w].kind, task[w].todo[m+i], have)
    BY <1>1, <1>8, <1>9, <1>10, <1>12, <1>13, <1>14
<1> QED
    BY <1>10, <1>15, <1>16, Zenon

\* A request's first question, or first step of another sort.
LEMMA HeadOf ==
    ASSUME TasksWell, NEW w \in Workers, ~IsIdle(w)
    PROVE  /\ IsRest(Tail(task[w].todo), task[w].todo, 1) /\ task[w].todo[1] = Head(task[w].todo)
           /\ Head(task[w].todo) \in Asks /\ 1 \in Nat /\ 1 # 0
           /\ Head(task[w].todo).do \in Midway => Tail(task[w].todo) # <<>>
<1>1. Well(task[w]) /\ task[w].todo # <<>>
    BY IdleIsEmpty DEF IsIdle
<1>2. PICK s \in Seq(Asks) : s = task[w].todo
    BY <1>1, ShapeFacts
<1>3. /\ Len(s) > 0 /\ Len(s) \in Nat /\ Head(s) = s[1] /\ IsRest(Tail(s), s, 1) /\ Head(s) \in Asks
      /\ s[Len(s)].do \notin Midway
    BY <1>1, <1>2, ShapeFacts
<1>4. Head(s).do \in Midway => Len(s) > 1
    BY <1>3
<1>5. Len(s) > 1 => Tail(s) # <<>>
    <2>1. PICK r : r = Tail(s)
        OBVIOUS
    <2>2. r \in Seq(Asks) /\ Len(r) = Len(s) - 1
        BY <1>3, <2>1 DEF IsRest
    <2>3. Len(s) > 1 => r # <<>>
        BY <1>3, <2>2
    <2> QED
        BY <2>1, <2>3
<1> QED
    BY <1>2, <1>3, <1>4, <1>5

LEMMA LearnTurns ==
    ASSUME TasksWell, NEW w \in Workers, ~IsIdle(w), Head(task[w].todo).do \in LookWords \ {"token"},
           NEW todo, NEW m \in Nat, m # 0,
           IsRest(todo, task[w].todo, m), todo # <<>>, task[w].todo[m].do \in LookWords,
           NEW have \in SUBSET ((Team \cup KeyLibraries) \X Targets), Learn(w, have, todo), Still,
           task[w].have \subseteq have, \A p \in have : p \in task[w].have \/ Grounded(p),
           \A i \in 1..m : Passed(task[w].kind, task[w].todo[i], have)
    PROVE  UNCHANGED count /\ \E u \in Task : Turn(w, u)
<1>1. /\ UNCHANGED count
      /\ \E u \in Task, n \in Nat :
            /\ task' = [task EXCEPT ![w] = u] /\ Well(u) /\ Moved(task[w], u)
            /\ u.have = have /\ u.waits = task[w].waits /\ u.stale = task[w].stale
            /\ u.account = task[w].account /\ u.cost = task[w].cost
            /\ IsRest(u.todo, task[w].todo, m + n)
            /\ \A i \in 1..n : Settled(task[w].kind, task[w].todo[m+i], have)
    BY LearnTakes
<1>2. PICK u \in Task, n \in Nat :
        /\ task' = [task EXCEPT ![w] = u] /\ Well(u) /\ Moved(task[w], u)
        /\ u.have = have /\ u.waits = task[w].waits /\ u.stale = task[w].stale
        /\ u.account = task[w].account /\ u.cost = task[w].cost
        /\ IsRest(u.todo, task[w].todo, m + n)
        /\ \A i \in 1..n : Settled(task[w].kind, task[w].todo[m+i], have)
    BY <1>1
<1>3. \A what : At(w, what) => what \in LookWords \ {"token"}
    BY DEF At
<1>5. m + n \in 1..Len(task[w].todo)
    <2>1. Len(task[w].todo) \in Nat
        BY IdleIsEmpty, TaskFields
    <2> QED
        BY <1>2, <2>1 DEF IsRest
<1>6. ASSUME NEW i \in 1..(m + n)
      PROVE  Passed(task[w].kind, task[w].todo[i], have)
    <2>1. CASE i \in 1..m
        BY <2>1
    <2>2. CASE i \notin 1..m
        <3>1. i - m \in 1..n /\ m + (i - m) = i
            BY <1>2, <2>2
        <3>2. Settled(task[w].kind, task[w].todo[m+(i - m)], have)
            BY <1>2, <3>1, Zenon
        <3>3. Settled(task[w].kind, task[w].todo[i], have)
            BY <3>1, <3>2
        <3> QED
            BY <3>3, Zenon DEF Passed
    <2> QED
        BY <2>1, <2>2
<1>7. Finds(w, u)
    BY <1>2, <1>5, <1>6 DEF Finds
<1>4. Kept(w, u)
    BY <1>2, <1>3, <1>7 DEF Kept, Changing, LookWords, Blind
<1> QED
    BY <1>1, <1>2, <1>4 DEF Turn

LEMMA RolesAllow ==
    ASSUME NEW role \in {"none", "reader", "writer", "maintainer"}
    PROVE  /\ role # "none" <=> Allows(role, "read")
           /\ \A right \in Targets : Allows(role, right) => Allows(role, "read") /\ role # "none"
           /\ Allows(role, "list") <=> Allows(role, "read")
BY DEF Allows, Targets, Rights

LEMMA ListGrantedTurns ==
    ASSUME TasksWell, Tables, NEW w \in Workers, ListGranted(w)
    PROVE  UNCHANGED count /\ \E u \in Task : Turn(w, u)
<1>m. PICK m \in Nat : m = 1
    OBVIOUS
<1>n. m \in Nat /\ m # 0 /\ \A i \in 1..m : i = 1
    BY <1>m
<1>1. PICK have : have = task[w].have \cup ({l \in Team : grant[l] # "none"} \X {"list"})
    OBVIOUS
<1>2. have \in SUBSET ((Team \cup KeyLibraries) \X Targets) /\ task[w].have \subseteq have
    BY <1>1, IdleIsEmpty DEF Task, Targets
<1>3. ~IsIdle(w) /\ Head(task[w].todo).do = "granted" /\ "granted" \in LookWords \ {"token"}
    BY DEF ListGranted, At, LookWords
<1>4. /\ IsRest(Tail(task[w].todo), task[w].todo, m) /\ Tail(task[w].todo) # <<>>
      /\ task[w].todo[m].do \in LookWords /\ task[w].todo[1].do = "granted"
    BY <1>m, <1>3, HeadOf DEF Midway
<1>5. Learn(w, have, Tail(task[w].todo)) /\ Still
    BY <1>1 DEF ListGranted, Still
<1>6. ASSUME NEW p \in have, p \notin task[w].have
      PROVE  Grounded(p)
    <2>1. PICK l \in Team : grant[l] # "none" /\ p = <<l, "list">>
        BY <1>1, <1>6
    <2>2. Allows(grant[l], "read")
        BY <2>1, RolesAllow DEF Tables
    <2>3. <<"grant", l, "read">> \in HeldByUser(seat, grant)
        BY <2>2 DEF HeldByUser, Rights
    <2> QED
        BY <2>1, <2>3 DEF Grounded
<1>7. Dealt(task[w].todo[1], have)
    BY <1>1, <1>4 DEF Dealt, QuestionWords
<1>8. \A i \in 1..m : Passed(task[w].kind, task[w].todo[i], have)
    BY <1>n, <1>7 DEF Passed
<1>9. \A p \in have : p \in task[w].have \/ Grounded(p)
    BY <1>6
<1> QED
    BY <1>n, <1>2, <1>3, <1>4, <1>5, <1>8, <1>9, LearnTurns

\* Only look-ups look up.
LEMMA LookersLook ==
    ASSUME NEW t, Well(t), t.todo # <<>>, Head(t.todo).do \in {"granted", "orgs", "role", "admin", "seat", "page"}
    PROVE  /\ t.kind \in LookKinds /\ Looking(t.kind, t.todo)
           /\ \A i \in 1..Len(t.todo) : t.todo[i].right = "list" => t.todo[i].do \in QuestionWords
<1>1. Head(t.todo).do \in WordsOf(t.kind)
    BY ShapeFacts
<1>2. t.kind \in LookKinds
    <2>1. t.kind \in {"none", "key", "token", "listing", "page", "record", "keys", "exchange", "flush"}
        BY DEF Well, Task
    <2>2. t.kind \in {"none", "key", "keys", "exchange", "flush"} => Head(t.todo).do \notin WordsOf(t.kind)
        BY DEF WordsOf, MeterWords
    <2> QED
        BY <1>1, <2>1, <2>2 DEF LookKinds
<1>3. Looking(t.kind, t.todo)
    BY <1>2 DEF Well, Shape
<1> QED
    BY <1>2, <1>3 DEF Looking, WellAsked

LEMMA OrgsPassed ==
    ASSUME NEW t, Well(t), t.todo # <<>>, Head(t.todo).do = "orgs",
           NEW m \in Nat, t.todo[m].do \in LookWords, NEW s, IsRest(s, t.todo, m), s # <<>>,
           NEW skipped, \A i \in 1..Len(s) : i \in skipped => s[i].right = "list"
    PROVE  \E n \in Nat :
                /\ IsRest(Past(s, skipped), t.todo, m + n) /\ Past(s, skipped) # <<>>
                /\ t.todo[m+n].do \in LookWords
                /\ \A i \in 1..n : t.todo[m+i].right = "list" /\ t.todo[m+i].do \in QuestionWords
<1>1. /\ t.todo \in Seq(Asks) /\ Len(t.todo) \in Nat /\ Head(t.todo) = t.todo[1]
      /\ t.todo[Len(t.todo)].do \notin Midway /\ Len(t.todo) > 0
    BY ShapeFacts
<1>2. s \in Seq(Asks) /\ Len(s) \in Nat /\ Len(s) = Len(t.todo) - m
      /\ \A i \in 1..Len(s) : s[i] = t.todo[m+i] /\ m + i \in 1..Len(t.todo)
    BY <1>1 DEF IsRest
<1>4. \A i \in 1..Len(t.todo) : t.todo[i].right = "list" => t.todo[i].do \in QuestionWords
    BY LookersLook
<1>5. \A i \in 1..Len(s) : i \in skipped => s[i].right = "list" /\ s[i].do \in QuestionWords
    BY <1>2, <1>4
<1>6. \A i \in 1..Len(s) : i \in skipped => s[i].do \in Midway
    BY <1>5 DEF Midway, LookWords, QuestionWords
<1>7. PICK n \in 0..Len(s) :
        /\ IsRest(Past(s, skipped), t.todo, m + n) /\ Past(s, skipped) # <<>>
        /\ n < Len(s) /\ \A i \in 1..n : i \in skipped /\ s[i] = t.todo[m+i]
    BY <1>6, Passing
<1>8. n \in Nat /\ \A i \in 1..n : i \in 1..Len(s)
    BY <1>2, <1>7
<1>9. \A i \in 1..n : t.todo[m+i].right = "list" /\ t.todo[m+i].do \in QuestionWords
    BY <1>5, <1>7, <1>8
<1>10. t.todo[m+n].do \in LookWords
    <2>1. CASE n = 0
        <3>1. m + n = m
            BY <2>1
        <3> QED
            BY <3>1
    <2>2. CASE n # 0
        <3>1. n \in 1..n
            BY <1>8, <2>2
        <3> QED
            BY <1>9, <3>1 DEF QuestionWords, LookWords
    <2> QED
        BY <2>1, <2>2
<1> QED
    BY <1>7, <1>8, <1>9, <1>10

LEMMA ListOrgsTurns ==
    ASSUME TasksWell, Tables, NEW w \in Workers, ListOrgs(w)
    PROVE  UNCHANGED count /\ \E u \in Task : Turn(w, u)
<1>m. PICK m \in Nat : m = 1
    OBVIOUS
<1>n. m \in Nat /\ m # 0 /\ \A i \in 1..m : i = 1
    BY <1>m
<1>1. ~IsIdle(w) /\ Head(task[w].todo).do = "orgs" /\ "orgs" \in LookWords \ {"token"}
    BY DEF ListOrgs, At, LookWords
<1>2. /\ IsRest(Tail(task[w].todo), task[w].todo, m) /\ Tail(task[w].todo) # <<>>
      /\ task[w].todo[m].do \in LookWords /\ task[w].todo[1].do = "orgs"
    BY <1>m, <1>1, HeadOf DEF Midway
<1>3. Still
    BY DEF ListOrgs, Still
<1>4. task[w] \in Task /\ Well(task[w]) /\ task[w].todo # <<>>
    BY <1>1, IdleIsEmpty DEF IsIdle
<1>5. CASE Active(seat)
    <2>1. PICK have : have = task[w].have \cup (Open \X {"list"})
        OBVIOUS
    <2>2. have \in SUBSET ((Team \cup KeyLibraries) \X Targets) /\ task[w].have \subseteq have
        BY <1>4, <2>1 DEF Task, Targets, Team
    <2>3. Learn(w, have, Tail(task[w].todo))
        BY <1>5, <2>1 DEF ListOrgs
    <2>4. ASSUME NEW p \in have, p \notin task[w].have
          PROVE  Grounded(p)
        <3>1. PICK l \in Open : p = <<l, "list">>
            BY <2>1, <2>4
        <3>2. <<"seat", l, "read">> \in HeldByUser(seat, grant)
            BY <1>5 DEF HeldByUser, Rights, Active, Team
        <3> QED
            BY <3>1, <3>2 DEF Grounded
    <2>5. Dealt(task[w].todo[1], have)
        BY <1>2, <2>1 DEF Dealt, QuestionWords
    <2>6. \A i \in 1..m : Passed(task[w].kind, task[w].todo[i], have)
        BY <1>n, <2>5 DEF Passed
    <2>7. \A p \in have : p \in task[w].have \/ Grounded(p)
        BY <2>4
    <2> QED
        BY <1>n, <1>1, <1>2, <1>3, <2>2, <2>3, <2>6, <2>7, LearnTurns
<1>6. CASE ~Active(seat)
    <2>1. PICK s : s = Tail(task[w].todo)
        OBVIOUS
    <2>2. PICK skipped : skipped = {i \in DOMAIN s : s[i].right = "list"}
        OBVIOUS
    <2>3. PICK todo : todo = Past(s, skipped)
        OBVIOUS
    <2>4. IsRest(s, task[w].todo, m) /\ \A i \in 1..Len(s) : i \in skipped => s[i].right = "list"
        BY <1>2, <2>1, <2>2
    <2>5. PICK n \in Nat :
            /\ IsRest(todo, task[w].todo, m + n) /\ todo # <<>> /\ task[w].todo[m+n].do \in LookWords
            /\ \A i \in 1..n : task[w].todo[m+i].right = "list" /\ task[w].todo[m+i].do \in QuestionWords
        <3>1. PICK t : t = task[w]
            OBVIOUS
        <3>2. Well(t) /\ t.todo # <<>> /\ Head(t.todo).do = "orgs" /\ m \in Nat /\ IsRest(s, t.todo, m)
              /\ t.todo[m].do \in LookWords /\ s # <<>>
            BY <1>1, <1>2, <1>4, <2>1, <2>4, <3>1
        <3>3. \E n \in Nat :
                /\ IsRest(Past(s, skipped), t.todo, m + n) /\ Past(s, skipped) # <<>>
                /\ t.todo[m+n].do \in LookWords
                /\ \A i \in 1..n : t.todo[m+i].right = "list" /\ t.todo[m+i].do \in QuestionWords
            BY <2>4, <3>2, OrgsPassed
        <3> QED
            BY <2>3, <3>1, <3>3
    <2>6. m + n \in Nat /\ m + n # 0
        BY <1>m
    <2>7. Learn(w, task[w].have, todo)
        BY <1>6, <2>1, <2>2, <2>3 DEF ListOrgs
    <2>8. task[w].have \in SUBSET ((Team \cup KeyLibraries) \X Targets)
        BY <1>4 DEF Task, Targets
    <2>9. Dealt(task[w].todo[1], task[w].have)
        BY <1>2, <1>6 DEF Dealt, QuestionWords
    <2>10. ASSUME NEW i \in 1..(m + n)
           PROVE  Passed(task[w].kind, task[w].todo[i], task[w].have)
        <3>1. CASE i = 1
            BY <2>9, <3>1 DEF Passed
        <3>2. CASE i # 1
            <4>1. i - m \in 1..n /\ m + (i - m) = i
                BY <1>m, <2>5, <3>2
            <4>2. task[w].todo[m+(i - m)].right = "list" /\ task[w].todo[m+(i - m)].do \in QuestionWords
                BY <2>5, <4>1, Zenon
            <4>3. task[w].todo[i].right = "list" /\ task[w].todo[i].do \in QuestionWords
                BY <4>1, <4>2
            <4> QED
                BY <1>6, <4>3, Zenon DEF Passed
        <3> QED
            BY <3>1, <3>2
    <2> QED
        BY <1>1, <1>3, <2>5, <2>6, <2>7, <2>8, <2>10, LearnTurns
<1> QED
    BY <1>5, <1>6

LEMMA AnswerTurns ==
    ASSUME TasksWell, Tables, NEW w \in Workers, Answer(w)
    PROVE  UNCHANGED count /\ \E u \in Task : Turn(w, u)
<1>m. PICK m \in Nat : m = 1
    OBVIOUS
<1>n. m \in Nat /\ m # 0 /\ \A i \in 1..m : i = 1
    BY <1>m
<1>1. ~IsIdle(w) /\ Head(task[w].todo).do \in QuestionWords
    BY DEF Answer, At, QuestionWords
<1>2. Head(task[w].todo).do \in LookWords \ {"token"}
    BY <1>1 DEF QuestionWords, LookWords
<1>3. /\ IsRest(Tail(task[w].todo), task[w].todo, m) /\ Tail(task[w].todo) # <<>>
      /\ task[w].todo[m].do \in LookWords /\ task[w].todo[1] = Head(task[w].todo)
    BY <1>m, <1>1, <1>2, HeadOf DEF Midway
<1>4. Still
    BY DEF Answer, Still
<1>5. task[w] \in Task /\ Well(task[w]) /\ task[w].todo # <<>>
    BY <1>1, IdleIsEmpty DEF IsIdle
<1>6. PICK q : q = Head(task[w].todo)
    OBVIOUS
<1>7. q.lib \in Team /\ q.right \in Targets /\ (q.do = "seat" => q.right = "read")
    <2>1. Looking(task[w].kind, task[w].todo) /\ Len(task[w].todo) > 0 /\ Len(task[w].todo) \in Nat
        BY <1>1, <1>5, LookersLook, ShapeFacts DEF QuestionWords
    <2>2. WellAsked(task[w].todo[1])
        BY <2>1 DEF Looking
    <2> QED
        BY <1>1, <1>3, <1>6, <2>2 DEF WellAsked
<1>8. PICK have : have = task[w].have \cup (IF Yes(q) THEN {<<q.lib, q.right>>} ELSE {})
    OBVIOUS
<1>9. have \in SUBSET ((Team \cup KeyLibraries) \X Targets) /\ task[w].have \subseteq have
    BY <1>5, <1>7, <1>8 DEF Task, Targets
<1>10. Learn(w, have, Tail(task[w].todo))
    BY <1>6, <1>8 DEF Answer
<1>11. ASSUME NEW p \in have, p \notin task[w].have
       PROVE  Grounded(p)
    <2>1. Yes(q) /\ p = <<q.lib, q.right>>
        BY <1>8, <1>11
    <2>2. PICK right \in Rights : right = IF q.right = "list" THEN "read" ELSE q.right
        BY <1>7 DEF Targets, Rights
    <2>3. CASE q.do = "role"
        <3>1. Allows(grant[q.lib], q.right)
            BY <2>1, <2>3 DEF Yes
        <3>2. grant[q.lib] \in {"none", "reader", "writer", "maintainer"}
            BY <1>7 DEF Tables
        <3>3. Allows(grant[q.lib], right)
            BY <1>7, <2>2, <3>1, <3>2, RolesAllow
        <3>4. <<"grant", q.lib, right>> \in HeldByUser(seat, grant)
            BY <1>7, <3>3 DEF HeldByUser
        <3> QED
            BY <2>1, <2>2, <3>4 DEF Grounded
    <2>4. CASE q.do = "admin"
        <3>1. seat = "admin"
            BY <2>1, <2>4 DEF Yes
        <3>2. <<"admin", q.lib, right>> \in HeldByUser(seat, grant)
            BY <1>7, <3>1 DEF HeldByUser
        <3> QED
            BY <2>1, <2>2, <3>2 DEF Grounded
    <2>5. CASE q.do = "seat"
        <3>1. Active(seat) /\ q.lib \in Open
            BY <2>1, <2>5 DEF Yes
        <3>2. right = "read"
            BY <1>7, <2>2, <2>5
        <3>3. <<"seat", q.lib, right>> \in HeldByUser(seat, grant)
            BY <1>7, <3>1, <3>2 DEF HeldByUser, Active
        <3> QED
            BY <2>1, <2>2, <3>3 DEF Grounded
    <2> QED
        BY <2>1, <2>3, <2>4, <2>5 DEF Yes
<1>12. \A p \in have : p \in task[w].have \/ Grounded(p)
    BY <1>11
<1>13. Dealt(q, have)
    BY <1>1, <1>6, <1>8 DEF Dealt, QuestionWords
<1>14. \A i \in 1..m : Passed(task[w].kind, task[w].todo[i], have)
    BY <1>n, <1>3, <1>6, <1>13 DEF Passed
<1> QED
    BY <1>n, <1>1, <1>2, <1>3, <1>4, <1>9, <1>10, <1>12, <1>14, LearnTurns

LEMMA FailTurns ==
    ASSUME NEW w \in Workers, Fail(w), Still
    PROVE  UNCHANGED count /\ \E u \in Task : Turn(w, u)
<1>1. Idle.todo = <<>> /\ Idle \in Task /\ Well(Idle)
    BY IdleIsWell DEF Idle, Well
<1>2. UNCHANGED count /\ task' = [task EXCEPT ![w] = Idle]
    BY <1>1 DEF Fail, Become
<1>3. Turn(w, Idle)
    BY <1>1, <1>2 DEF Turn
<1> QED
    BY <1>1, <1>2, <1>3

\* What a step needs to know before it goes on.
Passable(w, t) ==
    /\ Same(task[w], t) /\ t.todo = task[w].todo /\ t.stale = task[w].stale
    /\ t.waits = IF At(w, "delete") THEN Holding(task[w].key, w) # {} ELSE task[w].waits
    /\ ~At(w, "account") => t.account = task[w].account
    /\ IF At(w, "read") THEN t.cost \in Costs ELSE t.cost = task[w].cost
    /\ \A what \in Blind : At(w, what) => t.have = task[w].have
    /\ At(w, "key") \/ At(w, "owned") => task[w].key \in keys
    /\ At(w, "count") => Cardinality(keys) < KeyLimit
    /\ At(w, "quota") => units[task[w].account][month] < Limit
    /\ At(w, "grants") => t.have = FoundByKey(task[w].key)

LEMMA GotoTurns ==
    ASSUME TasksWell, NEW w \in Workers, ~IsIdle(w), Head(task[w].todo).do \in Blind \cup {"grants"},
           NEW t \in Task, Passable(w, t), Goto(w, t), Still
    PROVE  UNCHANGED count /\ \E u \in Task : Turn(w, u)
<1>1. /\ Same(task[w], t) /\ t.todo = task[w].todo
      /\ t.cost \in Costs \/ (~At(w, "read") /\ t.cost = task[w].cost)
    BY DEF Passable
<1>2. PICK u \in Task :
        /\ task' = [task EXCEPT ![w] = u] /\ Well(u)
        /\ \/ u = Idle
           \/ /\ Moved(task[w], u) /\ u.have = t.have /\ u.waits = t.waits
              /\ u.stale = t.stale /\ u.account = t.account /\ u.cost = t.cost
              /\ u.todo = Tail(task[w].todo)
    BY <1>1, GotoTakes
<1>3. UNCHANGED count
    BY <1>1, GotoTakes
<1>4. \A what \in Changing : ~At(w, what)
    BY DEF At, Blind, Changing
<1>w. Well(task[w]) /\ task[w].todo # <<>>
    BY IdleIsEmpty DEF IsIdle
<1>5. ASSUME u # Idle
      PROVE  Kept(w, u)
    <2>1. /\ Moved(task[w], u) /\ u.have = t.have /\ u.waits = t.waits
          /\ u.stale = t.stale /\ u.account = t.account /\ u.cost = t.cost
          /\ u.todo = Tail(task[w].todo)
        BY <1>2, <1>5
    <2>2. u.account \in Accounts
        BY DEF Task
    <2>3. /\ u.stale = task[w].stale
          /\ u.waits = IF At(w, "delete") THEN Holding(task[w].key, w) # {} ELSE task[w].waits
          /\ ~At(w, "account") => u.account = task[w].account
          /\ ~At(w, "read") => u.cost = task[w].cost
        BY <2>1, Zenon DEF Passable
    <2>4. /\ \A what \in Blind : At(w, what) => u.have = task[w].have
          /\ At(w, "key") \/ At(w, "owned") => task[w].key \in keys
          /\ At(w, "count") => Cardinality(keys) < KeyLimit
          /\ At(w, "quota") => units[task[w].account][month] < Limit
          /\ At(w, "grants") => u.have = FoundByKey(task[w].key)
        BY <2>1, Zenon DEF Passable
    <2>5. ASSUME task[w].kind \in LookKinds
          PROVE  Finds(w, u)
        <3>1. /\ Len(task[w].todo) > 0 /\ Len(task[w].todo) \in Nat /\ Head(task[w].todo) = task[w].todo[1]
              /\ IsRest(Tail(task[w].todo), task[w].todo, 1)
              /\ Head(task[w].todo).do \in WordsOf(task[w].kind)
            BY <1>w, ShapeFacts
        <3>2. Head(task[w].todo).do \in Blind
            <4>1. "grants" \notin WordsOf(task[w].kind)
                BY <2>5 DEF LookKinds, WordsOf, LookWords, MeterWords
            <4> QED
                BY <3>1, <4>1
        <3>3. u.have = task[w].have
            <4>1. At(w, Head(task[w].todo).do)
                BY DEF At
            <4> QED
                BY <2>4, <3>2, <4>1
        <3>4. Dealt(task[w].todo[1], u.have)
            BY <3>1, <3>2 DEF Dealt, Blind, QuestionWords
        <3>5. Passed(task[w].kind, task[w].todo[1], u.have)
            BY <3>4, Zenon DEF Passed
        <3>6. 1 \in 1..Len(task[w].todo) /\ \A i \in 1..1 : i = 1
            BY <3>1
        <3>7. IsRest(u.todo, task[w].todo, 1) /\ \A i \in 1..1 : Passed(task[w].kind, task[w].todo[i], u.have)
            BY <2>1, <3>1, <3>5, <3>6
        <3> QED
            BY <3>3, <3>6, <3>7 DEF Finds
    <2> QED
        BY <1>4, <2>1, <2>2, <2>3, <2>4, <2>5, Zenon DEF Kept
<1>6. Turn(w, u)
    BY <1>2, <1>5 DEF Turn
<1> QED
    BY <1>3, <1>6

\* Steps that only go on, if their condition holds.
LEMMA AdvanceTurns ==
    ASSUME TasksWell, NEW w \in Workers, ~IsIdle(w), Advance(w), Still,
           Head(task[w].todo).do \in Blind \ {"delete", "read"},
           At(w, "key") \/ At(w, "owned") => task[w].key \in keys,
           At(w, "count") => Cardinality(keys) < KeyLimit,
           At(w, "quota") => units[task[w].account][month] < Limit
    PROVE  UNCHANGED count /\ \E u \in Task : Turn(w, u)
<1>1. ~At(w, "delete") /\ ~At(w, "read") /\ ~At(w, "grants")
    BY DEF At, Blind
<1>2. Passable(w, task[w])
    BY <1>1 DEF Passable, Same
<1>3. task[w] \in Task /\ Goto(w, task[w])
    BY IdleIsEmpty DEF Advance
<1> QED
    BY <1>2, <1>3, GotoTurns

LEMMA StartTurns ==
    ASSUME TasksWell, NEW w \in Workers, NEW t \in Task, Asked(t), Start(w, t), Still
    PROVE  Event /\ \E u \in Task : Turn(w, u)
<1>1. IsIdle(w) /\ task' = [task EXCEPT ![w] = t] /\ Event
    BY DEF Start
<1>2. Well(t)
    BY FreshIsWell DEF Asked
<1> QED
    BY <1>1, <1>2 DEF Turn

LEMMA CreatePlan ==
    ASSUME NEW a
    PROVE  LET s == Plain((IF a = "team" THEN <<"member">> ELSE <<>>) \o <<"count", "insert">>)
           IN  s \in Plans("keys") /\ s[1].do \in {"member", "count"}
<1>1. PICK M : M = <<"member", "count", "insert">>
    OBVIOUS
<1>2. PICK C : C = <<"count", "insert">>
    OBVIOUS
<1>3. <<"member">> \o C = M
    <2>1. PICK K : K = <<"member">>
        OBVIOUS
    <2>2. /\ K \in Seq(Steps) /\ Len(K) = 1 /\ K[1] = "member"
          /\ C \in Seq(Steps) /\ Len(C) = 2 /\ C[1] = "count" /\ C[2] = "insert"
        BY <1>2, <2>1 DEF Steps
    <2>3. PICK J : J = K \o C
        OBVIOUS
    <2>4. /\ J \in Seq(Steps) /\ Len(J) = 3 /\ J[1] = K[1]
          /\ J[1+1] = C[1] /\ J[1+2] = C[2]
        <3>1. /\ K \o C \in Seq(Steps) /\ Len(K \o C) = Len(K) + Len(C)
              /\ \A i \in 1..Len(K) : (K \o C)[i] = K[i]
              /\ \A i \in 1..Len(C) : (K \o C)[Len(K) + i] = C[i]
            <4>1. \A s, t \in Seq(Steps) :
                    /\ s \o t \in Seq(Steps) /\ Len(s \o t) = Len(s) + Len(t)
                    /\ \A i \in 1..Len(s) : (s \o t)[i] = s[i]
                    /\ \A i \in 1..Len(t) : (s \o t)[Len(s) + i] = t[i]
                BY Concatenated
            <4>2. K \in Seq(Steps) /\ C \in Seq(Steps)
                BY <2>2
            <4> QED
                BY <4>1, <4>2, Zenon
        <3> QED
            BY <2>2, <2>3, <3>1
    <2>5. J[1] = "member" /\ J[2] = "count" /\ J[3] = "insert"
        BY <2>2, <2>4
    <2>6. M \in Seq(Steps) /\ Len(M) = 3 /\ M[1] = "member" /\ M[2] = "count" /\ M[3] = "insert"
        BY <1>1 DEF Steps
    <2>7. \A x \in Seq(Steps) : Len(x) = 3 => x \in [1..3 -> Steps]
        OBVIOUS
    <2>8. J \in [1..3 -> Steps] /\ M \in [1..3 -> Steps]
        BY <2>4, <2>6, <2>7
    <2>9. \A i \in 1..3 : J[i] = M[i]
        BY <2>5, <2>6
    <2> QED
        BY <2>1, <2>3, <2>8, <2>9
<1>4. <<>> \o C = C
    BY <1>2
<1>5. M \in Seq(Steps) /\ Len(M) = 3 /\ M[1] = "member" /\ C \in Seq(Steps) /\ Len(C) = 2 /\ C[1] = "count"
    BY <1>1, <1>2 DEF Steps
<1>6. PICK W : W = (IF a = "team" THEN <<"member">> ELSE <<>>) \o C
    OBVIOUS
<1>7. W = M \/ W = C
    BY <1>3, <1>4, <1>6, Zenon
<1>8. Plain(W)[1].do \in {"member", "count"}
    <2>1. W \in Seq(Steps) /\ 1 \in 1..Len(W) /\ W[1] \in {"member", "count"}
        BY <1>5, <1>7
    <2> QED
        BY <2>1, PlainSteps
<1>9. Plain(W) \in Plans("keys")
    <2>0. Plans("keys") = {Plain(<<"member", "count", "insert">>), Plain(<<"count", "insert">>),
                           Plain(<<"owned", "delete", "replace">>),
                           Plain(<<"owned", "delete", "drop">>)}
        BY DEF Plans
    <2>1. Plain(M) \in Plans("keys") /\ Plain(C) \in Plans("keys")
        BY <1>1, <1>2, <2>0, Zenon
    <2> QED
        BY <1>7, <2>1
<1> QED
    BY <1>2, <1>6, <1>8, <1>9

LEMMA OwnedPlans ==
    /\ Plain(<<"owned", "delete", "replace">>) \in Plans("keys")
    /\ Plain(<<"owned", "delete", "replace">>)[1].do = "owned"
    /\ \A i \in 1..Len(Plain(<<"owned", "delete", "replace">>)) :
            Plain(<<"owned", "delete", "replace">>)[i].do # "insert"
    /\ Plain(<<"owned", "delete", "drop">>) \in Plans("keys")
    /\ Plain(<<"owned", "delete", "drop">>)[1].do = "owned"
    /\ \A i \in 1..Len(Plain(<<"owned", "delete", "drop">>)) :
            Plain(<<"owned", "delete", "drop">>)[i].do \notin {"insert", "replace"}
<1>1. PICK R : R = <<"owned", "delete", "replace">>
    OBVIOUS
<1>2. PICK D : D = <<"owned", "delete", "drop">>
    OBVIOUS
<1>3. R \in Seq(Steps) /\ Len(R) = 3 /\ R[1] = "owned" /\ D \in Seq(Steps) /\ Len(D) = 3 /\ D[1] = "owned"
    BY <1>1, <1>2 DEF Steps
<1>4. Plain(R)[1].do = "owned" /\ Plain(D)[1].do = "owned"
    <2>1. 1 \in 1..Len(R) /\ 1 \in 1..Len(D)
        BY <1>3
    <2> QED
        BY <1>3, <2>1, PlainSteps
<1>6. /\ \A i \in 1..Len(Plain(R)) : Plain(R)[i].do # "insert"
      /\ \A i \in 1..Len(Plain(D)) : Plain(D)[i].do \notin {"insert", "replace"}
    <2>1. R[2] = "delete" /\ R[3] = "replace" /\ D[2] = "delete" /\ D[3] = "drop"
        BY <1>1, <1>2
    <2>2. \A i \in 1..3 : R[i] # "insert" /\ D[i] \notin {"insert", "replace"}
        BY <1>3, <2>1
    <2>3. /\ Len(Plain(R)) = 3 /\ \A i \in 1..Len(R) : Plain(R)[i].do = R[i]
          /\ Len(Plain(D)) = 3 /\ \A i \in 1..Len(D) : Plain(D)[i].do = D[i]
        BY <1>3, PlainSteps
    <2> QED
        BY <1>3, <2>2, <2>3
<1>5. Plain(R) \in Plans("keys") /\ Plain(D) \in Plans("keys")
    <2>1. Plans("keys") = {Plain(<<"member", "count", "insert">>), Plain(<<"count", "insert">>),
                           Plain(<<"owned", "delete", "replace">>),
                           Plain(<<"owned", "delete", "drop">>)}
        BY DEF Plans
    <2> QED
        BY <1>1, <1>2, <2>1, Zenon
<1> QED
    BY <1>1, <1>2, <1>4, <1>5, <1>6

LEMMA StartsTurn ==
    ASSUME TasksWell, NEW w \in Workers,
           \/ AskListing(w)
           \/ \E l \in Team, right \in Rights : AskPage(w, l, right)
           \/ \E l \in Team : RecordPage(w, l)
           \/ \E k \in Keys, g \in Offers, a \in Accounts : CreateKey(w, k, g, a)
           \/ \E k \in Keys, g \in Offers : EditKey(w, k, g)
           \/ \E k \in Keys : DeleteKey(w, k)
           \/ \E k \in Keys : ReadByKey(w, k)
           \/ \E c \in Codes : ReadByToken(w, c)
           \/ \E c \in Codes : Exchange(w, c)
    PROVE  Event /\ \E u \in Task : Turn(w, u)
<1>i. Idle \in Task /\ Idle.have = {} /\ ~Idle.waits /\ ~Idle.stale /\ Idle.key = NoKey
    BY IdleIsWell DEF Well, Idle
<1>k. Kinds \ {"none"} = {"key", "token", "listing", "page", "record", "keys", "exchange", "flush"}
    BY DEF Kinds
<1>o. Offers \subseteq KeyGrants /\ NoGrants \in KeyGrants
    BY AccessAssumption DEF NoGrants, KeyGrants
<1>p. \A kind \in Kinds : \A s \in Plans(kind) : s \in Seq(Asks)
    BY AllPlans DEF IsPlan
<1>1. CASE AskListing(w)
    <2>1. PICK t : t = [Idle EXCEPT !.kind = "listing", !.todo = Listing]
        OBVIOUS
    <2>2. Listing \in Plans("listing")
        BY DEF Plans
    <2>3. t \in Task /\ Asked(t)
        BY <1>i, <1>k, <1>p, <2>1, <2>2 DEF Task, Asked, Fit, Kinds
    <2> QED
        BY <1>1, <2>1, <2>3, StartTurns DEF AskListing, Still
<1>2. CASE \E l \in Team, right \in Rights : AskPage(w, l, right)
    <2>0. PICK l \in Team, right \in Rights : AskPage(w, l, right)
        BY <1>2
    <2>1. PICK s : s = Questions(l, right) \o <<Ask("page", l, right)>>
        OBVIOUS
    <2>2. s \in Plans("page")
        BY <2>1, PlanSets, Zenon
    <2>3. PICK t : t = [Idle EXCEPT !.kind = "page", !.todo = s]
        OBVIOUS
    <2>4. t \in Task /\ Asked(t)
        BY <1>i, <1>k, <1>p, <2>2, <2>3 DEF Task, Asked, Fit, Kinds
    <2> QED
        BY <2>0, <2>1, <2>3, <2>4, StartTurns DEF AskPage, Still
<1>3. CASE \E l \in Team : RecordPage(w, l)
    <2>0. PICK l \in Team : RecordPage(w, l)
        BY <1>3
    <2>1. PICK s : s = Questions(l, "read") \o ListAll \o <<Ask("page", l, "read")>>
        OBVIOUS
    <2>2. s \in Plans("record")
        BY <2>1, PlanSets, Zenon
    <2>3. PICK t : t = [Idle EXCEPT !.kind = "record", !.todo = s]
        OBVIOUS
    <2>4. t \in Task /\ Asked(t)
        BY <1>i, <1>k, <1>p, <2>2, <2>3 DEF Task, Asked, Fit, Kinds
    <2> QED
        BY <2>0, <2>1, <2>3, <2>4, StartTurns DEF RecordPage, Still
<1>4. CASE \E k \in Keys, g \in Offers, a \in Accounts : CreateKey(w, k, g, a)
    <2>0. PICK k \in Keys, g \in Offers, a \in Accounts : CreateKey(w, k, g, a)
        BY <1>4
    <2>1. PICK s : s = Plain((IF a = "team" THEN <<"member">> ELSE <<>>) \o <<"count", "insert">>)
        OBVIOUS
    <2>2. s \in Plans("keys") /\ s[1].do \in {"member", "count"}
        BY <2>1, CreatePlan
    <2>3. PICK t : t = [Idle EXCEPT !.kind = "keys", !.key = k, !.grants = g, !.account = a, !.todo = s]
        OBVIOUS
    <2>4. k \notin keys /\ wanted[k] = {} /\ \A v \in Workers : task[v].key # k
        BY <2>0 DEF CreateKey
    <2>5. /\ t \in Task /\ t.kind = "keys" /\ t.todo = s /\ t.have = {} /\ ~t.waits /\ ~t.stale
          /\ t.key = k /\ t.grants = g
        BY <1>i, <1>k, <1>o, <1>p, <2>2, <2>3 DEF Task, Kinds
    <2>6. Asked(t)
        BY <1>k, <2>2, <2>4, <2>5 DEF Asked, Fit
    <2> QED
        BY <2>0, <2>1, <2>3, <2>5, <2>6, StartTurns DEF CreateKey, Still
<1>5. CASE \E k \in Keys, g \in Offers : EditKey(w, k, g)
    <2>0. PICK k \in Keys, g \in Offers : EditKey(w, k, g)
        BY <1>5
    <2>1. PICK s : s = Plain(<<"owned", "delete", "replace">>)
        OBVIOUS
    <2>2. s \in Plans("keys") /\ s[1].do = "owned" /\ \A i \in 1..Len(s) : s[i].do # "insert"
        BY <2>1, OwnedPlans
    <2>3. PICK t : t = [Idle EXCEPT !.kind = "keys", !.key = k, !.grants = g, !.todo = s]
        OBVIOUS
    <2>5. /\ t \in Task /\ t.kind = "keys" /\ t.todo = s /\ t.have = {} /\ ~t.waits /\ ~t.stale
          /\ t.key = k /\ t.grants = g
        BY <1>i, <1>k, <1>o, <1>p, <2>2, <2>3 DEF Task, Kinds
    <2>6. Asked(t)
        BY <1>k, <2>2, <2>5 DEF Asked, Fit
    <2> QED
        BY <2>0, <2>1, <2>3, <2>5, <2>6, StartTurns DEF EditKey, Still
<1>6. CASE \E k \in Keys : DeleteKey(w, k)
    <2>0. PICK k \in Keys : DeleteKey(w, k)
        BY <1>6
    <2>1. PICK s : s = Plain(<<"owned", "delete", "drop">>)
        OBVIOUS
    <2>2. /\ s \in Plans("keys") /\ s[1].do = "owned"
          /\ \A i \in 1..Len(s) : s[i].do \notin {"insert", "replace"}
        BY <2>1, OwnedPlans
    <2>3. PICK t : t = [Idle EXCEPT !.kind = "keys", !.key = k, !.todo = s]
        OBVIOUS
    <2>5. /\ t \in Task /\ t.kind = "keys" /\ t.todo = s /\ t.have = {} /\ ~t.waits /\ ~t.stale
          /\ t.key = k
        BY <1>i, <1>k, <1>o, <1>p, <2>2, <2>3 DEF Task, Kinds
    <2>6. Asked(t)
        BY <1>k, <2>2, <2>5 DEF Asked, Fit
    <2> QED
        BY <2>0, <2>1, <2>3, <2>5, <2>6, StartTurns DEF DeleteKey, Still
<1>7. CASE \E k \in Keys : ReadByKey(w, k)
    <2>0. PICK k \in Keys : ReadByKey(w, k)
        BY <1>7
    <2>1. PICK s : s = Plain(<<"key", "grants">> \o Metered)
        OBVIOUS
    <2>2. s \in Plans("key")
        BY <2>1, PlanSets, Zenon
    <2>a. PICK b \in BOOLEAN : b = (k \in keys)
        <3>1. CASE k \in keys
            <4>1. TRUE = (k \in keys)
                BY <3>1
            <4> QED
                BY <4>1, Zenon
        <3>2. CASE k \notin keys
            <4>1. FALSE = (k \in keys)
                BY <3>2
            <4> QED
                BY <4>1, Zenon
        <3> QED
            BY <3>1, <3>2
    <2>3. PICK t : t = [Idle EXCEPT !.kind = "key", !.key = k, !.alive = b, !.todo = s]
        OBVIOUS
    <2>4. wanted[k] # {}
        BY <2>0 DEF ReadByKey
    <2>5. /\ t \in Task /\ t.kind = "key" /\ t.todo = s /\ t.have = {} /\ ~t.waits /\ ~t.stale
          /\ t.key = k /\ t.alive = b
        BY <1>i, <1>k, <1>p, <2>2, <2>3 DEF Task, Kinds
    <2>6. Asked(t)
        BY <1>k, <2>2, <2>4, <2>5, <2>a DEF Asked, Fit
    <2>7. Start(w, t) /\ Still
        <3>1. Start(w, [Idle EXCEPT !.kind = "key", !.key = k, !.alive = k \in keys, !.todo = s])
            BY <2>0, <2>1, Zenon DEF ReadByKey
        <3> QED
            BY <2>0, <2>3, <2>a, <3>1, Zenon DEF ReadByKey, Still
    <2> QED
        BY <2>5, <2>6, <2>7, StartTurns
<1>8. CASE \E c \in Codes : ReadByToken(w, c)
    <2>0. PICK c \in Codes : ReadByToken(w, c)
        BY <1>8
    <2>1. PICK t : t = [Idle EXCEPT !.kind = "token", !.code = c, !.todo = TokenRead]
        OBVIOUS
    <2>2. TokenRead \in Plans("token")
        BY DEF Plans
    <2>3. t \in Task /\ Asked(t)
        BY <1>i, <1>k, <1>p, <2>1, <2>2 DEF Task, Asked, Fit, Kinds
    <2> QED
        BY <2>0, <2>1, <2>3, StartTurns DEF ReadByToken, Still
<1>9. CASE \E c \in Codes : Exchange(w, c)
    <2>0. PICK c \in Codes : Exchange(w, c)
        BY <1>9
    <2>1. PICK s : s = Plain(<<"code", "consume", "mint">>)
        OBVIOUS
    <2>2. s \in Plans("exchange")
        BY <2>1, PlanSets, Zenon
    <2>3. PICK t : t = [Idle EXCEPT !.kind = "exchange", !.code = c, !.todo = s]
        OBVIOUS
    <2>4. t \in Task /\ Asked(t)
        BY <1>i, <1>k, <1>p, <2>2, <2>3 DEF Task, Asked, Fit, Kinds
    <2> QED
        BY <2>0, <2>1, <2>3, <2>4, StartTurns DEF Exchange, Still
<1> QED
    BY <1>1, <1>2, <1>3, <1>4, <1>5, <1>6, <1>7, <1>8, <1>9

\* A worker's step that leaves the tables alone.
Quiet(w) ==
    \/ ListGranted(w) \/ ListOrgs(w) \/ Answer(w) \/ CheckMember(w) \/ CountKeys(w)
    \/ FindOwned(w) \/ DeleteRows(w) \/ Serve(w) \/ FindCredential(w) \/ FindGrants(w)
    \/ FindAccount(w) \/ CheckQuota(w) \/ Read(w) \/ ReadNothing(w) \/ FindCode(w)

LEMMA QuietTurns ==
    ASSUME TasksWell, Tables, NEW w \in Workers, Quiet(w)
    PROVE  UNCHANGED count /\ \E u \in Task : Turn(w, u)
<1>a. ~IsIdle(w)
    BY DEF Quiet, ListGranted, ListOrgs, Answer, CheckMember, CountKeys, FindOwned, DeleteRows, Serve,
           FindCredential, FindKey, FindToken, FindGrants, FindAccount, CheckQuota, Read, ReadNothing,
           FindCode, At
<1>b. task[w] \in Task /\ Well(task[w]) /\ task[w].todo # <<>>
    BY <1>a, IdleIsEmpty DEF IsIdle
<1>c. \A what : At(w, what) => Head(task[w].todo).do = what
    BY DEF At
<1>1. CASE CheckMember(w)
    <2>1. At(w, "member") /\ (Advance(w) \/ Fail(w)) /\ Still
        BY <1>1 DEF CheckMember, Still
    <2>2. Head(task[w].todo).do = "member"
        BY <1>c, <2>1
    <2> QED
        BY <1>a, <1>c, <2>1, <2>2, AdvanceTurns, FailTurns DEF Blind
<1>2. CASE CountKeys(w)
    <2>1. At(w, "count") /\ Still
        BY <1>2 DEF CountKeys, Still
    <2>2. Head(task[w].todo).do = "count"
        BY <1>c, <2>1
    <2>3. Cardinality(keys) \in Nat
        BY FS_CardinalityType DEF Tables
    <2>4. Fail(w) \/ (Advance(w) /\ Cardinality(keys) < KeyLimit)
        BY <1>2, <2>3, AccessAssumption DEF CountKeys
    <2> QED
        BY <1>a, <1>c, <2>1, <2>2, <2>4, AdvanceTurns, FailTurns DEF Blind
<1>3. CASE FindOwned(w)
    <2>1. At(w, "owned") /\ Still /\ (Fail(w) \/ (Advance(w) /\ task[w].key \in keys))
        BY <1>3 DEF FindOwned, Still
    <2>2. Head(task[w].todo).do = "owned"
        BY <1>c, <2>1
    <2> QED
        BY <1>a, <1>c, <2>1, <2>2, AdvanceTurns, FailTurns DEF Blind
<1>4. CASE Serve(w)
    <2>1. At(w, "page") /\ Advance(w) /\ Still
        BY <1>4 DEF Serve, Still
    <2>2. Head(task[w].todo).do = "page"
        BY <1>c, <2>1
    <2> QED
        BY <1>a, <1>c, <2>1, <2>2, AdvanceTurns DEF Blind
<1>5. CASE FindKey(w)
    <2>1. At(w, "key") /\ Still /\ (Fail(w) \/ (Advance(w) /\ task[w].key \in keys))
        BY <1>5 DEF FindKey, Still
    <2>2. Head(task[w].todo).do = "key"
        BY <1>c, <2>1
    <2> QED
        BY <1>a, <1>c, <2>1, <2>2, AdvanceTurns, FailTurns DEF Blind
<1>6. CASE FindToken(w)
    <2>1. At(w, "token") /\ (Advance(w) \/ Fail(w)) /\ Still
        BY <1>6 DEF FindToken, Still
    <2>2. Head(task[w].todo).do = "token"
        BY <1>c, <2>1
    <2> QED
        BY <1>a, <1>c, <2>1, <2>2, AdvanceTurns, FailTurns DEF Blind
<1>7. CASE FindCode(w)
    <2>1. At(w, "code") /\ (Advance(w) \/ Fail(w)) /\ Still
        BY <1>7 DEF FindCode, Still
    <2>2. Head(task[w].todo).do = "code"
        BY <1>c, <2>1
    <2> QED
        BY <1>a, <1>c, <2>1, <2>2, AdvanceTurns, FailTurns DEF Blind
<1>8. CASE CheckQuota(w)
    <2>1. At(w, "quota") /\ Still
        BY <1>8 DEF CheckQuota, Still
    <2>2. Head(task[w].todo).do = "quota"
        BY <1>c, <2>1
    <2>3. task[w].account \in Accounts
        BY <1>b DEF Task
    <2>4. units[task[w].account][month] \in Nat
        BY <2>3 DEF Tables
    <2>5. Fail(w) \/ (Advance(w) /\ units[task[w].account][month] < Limit)
        BY <1>8, <2>4, AccessAssumption DEF CheckQuota
    <2> QED
        BY <1>a, <1>c, <2>1, <2>2, <2>5, AdvanceTurns, FailTurns DEF Blind
<1>9. CASE ReadNothing(w)
    BY <1>9, FailTurns DEF ReadNothing, Still
<1>10. CASE DeleteRows(w)
    <2>1. At(w, "delete") /\ Still
        BY <1>10 DEF DeleteRows, Still
    <2>2. Head(task[w].todo).do = "delete"
        BY <1>c, <2>1
    <2>3. PICK b \in BOOLEAN : b = (Holding(task[w].key, w) # {})
        <3>1. CASE Holding(task[w].key, w) # {}
            <4>1. TRUE = (Holding(task[w].key, w) # {})
                BY <3>1
            <4> QED
                BY <4>1, Zenon
        <3>2. CASE ~(Holding(task[w].key, w) # {})
            <4>1. FALSE = (Holding(task[w].key, w) # {})
                BY <3>2
            <4> QED
                BY <4>1, Zenon
        <3> QED
            BY <3>1, <3>2
    <2>4. PICK t : t = [task[w] EXCEPT !.waits = b]
        OBVIOUS
    <2>5. Fail(w) \/ Goto(w, t)
        <3>1. Fail(w) \/ Goto(w, [task[w] EXCEPT !.waits = Holding(task[w].key, w) # {}])
            BY <1>10, Zenon DEF DeleteRows
        <3> QED
            BY <2>3, <2>4, <3>1, Zenon
    <2>6. /\ t \in Task /\ Same(task[w], t) /\ t.todo = task[w].todo /\ t.stale = task[w].stale
          /\ t.waits = b /\ t.account = task[w].account /\ t.cost = task[w].cost /\ t.have = task[w].have
        BY <1>b, <2>4 DEF Task, Same
    <2>7. ~At(w, "account") /\ ~At(w, "read") /\ \A what \in {"key", "owned", "count", "quota", "grants"} : ~At(w, what)
        BY <1>c, <2>2
    <2>8. t.waits = IF At(w, "delete") THEN Holding(task[w].key, w) # {} ELSE task[w].waits
        BY <2>1, <2>3, <2>6, Zenon
    <2>9. Passable(w, t)
        BY <2>6, <2>7, <2>8, Zenon DEF Passable
    <2>10. Head(task[w].todo).do \in Blind \cup {"grants"}
        BY <2>2 DEF Blind
    <2> QED
        BY <1>a, <2>1, <2>5, <2>6, <2>9, <2>10, GotoTurns, FailTurns
<1>11. CASE FindGrants(w)
    <2>1. At(w, "grants") /\ Still
        BY <1>11 DEF FindGrants, Still
    <2>2. Head(task[w].todo).do = "grants"
        BY <1>c, <2>1
    <2>3. PICK have : have = {<<x[2], x[3]>> : x \in HeldByKey(keyGrants[task[w].key])}
        OBVIOUS
    <2>4. have \in SUBSET ((Team \cup KeyLibraries) \X Targets)
        BY <2>3 DEF HeldByKey, Targets, Rights
    <2>5. PICK t : t = [task[w] EXCEPT !.have = have]
        OBVIOUS
    <2>6. Goto(w, t) /\ t.have = FoundByKey(task[w].key)
        BY <1>b, <1>11, <2>3, <2>5 DEF FindGrants, FoundByKey, Task
    <2>7. /\ t \in Task /\ Same(task[w], t) /\ t.todo = task[w].todo /\ t.stale = task[w].stale
          /\ t.waits = task[w].waits /\ t.account = task[w].account /\ t.cost = task[w].cost
        BY <1>b, <2>4, <2>5 DEF Task, Same, Targets
    <2>8. ~At(w, "delete") /\ ~At(w, "read") /\ \A what \in Blind : ~At(w, what)
        BY <1>c, <2>2 DEF Blind
    <2>9. Passable(w, t)
        BY <2>6, <2>7, <2>8 DEF Passable, Blind
    <2>10. Head(task[w].todo).do \in Blind \cup {"grants"}
        BY <2>2 DEF Blind
    <2> QED
        BY <1>a, <2>1, <2>6, <2>7, <2>9, <2>10, GotoTurns
<1>12. CASE FindAccount(w)
    <2>1. At(w, "account") /\ Still
        BY <1>12 DEF FindAccount, Still
    <2>2. Head(task[w].todo).do = "account"
        BY <1>c, <2>1
    <2>3. PICK a : a = IF task[w].account = "own" /\ task[w].key \in keys THEN payer[task[w].key] ELSE "own"
        OBVIOUS
    <2>4. a \in Accounts
        BY <2>3 DEF Tables, Accounts
    <2>5. PICK t : t = [task[w] EXCEPT !.account = a]
        OBVIOUS
    <2>6. Goto(w, t)
        <3>1. [task[w] EXCEPT !.account = IF @ = "own" /\ task[w].key \in keys THEN payer[task[w].key] ELSE "own"] = t
            BY <1>b, <2>3, <2>5 DEF Task
        <3> QED
            BY <1>12, <3>1, Zenon DEF FindAccount
    <2>7. /\ t \in Task /\ Same(task[w], t) /\ t.todo = task[w].todo /\ t.stale = task[w].stale
          /\ t.waits = task[w].waits /\ t.have = task[w].have /\ t.cost = task[w].cost
        BY <1>b, <2>4, <2>5 DEF Task, Same
    <2>8. ~At(w, "delete") /\ ~At(w, "read") /\ \A what \in {"key", "owned", "count", "quota", "grants"} : ~At(w, what)
        BY <1>c, <2>2
    <2>9. Passable(w, t)
        BY <2>1, <2>7, <2>8 DEF Passable
    <2>10. Head(task[w].todo).do \in Blind \cup {"grants"}
        BY <2>2 DEF Blind
    <2> QED
        BY <1>a, <2>1, <2>6, <2>7, <2>9, <2>10, GotoTurns
<1>13. CASE Read(w)
    <2>1. At(w, "read") /\ Still
        BY <1>13 DEF Read, Still
    <2>2. Head(task[w].todo).do = "read"
        BY <1>c, <2>1
    <2>3. PICK n \in Found : Goto(w, [task[w] EXCEPT !.cost = ReadUnits(n)])
        BY <1>13 DEF Read
    <2>4. ReadUnits(n) \in Costs /\ ReadUnits(n) \in Nat
        <3>1. ReadUnits(n) \in Costs
            BY DEF Costs
        <3> QED
            BY <3>1, CostsType
    <2>5. PICK t : t = [task[w] EXCEPT !.cost = ReadUnits(n)]
        OBVIOUS
    <2>7. /\ t \in Task /\ Same(task[w], t) /\ t.todo = task[w].todo /\ t.stale = task[w].stale
          /\ t.waits = task[w].waits /\ t.have = task[w].have /\ t.account = task[w].account
          /\ t.cost \in Costs
        BY <1>b, <2>4, <2>5 DEF Task, Same
    <2>8. ~At(w, "delete") /\ ~At(w, "account") /\ \A what \in {"key", "owned", "count", "quota", "grants"} : ~At(w, what)
        BY <1>c, <2>2
    <2>9. Passable(w, t)
        BY <2>1, <2>7, <2>8 DEF Passable
    <2>10. Head(task[w].todo).do \in Blind \cup {"grants"}
        BY <2>2 DEF Blind
    <2> QED
        BY <1>a, <2>1, <2>3, <2>5, <2>7, <2>9, <2>10, GotoTurns
<1> QED
    BY <1>1, <1>2, <1>3, <1>4, <1>5, <1>6, <1>7, <1>8, <1>9, <1>10, <1>11, <1>12, <1>13,
       ListGrantedTurns, ListOrgsTurns, AnswerTurns DEF Quiet, FindCredential

-----------------------------------------------------------------------------
(* The steps that change the tables, and all steps together.               *)

\* The request goes on, or is over, with what it had.
Onward(w, u) ==
    /\ task' = [task EXCEPT ![w] = u] /\ Well(u)
    /\ \/ u = Idle
       \/ /\ Moved(task[w], u) /\ u.have = task[w].have /\ u.waits = task[w].waits
          /\ u.stale = task[w].stale /\ u.account = task[w].account /\ u.cost = task[w].cost

LEMMA AdvanceOnward ==
    ASSUME TasksWell, NEW w \in Workers, ~IsIdle(w), ~At(w, "read"), Advance(w)
    PROVE  UNCHANGED count /\ \E u \in Task : Onward(w, u)
<1>1. PICK t \in Task : t = task[w]
    BY IdleIsEmpty
<1>2. /\ Same(task[w], t) /\ t.todo = task[w].todo
      /\ t.cost \in Costs \/ (~At(w, "read") /\ t.cost = task[w].cost)
    BY <1>1 DEF Same
<1>3. Goto(w, t)
    BY <1>1 DEF Advance
<1>4. /\ UNCHANGED count
      /\ \E u \in Task :
            /\ task' = [task EXCEPT ![w] = u] /\ Well(u)
            /\ \/ u = Idle
               \/ /\ Moved(task[w], u) /\ u.have = t.have /\ u.waits = t.waits
                  /\ u.stale = t.stale /\ u.account = t.account /\ u.cost = t.cost
                  /\ u.todo = Tail(task[w].todo)
    BY <1>2, <1>3, GotoTakes
<1> QED
    BY <1>1, <1>4 DEF Onward

\* After the insertion of a key its request is over.
LEMMA InsertEnds ==
    ASSUME TasksWell, NEW w \in Workers, InsertKey(w)
    PROVE  UNCHANGED count /\ task' = [task EXCEPT ![w] = Idle]
<1>1. ~IsIdle(w) /\ Head(task[w].todo).do = "insert" /\ Advance(w)
    BY DEF InsertKey, At
<1>2. PICK t : t = task[w]
    OBVIOUS
<1>3. t \in Task /\ Well(t) /\ t.todo # <<>> /\ Head(t.todo).do = "insert"
    BY <1>1, <1>2, IdleIsEmpty DEF IsIdle
<1>4. /\ Len(t.todo) > 0 /\ t.todo \in Seq(Asks) /\ Len(t.todo) \in Nat
      /\ Head(t.todo) = t.todo[1] /\ IsRest(Tail(t.todo), t.todo, 1)
      /\ Head(t.todo).do \in WordsOf(t.kind)
    BY <1>3, ShapeFacts
<1>5. t.kind = "keys"
    <2>1. t.kind \in {"none", "key", "token", "listing", "page", "record", "keys", "exchange", "flush"}
        BY <1>3 DEF Task
    <2>2. t.kind # "keys" => "insert" \notin WordsOf(t.kind)
        BY <2>1 DEF WordsOf, MeterWords, LookWords
    <2> QED
        BY <1>3, <1>4, <2>2
<1>6. 1 = Len(t.todo)
    <2>1. 1 \in 1..Len(t.todo)
        BY <1>4
    <2> QED
        BY <1>3, <1>4, <1>5, <2>1 DEF Well, Shape
<1>7. Tail(t.todo) = <<>>
    <2>1. PICK r : r = Tail(t.todo)
        OBVIOUS
    <2>2. r \in Seq(Asks) /\ Len(r) = 0
        BY <1>4, <1>6, <2>1 DEF IsRest
    <2>3. r = <<>>
        BY <2>2
    <2> QED
        BY <2>1, <2>3
<1>8. [t EXCEPT !.todo = Tail(@)].todo = <<>>
    BY <1>3, <1>7 DEF Task
<1> QED
    BY <1>1, <1>2, <1>8 DEF Advance, Goto, Become

\* The rows of a key are replaced.
Replaced(w) ==
    /\ At(w, "replace") /\ MayCommit(w)
    /\ keyGrants' = [keyGrants EXCEPT ![task[w].key] =
                        Overwrite(IF task[w].stale THEN keyGrants[task[w].key] ELSE NoGrants,
                                  task[w].grants)]
    /\ wanted' = [wanted EXCEPT ![task[w].key] = @ \cup {task[w].grants}]
    /\ crossed' = IF task[w].waits \/ task[w].key \notin keys THEN crossed \cup {task[w].key}
                                                              ELSE crossed
    /\ Committed(w, Idle)
    /\ UNCHANGED <<access, keys, payer, oauth, usage, count>>

LEMMA ReplaceSplits ==
    ASSUME NEW w \in Workers, ReplaceGrants(w)
    PROVE  Replaced(w) \/ (Fail(w) /\ Still)
BY DEF ReplaceGrants, Replaced, Still, keyring

\* A commit tells the transactions that wait for it, and changes nothing else for them.
LEMMA CommitTakes ==
    ASSUME TasksWell, NEW w \in Workers, Committed(w, Idle)
    PROVE  /\ TasksWell' /\ task'[w] = Idle
           /\ \A v \in Workers \ {w} :
                /\ Same(task[v], task'[v]) /\ task'[v].todo = task[v].todo
                /\ task'[v].have = task[v].have /\ task'[v].waits = task[v].waits
                /\ task'[v].account = task[v].account /\ task'[v].cost = task[v].cost
                /\ task'[v].stale = IF v \in Holding(task[w].key, w) THEN TRUE ELSE task[v].stale
                /\ v \notin Holding(task[w].key, w) => task'[v] = task[v]
<1>1. task' = [v \in Workers |->
                IF v = w THEN Idle
                ELSE IF v \in Holding(task[w].key, w) THEN [task[v] EXCEPT !.stale = TRUE]
                ELSE task[v]]
    BY DEF Committed
<1>2. task'[w] = Idle
    BY <1>1
<1>3. ASSUME NEW v \in Workers \ {w}
      PROVE  /\ Same(task[v], task'[v]) /\ task'[v].todo = task[v].todo
             /\ task'[v].have = task[v].have /\ task'[v].waits = task[v].waits
             /\ task'[v].account = task[v].account /\ task'[v].cost = task[v].cost
             /\ task'[v].stale = IF v \in Holding(task[w].key, w) THEN TRUE ELSE task[v].stale
             /\ v \notin Holding(task[w].key, w) => task'[v] = task[v]
             /\ task'[v] \in Task /\ Well(task'[v])
    <2>1. task[v] \in Task /\ Well(task[v])
        BY IdleIsEmpty
    <2>2. CASE v \in Holding(task[w].key, w)
        <3>1. PICK t : t = task[v]
            OBVIOUS
        <3>2. PICK u : u = [t EXCEPT !.stale = TRUE]
            OBVIOUS
        <3>3. task'[v] = u
            BY <1>1, <2>2, <3>1, <3>2
        <3>4. t \in Task /\ Well(t) /\ t.todo # <<>>
            BY <2>1, <2>2, <3>1 DEF Holding, At, IsIdle
        <3>5. /\ u \in Task /\ u.todo = t.todo /\ u.cost = t.cost /\ u.have = t.have /\ u.waits = t.waits
              /\ u.account = t.account /\ u.stale = TRUE /\ Same(t, u)
            BY <3>2, <3>4 DEF Task, Same
        <3>6. Well(u)
            BY <3>4, <3>5 DEF Well, First, Same
        <3> QED
            BY <2>2, <3>1, <3>3, <3>5, <3>6
    <2>3. CASE v \notin Holding(task[w].key, w)
        BY <1>1, <2>1, <2>3 DEF Same
    <2> QED
        BY <2>2, <2>3
<1>4. \A v \in Workers : task'[v] \in Task /\ Well(task'[v])
    BY <1>2, <1>3, IdleIsWell DEF Well
<1>5. task' \in [Workers -> Task]
    BY <1>1, <1>4
<1>6. TasksWell'
    <2>1. \A v \in Workers : Well(task[v])'
        BY <1>4 DEF Well, First
    <2> QED
        BY <1>5, <2>1 DEF TasksWell
<1> QED
    BY <1>2, <1>3, <1>6

\* The code is consumed.
Consumed(s) ==
    /\ At(s, "consume") /\ codes[task[s].code] # "consumed"
    /\ codes' = [codes EXCEPT ![task[s].code] = "consumed"] /\ Advance(s)
    /\ UNCHANGED <<access, keyring, tokens, live, usage, crossed>>

LEMMA ConsumeSplits ==
    ASSUME NEW s \in Workers, ConsumeCode(s)
    PROVE  Consumed(s) \/ (Fail(s) /\ Still)
BY DEF ConsumeCode, Consumed, Still, oauth

\* The steps of those who run the team, and of time.
World ==
    \/ \E c \in Codes : Authorize(c)
    \/ \E c \in Codes : ExpireToken(c)
    \/ \E s \in {"removed", "member", "admin"} : SetSeat(s)
    \/ \E l \in Team, role \in {"none", "reader", "writer", "maintainer"} : SetGrant(l, role)
    \/ NextMonth

\* At a step on the list of events.
Lists(w) == At(w, "buffer") \/ At(w, "store")

Turns(w) == (\E u \in Task : Turn(w, u)) /\ (UNCHANGED count \/ Event) /\ ~Lists(w)

KeyStep(w) == InsertKey(w) \/ Replaced(w) \/ DropKey(w)

ServerStep(s) ==
    \/ Consumed(s) \/ MintToken(s) \/ Meter(s) \/ Buffer(s) \/ Flush(s) \/ StoreEvents(s)
    \/ Die(s)

\* No other step is done there.
LEMMA ListsOnly ==
    ASSUME NEW w,
           \/ Quiet(w) \/ ReplaceGrants(w) \/ ConsumeCode(w)
           \/ \E k \in Keys, g \in Offers, a \in Accounts : CreateKey(w, k, g, a)
           \/ \E k \in Keys, g \in Offers : EditKey(w, k, g)
           \/ \E k \in Keys : DeleteKey(w, k) \/ ReadByKey(w, k)
           \/ \E c \in Codes : ReadByToken(w, c) \/ Exchange(w, c)
           \/ AskListing(w)
           \/ \E l \in Team, right \in Rights : AskPage(w, l, right)
           \/ \E l \in Team : RecordPage(w, l)
    PROVE  ~Lists(w)
<1>1. CASE Quiet(w) \/ ReplaceGrants(w) \/ ConsumeCode(w)
    <2>1. PICK what \in {"granted", "orgs", "role", "admin", "seat", "member", "count", "owned", "delete",
                         "page", "key", "token", "grants", "account", "quota", "read", "code", "replace",
                         "consume"} : At(w, what)
        BY <1>1 DEF Quiet, ListGranted, ListOrgs, Answer, CheckMember, CountKeys, FindOwned, DeleteRows,
                    Serve, FindCredential, FindKey, FindToken, FindGrants, FindAccount, CheckQuota, Read,
                    ReadNothing, FindCode, ReplaceGrants, ConsumeCode
    <2> QED
        BY <2>1 DEF Lists, At
<1>2. CASE ~(Quiet(w) \/ ReplaceGrants(w) \/ ConsumeCode(w))
    <2>1. IsIdle(w)
        BY <1>2 DEF CreateKey, EditKey, DeleteKey, ReadByKey, ReadByToken, Exchange, AskListing, AskPage,
                    RecordPage, Start
    <2> QED
        BY <2>1 DEF Lists, At
<1> QED
    BY <1>1, <1>2

\* Every step is one of these.
LEMMA NextCases ==
    ASSUME TasksWell, Tables, Next
    PROVE  /\ Observe
           /\ \/ \E w \in Workers : Turns(w)
              \/ \E w \in Workers : KeyStep(w)
              \/ \E s \in Servers : ServerStep(s)
              \/ \E w \in Workers : Break(w)
              \/ World
<1>1. Observe
    BY DEF Next
<1>w. Servers \subseteq Workers /\ Threads \subseteq Workers
    BY DEF Workers
<1>2. CASE \E w \in Workers :
        \/ ListGranted(w) \/ ListOrgs(w) \/ Answer(w)
        \/ \E k \in Keys, g \in Offers :
            \/ \E a \in Accounts : CreateKey(w, k, g, a)
            \/ EditKey(w, k, g) \/ PatchKey(w, k, g)
        \/ \E k \in Keys : DeleteKey(w, k) \/ DeleteOtherKey(w, k)
        \/ CheckMember(w) \/ CountKeys(w) \/ InsertKey(w) \/ FindOwned(w) \/ DeleteRows(w)
        \/ ReplaceGrants(w) \/ DropKey(w) \/ Serve(w) \/ Break(w)
    <2>1. PICK w \in Workers :
        \/ ListGranted(w) \/ ListOrgs(w) \/ Answer(w)
        \/ \E k \in Keys, g \in Offers :
            \/ \E a \in Accounts : CreateKey(w, k, g, a)
            \/ EditKey(w, k, g) \/ PatchKey(w, k, g)
        \/ \E k \in Keys : DeleteKey(w, k) \/ DeleteOtherKey(w, k)
        \/ CheckMember(w) \/ CountKeys(w) \/ InsertKey(w) \/ FindOwned(w) \/ DeleteRows(w)
        \/ ReplaceGrants(w) \/ DropKey(w) \/ Serve(w) \/ Break(w)
        BY <1>2
    <2>2. CASE \/ ListGranted(w) \/ ListOrgs(w) \/ Answer(w) \/ CheckMember(w) \/ CountKeys(w)
               \/ FindOwned(w) \/ DeleteRows(w) \/ Serve(w)
        <3>1. Quiet(w)
            BY <2>2, Zenon DEF Quiet
        <3>2. UNCHANGED count /\ \E u \in Task : Turn(w, u)
            BY <3>1, QuietTurns
        <3>3. ~Lists(w)
            BY <3>1, ListsOnly
        <3> QED
            BY <1>1, <3>2, <3>3, Zenon DEF Turns
    <2>3. CASE \/ \E k \in Keys, g \in Offers :
                    \/ \E a \in Accounts : CreateKey(w, k, g, a)
                    \/ EditKey(w, k, g) \/ PatchKey(w, k, g)
               \/ \E k \in Keys : DeleteKey(w, k) \/ DeleteOtherKey(w, k)
        <3>1. \/ \E k \in Keys, g \in Offers, a \in Accounts : CreateKey(w, k, g, a)
              \/ \E k \in Keys, g \in Offers : EditKey(w, k, g)
              \/ \E k \in Keys : DeleteKey(w, k)
            BY <2>3, Zenon DEF PatchKey, DeleteOtherKey
        <3>2. Event /\ \E u \in Task : Turn(w, u)
            BY <3>1, StartsTurn
        <3>3. ~Lists(w)
            BY <3>1, ListsOnly
        <3> QED
            BY <1>1, <3>2, <3>3, Zenon DEF Turns
    <2>4. CASE ReplaceGrants(w)
        <3>1. CASE Replaced(w)
            BY <1>1, <3>1, Zenon DEF KeyStep
        <3>2. CASE Fail(w) /\ Still
            <4>1. UNCHANGED count /\ \E u \in Task : Turn(w, u)
                BY <3>2, FailTurns
            <4>2. ~Lists(w)
                BY <2>4, ListsOnly
            <4> QED
                BY <1>1, <4>1, <4>2, Zenon DEF Turns
        <3> QED
            BY <2>4, <3>1, <3>2, ReplaceSplits
    <2>5. CASE InsertKey(w) \/ DropKey(w)
        BY <1>1, <2>5, Zenon DEF KeyStep
    <2>6. CASE Break(w)
        BY <1>1, <2>6, Zenon
    <2> QED
        BY <2>1, <2>2, <2>3, <2>4, <2>5, <2>6, Zenon
<1>3. CASE \E t \in Threads :
        \/ AskListing(t)
        \/ \E l \in Team :
            \/ LibraryPage(t, l) \/ LibraryApi(t, l) \/ StoragePage(t, l) \/ SettingsPage(t, l)
            \/ GrantsPage(t, l) \/ RecordsPage(t, l) \/ RecordPage(t, l)
    <2>1. PICK t \in Workers :
        \/ AskListing(t)
        \/ \E l \in Team :
            \/ LibraryPage(t, l) \/ LibraryApi(t, l) \/ StoragePage(t, l) \/ SettingsPage(t, l)
            \/ GrantsPage(t, l) \/ RecordsPage(t, l) \/ RecordPage(t, l)
        BY <1>3, <1>w
    <2>2. "read" \in Rights /\ "maintain" \in Rights
        BY DEF Rights
    <2>3. \/ AskListing(t)
          \/ \E l \in Team, right \in Rights : AskPage(t, l, right)
          \/ \E l \in Team : RecordPage(t, l)
        BY <2>1, <2>2, Zenon DEF LibraryPage, LibraryApi, StoragePage, SettingsPage, GrantsPage, RecordsPage
    <2>4. Event /\ \E u \in Task : Turn(t, u)
        BY <2>3, StartsTurn
    <2>5. ~Lists(t)
        BY <2>3, ListsOnly
    <2> QED
        BY <1>1, <2>4, <2>5, Zenon DEF Turns
<1>4. CASE \E s \in Servers :
        \/ ToolCall(s) \/ FindCredential(s) \/ FindGrants(s) \/ \E c \in Codes : Exchange(s, c)
        \/ FindAccount(s) \/ CheckQuota(s) \/ Read(s) \/ ReadNothing(s) \/ Meter(s) \/ Buffer(s)
        \/ Flush(s) \/ StoreEvents(s) \/ FindCode(s) \/ ConsumeCode(s) \/ MintToken(s) \/ Die(s)
    <2>1. PICK s \in Servers :
        \/ ToolCall(s) \/ FindCredential(s) \/ FindGrants(s) \/ \E c \in Codes : Exchange(s, c)
        \/ FindAccount(s) \/ CheckQuota(s) \/ Read(s) \/ ReadNothing(s) \/ Meter(s) \/ Buffer(s)
        \/ Flush(s) \/ StoreEvents(s) \/ FindCode(s) \/ ConsumeCode(s) \/ MintToken(s) \/ Die(s)
        BY <1>4
    <2>w. s \in Workers
        BY <1>w
    <2>2. CASE \/ FindCredential(s) \/ FindGrants(s) \/ FindAccount(s) \/ CheckQuota(s) \/ Read(s)
               \/ ReadNothing(s) \/ FindCode(s)
        <3>1. Quiet(s)
            BY <2>2, Zenon DEF Quiet
        <3>2. UNCHANGED count /\ \E u \in Task : Turn(s, u)
            BY <2>w, <3>1, QuietTurns
        <3>3. ~Lists(s)
            BY <3>1, ListsOnly
        <3> QED
            BY <1>1, <2>w, <3>2, <3>3, Zenon DEF Turns
    <2>3. CASE ToolCall(s) \/ \E c \in Codes : Exchange(s, c)
        <3>1. \/ \E k \in Keys : ReadByKey(s, k)
              \/ \E c \in Codes : ReadByToken(s, c)
              \/ \E c \in Codes : Exchange(s, c)
            BY <2>3, Zenon DEF ToolCall
        <3>2. Event /\ \E u \in Task : Turn(s, u)
            BY <2>w, <3>1, StartsTurn
        <3>3. ~Lists(s)
            BY <3>1, ListsOnly
        <3> QED
            BY <1>1, <2>w, <3>2, <3>3, Zenon DEF Turns
    <2>4. CASE ConsumeCode(s)
        <3>1. CASE Consumed(s)
            BY <1>1, <3>1, Zenon DEF ServerStep
        <3>2. CASE Fail(s) /\ Still
            <4>1. UNCHANGED count /\ \E u \in Task : Turn(s, u)
                BY <2>w, <3>2, FailTurns
            <4>2. ~Lists(s)
                BY <2>4, ListsOnly
            <4> QED
                BY <1>1, <2>w, <4>1, <4>2, Zenon DEF Turns
        <3> QED
            BY <2>4, <2>w, <3>1, <3>2, ConsumeSplits
    <2>5. CASE Meter(s) \/ Buffer(s) \/ Flush(s) \/ StoreEvents(s) \/ MintToken(s) \/ Die(s)
        BY <1>1, <2>5, Zenon DEF ServerStep
    <2> QED
        BY <2>1, <2>2, <2>3, <2>4, <2>5, Zenon
<1>5. CASE World
    BY <1>1, <1>5
<1> QED
    BY <1>1, <1>2, <1>3, <1>4, <1>5, Zenon DEF Next, World

-----------------------------------------------------------------------------
(* Types.                                                                  *)

LEMMA WordKind ==
    ASSUME NEW t, Well(t)
    PROVE  /\ \A what \in {"insert", "replace", "drop", "delete", "owned"} : First(t, what) => t.kind = "keys"
           /\ \A what \in {"code", "consume", "mint"} : First(t, what) => t.kind = "exchange"
           /\ \A what \in {"key", "grants"} : First(t, what) => t.kind = "key"
           /\ \A what \in MeterWords : First(t, what) => t.kind \in {"key", "token"}
           /\ First(t, "store") => t.kind = "flush"
<1>1. ASSUME NEW what, First(t, what)
      PROVE  what \in WordsOf(t.kind) /\ t.kind \in Kinds
    <2>1. t.todo # <<>> /\ Head(t.todo).do = what
        BY <1>1 DEF First
    <2> QED
        BY <2>1, ShapeFacts DEF Well, Task, Kinds
<1>2. \A kind \in Kinds :
        /\ \A what \in {"insert", "replace", "drop", "delete", "owned"} : what \in WordsOf(kind) => kind = "keys"
        /\ \A what \in {"code", "consume", "mint"} : what \in WordsOf(kind) => kind = "exchange"
        /\ \A what \in {"key", "grants"} : what \in WordsOf(kind) => kind = "key"
        /\ \A what \in MeterWords : what \in WordsOf(kind) => kind \in {"key", "token"}
        /\ "store" \in WordsOf(kind) => kind = "flush"
    BY DEF Kinds, WordsOf, MeterWords, LookWords
<1> QED
    BY <1>1, <1>2, Zenon

\* A request for a key knows which, and with which grants.
LEMMA KeyNamed ==
    ASSUME NEW t, Well(t), Fit(t)
    PROVE  /\ \A what \in {"insert", "replace", "drop", "delete", "owned"} : First(t, what) => t.key \in Keys
           /\ \A what \in {"insert", "replace"} : First(t, what) => t.grants \in Offers
<1>1. \A what \in {"insert", "replace", "drop", "delete", "owned"} : First(t, what) => t.kind = "keys"
    BY WordKind
<1>2. t.kind = "keys" => t.key \in Keys
    BY DEF Fit
<1>3. ASSUME NEW what \in {"insert", "replace"}, First(t, what)
      PROVE  t.grants \in Offers
    <2>1. t.todo # <<>> /\ Head(t.todo).do = what
        BY <1>3 DEF First
    <2>2. Len(t.todo) > 0 /\ Len(t.todo) \in Nat /\ Head(t.todo) = t.todo[1]
        BY <2>1, ShapeFacts
    <2>3. 1 \in 1..Len(t.todo)
        BY <2>2
    <2> QED
        BY <1>1, <1>3, <2>1, <2>2, <2>3 DEF Fit
<1> QED
    BY <1>1, <1>2, <1>3

LEMMA MovedFits ==
    ASSUME NEW t, NEW u, Well(t), Fit(t), Moved(t, u)
    PROVE  Fit(u)
<1>1. PICK n \in 1..Len(t.todo) : IsRest(u.todo, t.todo, n)
    BY DEF Moved
<1>2. t.todo \in Seq(Asks) /\ Len(t.todo) \in Nat
    BY DEF Well, Shape
<1>3. u.todo \in Seq(Asks) /\ Len(u.todo) = Len(t.todo) - n
      /\ \A i \in 1..Len(u.todo) : u.todo[i] = t.todo[n+i]
    BY <1>1 DEF IsRest
<1>4. \A i \in 1..Len(u.todo) : n + i \in 1..Len(t.todo)
    BY <1>2, <1>3
<1> QED
    BY <1>3, <1>4 DEF Fit, Moved, Same

LEMMA IdleFits == Fit(Idle)
BY DEF Fit, Idle

AllFit == \A w \in Workers : Fit(task[w])

LEMMA UpdateWell ==
    ASSUME TasksWell, AllFit, NEW w \in Workers, NEW u, Well(u), Fit(u),
           task' = [task EXCEPT ![w] = u]
    PROVE  TasksWell' /\ AllFit'
<1>1. task \in [Workers -> Task] /\ \A v \in Workers : Well(task[v]) /\ Fit(task[v])
    BY DEF TasksWell, AllFit
<1>2. u \in Task
    BY DEF Well
<1>3. task' \in [Workers -> Task] /\ \A v \in Workers : task'[v] = IF v = w THEN u ELSE task[v]
    BY <1>1, <1>2
<1>4. \A v \in Workers : Well(task[v])'
    <2>1. \A v \in Workers : Well(task'[v])
        BY <1>1, <1>3
    <2> QED
        BY <2>1 DEF Well, First
<1>5. \A v \in Workers : Fit(task[v])'
    <2>1. \A v \in Workers : Fit(task'[v])
        BY <1>1, <1>3
    <2> QED
        BY <2>1 DEF Fit
<1> QED
    BY <1>3, <1>4, <1>5 DEF TasksWell, AllFit

LEMMA SameTasks ==
    ASSUME TasksWell, AllFit, UNCHANGED task
    PROVE  TasksWell' /\ AllFit'
BY DEF TasksWell, AllFit, Well, First, Fit

LEMMA FlushIsWell ==
    ASSUME NEW t, t = [Idle EXCEPT !.kind = "flush", !.todo = Plain(<<"store">>)]
    PROVE  Well(t) /\ Fit(t) /\ t \in Task /\ t.kind = "flush" /\ \A what \in Chained : ~First(t, what)
<1>1. PICK s : s = Plain(<<"store">>)
    OBVIOUS
<1>2. s \in Plans("flush")
    BY <1>1, PlanSets, Zenon
<1>3. "flush" \in Kinds
    BY DEF Kinds
<1>4. s \in Seq(Asks)
    BY <1>2, <1>3, AllPlans DEF IsPlan
<1>5. t = [Idle EXCEPT !.kind = "flush", !.todo = s] /\ Idle \in Task
    BY <1>1, IdleIsWell DEF Well
<1>6. t \in Task /\ t.kind = "flush" /\ t.todo = s
    BY <1>4, <1>5 DEF Task
<1>7. Well(t) /\ \A what \in Chained : ~First(t, what)
    BY <1>2, <1>3, <1>6, FreshIsWell
<1> QED
    BY <1>6, <1>7 DEF Fit

LEMMA OnwardFits ==
    ASSUME TasksWell, AllFit, NEW w \in Workers, NEW u \in Task, Onward(w, u)
    PROVE  TasksWell' /\ AllFit'
<1>1. Well(task[w]) /\ Fit(task[w])
    BY DEF TasksWell, AllFit
<1>2. Well(u) /\ task' = [task EXCEPT ![w] = u] /\ (u = Idle \/ Moved(task[w], u))
    BY DEF Onward
<1>3. Fit(u)
    BY <1>1, <1>2, IdleFits, MovedFits
<1> QED
    BY <1>2, <1>3, UpdateWell

LEMMA TurnFits ==
    ASSUME TasksWell, AllFit, NEW w \in Workers, NEW u \in Task, Turn(w, u)
    PROVE  TasksWell' /\ AllFit'
<1>1. Well(task[w]) /\ Fit(task[w])
    BY DEF TasksWell, AllFit
<1>2. Well(u) /\ task' = [task EXCEPT ![w] = u] /\ (u = Idle \/ Moved(task[w], u) \/ Asked(u))
    BY DEF Turn, Kept
<1>3. Fit(u)
    BY <1>1, <1>2, IdleFits, MovedFits DEF Asked
<1> QED
    BY <1>2, <1>3, UpdateWell

LEMMA CommitFits ==
    ASSUME TasksWell, AllFit, NEW w \in Workers, Committed(w, Idle)
    PROVE  TasksWell' /\ AllFit'
<1>1. TasksWell' /\ task'[w] = Idle
    BY CommitTakes
<1>2. \A v \in Workers \ {w} : Same(task[v], task'[v]) /\ task'[v].todo = task[v].todo
    BY CommitTakes
<1>3. \A v \in Workers : Fit(task'[v])
    BY <1>1, <1>2, IdleFits DEF AllFit, Fit, Same
<1>4. AllFit'
    BY <1>3 DEF AllFit, Fit
<1> QED
    BY <1>1, <1>4

\* Counters stay within their bounds.
InBounds == asked \in 0..MaxEvents /\ troubles \in 0..MaxTroubles

LEMMA CountsInBounds ==
    ASSUME InBounds, UNCHANGED count \/ Event \/ Trouble
    PROVE  InBounds'
BY AccessAssumption DEF InBounds, count, Event, Trouble

LEMMA StillTables ==
    ASSUME Tables, Still
    PROVE  Tables'
BY DEF Tables, Still, access, keyring, oauth, usage

Typed == Tables /\ TasksWell /\ AllFit /\ InBounds

LEMMA TurnTyped ==
    ASSUME Typed, NEW w \in Workers, Turns(w)
    PROVE  Typed'
<1>1. PICK u \in Task : Turn(w, u)
    BY DEF Turns
<1>2. Still /\ (UNCHANGED count \/ Event)
    BY <1>1 DEF Turn, Turns
<1> QED
    BY <1>1, <1>2, TurnFits, StillTables, CountsInBounds DEF Typed

LEMMA OverwriteType ==
    ASSUME NEW old \in KeyGrants, NEW new \in KeyGrants
    PROVE  Overwrite(old, new) \in KeyGrants
BY DEF Overwrite, KeyGrants

LEMMA InsertTyped ==
    ASSUME Typed, NEW w \in Workers, InsertKey(w)
    PROVE  Typed'
<1>1. PICK t : t = task[w]
    OBVIOUS
<1>2. t \in Task /\ Well(t) /\ Fit(t) /\ First(t, "insert")
    BY <1>1, IdleIsEmpty DEF Typed, AllFit, InsertKey
<1>3. t.key \in Keys /\ t.grants \in Offers /\ t.account \in Accounts
    BY <1>2, KeyNamed DEF Task
<1>4. t.grants \in KeyGrants
    BY <1>3, AccessAssumption
<1>5. /\ keys' = keys \cup {t.key} /\ payer' = [payer EXCEPT ![t.key] = t.account]
      /\ keyGrants' = [keyGrants EXCEPT ![t.key] = t.grants]
      /\ wanted' = [wanted EXCEPT ![t.key] = @ \cup {t.grants}]
      /\ UNCHANGED <<access, oauth, usage>>
    BY <1>1 DEF InsertKey
<1>6. IsFiniteSet(keys')
    BY <1>5, FS_AddElement DEF Typed, Tables
<1>7. Tables'
    <2>1. keys' \subseteq Keys /\ payer' \in [Keys -> Accounts]
        BY <1>3, <1>5 DEF Typed, Tables
    <2>2. keyGrants' \in [Keys -> KeyGrants]
        BY <1>3, <1>4, <1>5 DEF Typed, Tables
    <2>3. wanted' \in [Keys -> SUBSET Offers]
        BY <1>3, <1>5 DEF Typed, Tables
    <2> QED
        BY <1>5, <1>6, <2>1, <2>2, <2>3 DEF Typed, Tables, access, oauth, usage
<1>8. UNCHANGED count /\ task' = [task EXCEPT ![w] = Idle]
    BY InsertEnds DEF Typed
<1>9. TasksWell' /\ AllFit'
    BY <1>8, IdleIsWell, IdleFits, UpdateWell DEF Typed
<1> QED
    BY <1>7, <1>8, <1>9, CountsInBounds DEF Typed

LEMMA ReplacedTyped ==
    ASSUME Typed, NEW w \in Workers, Replaced(w)
    PROVE  Typed'
<1>1. PICK t : t = task[w]
    OBVIOUS
<1>2. t \in Task /\ Well(t) /\ Fit(t) /\ First(t, "replace")
    BY <1>1, IdleIsEmpty DEF Typed, AllFit, Replaced
<1>3. t.key \in Keys /\ t.grants \in Offers
    BY <1>2, KeyNamed
<1>4. t.grants \in KeyGrants /\ NoGrants \in KeyGrants
    BY <1>3, AccessAssumption DEF NoGrants, KeyGrants
<1>5. PICK left : left = IF t.stale THEN keyGrants[t.key] ELSE NoGrants
    OBVIOUS
<1>6. /\ keyGrants' = [keyGrants EXCEPT ![t.key] = Overwrite(left, t.grants)]
      /\ wanted' = [wanted EXCEPT ![t.key] = @ \cup {t.grants}]
      /\ UNCHANGED <<access, keys, payer, oauth, usage, count>> /\ Committed(w, Idle)
    BY <1>1, <1>5 DEF Replaced
<1>7. left \in KeyGrants
    BY <1>3, <1>4, <1>5 DEF Typed, Tables
<1>8. Overwrite(left, t.grants) \in KeyGrants
    BY <1>4, <1>7, OverwriteType
<1>9. Tables'
    <2>1. keyGrants' \in [Keys -> KeyGrants]
        BY <1>3, <1>6, <1>8 DEF Typed, Tables
    <2>2. wanted' \in [Keys -> SUBSET Offers]
        BY <1>3, <1>6 DEF Typed, Tables
    <2> QED
        BY <1>6, <2>1, <2>2 DEF Typed, Tables, access, oauth, usage
<1>10. TasksWell' /\ AllFit'
    BY <1>6, CommitFits DEF Typed
<1> QED
    BY <1>6, <1>9, <1>10, CountsInBounds DEF Typed

LEMMA DropTyped ==
    ASSUME Typed, NEW w \in Workers, DropKey(w)
    PROVE  Typed'
<1>1. PICK t : t = task[w]
    OBVIOUS
<1>2. t \in Task /\ Well(t) /\ Fit(t) /\ First(t, "drop")
    BY <1>1, IdleIsEmpty DEF Typed, AllFit, DropKey
<1>3. t.key \in Keys
    BY <1>2, KeyNamed
<1>4. /\ keys' = keys \ {t.key}
      /\ keyGrants' = [keyGrants EXCEPT ![t.key] = IF t.stale THEN keyGrants[t.key] ELSE NoGrants]
      /\ UNCHANGED <<access, payer, wanted, oauth, usage, count>> /\ Committed(w, Idle)
    BY <1>1 DEF DropKey
<1>5. Tables'
    <2>1. NoGrants \in KeyGrants
        BY DEF NoGrants, KeyGrants
    <2>2. keyGrants' \in [Keys -> KeyGrants]
        BY <1>3, <1>4, <2>1 DEF Typed, Tables
    <2>3. IsFiniteSet(keys')
        BY <1>4, FS_RemoveElement DEF Typed, Tables
    <2> QED
        BY <1>4, <2>2, <2>3 DEF Typed, Tables, access, oauth, usage
<1>6. TasksWell' /\ AllFit'
    BY <1>4, CommitFits DEF Typed
<1> QED
    BY <1>4, <1>5, <1>6, CountsInBounds DEF Typed

\* What a server's steps do to its own request.
LEMMA ServerTakes ==
    ASSUME TasksWell, NEW s \in Servers,
           Consumed(s) \/ MintToken(s) \/ Meter(s) \/ Buffer(s) \/ StoreEvents(s)
    PROVE  UNCHANGED count /\ \E u \in Task : Onward(s, u)
<1>1. s \in Workers /\ Advance(s)
    BY DEF Workers, Consumed, MintToken, Meter, Buffer, StoreEvents
<1>2. ~IsIdle(s) /\ ~At(s, "read")
    BY DEF Consumed, MintToken, Meter, Buffer, StoreEvents, At
<1> QED
    BY <1>1, <1>2, AdvanceOnward

LEMMA ServerTyped ==
    ASSUME Typed, NEW s \in Servers, ServerStep(s)
    PROVE  Typed'
<1>1. PICK t : t = task[s]
    OBVIOUS
<1>2. s \in Workers /\ t \in Task /\ t.code \in Codes /\ t.account \in Accounts /\ t.cost \in Nat
    BY <1>1, IdleIsEmpty DEF Typed, Workers, Task
<1>3. CASE Consumed(s) \/ MintToken(s) \/ Meter(s) \/ Buffer(s) \/ StoreEvents(s)
    <2>1. UNCHANGED count /\ \E u \in Task : Onward(s, u)
        BY <1>3, ServerTakes DEF Typed
    <2>2. TasksWell' /\ AllFit'
        BY <1>2, <2>1, OnwardFits DEF Typed
    <2>3. CASE Consumed(s)
        <3>1. codes' = [codes EXCEPT ![t.code] = "consumed"]
              /\ UNCHANGED <<access, keyring, tokens, live, usage>>
            BY <1>1, <2>3 DEF Consumed
        <3> QED
            BY <1>2, <2>1, <2>2, <3>1, CountsInBounds DEF Typed, Tables, access, keyring, usage
    <2>4. CASE MintToken(s)
        <3>1. tokens' = [tokens EXCEPT ![t.code] = @ + 1] /\ live' = live \cup {t.code}
              /\ UNCHANGED <<access, keyring, codes, usage>>
            BY <1>1, <2>4 DEF MintToken, StoreToken
        <3>2. tokens' \in [Codes -> Nat] /\ live' \subseteq Codes
            BY <1>2, <3>1 DEF Typed, Tables
        <3> QED
            BY <2>1, <2>2, <3>1, <3>2, CountsInBounds DEF Typed, Tables, access, keyring, usage
    <2>5. CASE Meter(s)
        <3>1. units' = [units EXCEPT ![t.account][month] = @ + t.cost]
              /\ UNCHANGED <<access, keyring, oauth, buffer, hand, events, month>>
            BY <1>1, <2>5 DEF Meter
        <3>3. PICK f \in [1..MaxMonths -> Nat], n \in Nat : f = units[t.account] /\ n = t.cost
            BY <1>2 DEF Typed, Tables
        <3>4. PICK row : row = [f EXCEPT ![month] = f[month] + n]
            OBVIOUS
        <3>7. month \in 1..MaxMonths
            BY DEF Typed, Tables
        <3>8. PICK x \in Nat : x = f[month] + n
            BY <3>7
        <3>5. row \in [1..MaxMonths -> Nat]
            BY <3>4, <3>8
        <3>6. units' = [units EXCEPT ![t.account] = row]
            BY <3>1, <3>3, <3>4
        <3>2. units' \in [Accounts -> [1..MaxMonths -> Nat]]
            BY <1>2, <3>5, <3>6 DEF Typed, Tables
        <3> QED
            BY <2>1, <2>2, <3>1, <3>2, CountsInBounds DEF Typed, Tables, access, keyring, oauth
    <2>6. CASE Buffer(s)
        <3>1. buffer' = [buffer EXCEPT ![s] = @ + t.cost]
              /\ UNCHANGED <<access, keyring, oauth, units, hand, events, month>>
            BY <1>1, <2>6 DEF Buffer
        <3>2. buffer' \in [Servers -> Nat]
            BY <1>2, <3>1 DEF Typed, Tables
        <3> QED
            BY <2>1, <2>2, <3>1, <3>2, CountsInBounds DEF Typed, Tables, access, keyring, oauth
    <2>7. CASE StoreEvents(s)
        <3>1. events' = events + hand[s] /\ hand' = [hand EXCEPT ![s] = 0]
              /\ UNCHANGED <<access, keyring, oauth, units, buffer, month>>
            BY <2>7 DEF StoreEvents
        <3>2. events' \in Nat /\ hand' \in [Servers -> Nat]
            BY <3>1 DEF Typed, Tables
        <3> QED
            BY <2>1, <2>2, <3>1, <3>2, CountsInBounds DEF Typed, Tables, access, keyring, oauth
    <2> QED
        BY <1>3, <2>3, <2>4, <2>5, <2>6, <2>7
<1>4. CASE Flush(s)
    <2>1. PICK u : u = [Idle EXCEPT !.kind = "flush", !.todo = Plain(<<"store">>)]
        OBVIOUS
    <2>2. /\ task' = [task EXCEPT ![s] = u] /\ hand' = [hand EXCEPT ![s] = buffer[s]]
          /\ buffer' = [buffer EXCEPT ![s] = 0]
          /\ UNCHANGED <<access, keyring, oauth, units, events, month, count>>
        BY <1>4, <2>1 DEF Flush
    <2>3. TasksWell' /\ AllFit'
        BY <1>2, <2>1, <2>2, FlushIsWell, UpdateWell DEF Typed
    <2>4. hand' \in [Servers -> Nat] /\ buffer' \in [Servers -> Nat]
        BY <2>2 DEF Typed, Tables
    <2> QED
        BY <2>2, <2>3, <2>4, CountsInBounds DEF Typed, Tables, access, keyring, oauth
<1>5. CASE Die(s)
    <2>1. /\ task' = [task EXCEPT ![s] = Idle] /\ Trouble
          /\ hand' = [hand EXCEPT ![s] = 0] /\ buffer' = [buffer EXCEPT ![s] = 0]
          /\ UNCHANGED <<access, keyring, oauth, units, events, month>>
        BY <1>5 DEF Die
    <2>2. TasksWell' /\ AllFit'
        BY <1>2, <2>1, IdleIsWell, IdleFits, UpdateWell DEF Typed
    <2>3. hand' \in [Servers -> Nat] /\ buffer' \in [Servers -> Nat]
        BY <2>1 DEF Typed, Tables
    <2> QED
        BY <2>1, <2>2, <2>3, CountsInBounds DEF Typed, Tables, access, keyring, oauth
<1> QED
    BY <1>3, <1>4, <1>5 DEF ServerStep

LEMMA BreakTyped ==
    ASSUME Typed, NEW w \in Workers, Break(w)
    PROVE  Typed'
<1>1. /\ task' = [task EXCEPT ![w] = Idle] /\ Trouble
      /\ hand' = IF w \in Servers THEN [hand EXCEPT ![w] = 0] ELSE hand
      /\ UNCHANGED <<access, keyring, oauth, units, buffer, events, month>>
    BY DEF Break
<1>2. TasksWell' /\ AllFit'
    BY <1>1, IdleIsWell, IdleFits, UpdateWell DEF Typed
<1>3. hand' \in [Servers -> Nat]
    BY <1>1 DEF Typed, Tables
<1> QED
    BY <1>1, <1>2, <1>3, CountsInBounds DEF Typed, Tables, access, keyring, oauth

LEMMA WorldTyped ==
    ASSUME Typed, World
    PROVE  Typed' /\ UNCHANGED task /\ Event
<1>1. UNCHANGED task /\ Event
    BY DEF World, Authorize, ExpireToken, SetSeat, SetGrant, GrantForm, NextMonth
<1>2. TasksWell' /\ AllFit' /\ InBounds'
    BY <1>1, SameTasks, CountsInBounds DEF Typed
<1>3. CASE \E c \in Codes : Authorize(c) \/ ExpireToken(c)
    <2>1. /\ codes' \in [Codes -> {"none", "issued", "consumed"}] /\ live' \subseteq Codes
          /\ UNCHANGED <<access, keyring, tokens, usage>>
        BY <1>3 DEF Authorize, IssueCode, StoreCode, ExpireToken, Typed, Tables
    <2> QED
        BY <1>1, <1>2, <2>1 DEF Typed, Tables, access, keyring, usage
<1>4. CASE \E s \in {"removed", "member", "admin"} : SetSeat(s)
    <2>1. seat' \in {"removed", "member", "admin"} /\ UNCHANGED <<grant, keyring, oauth, usage>>
        BY <1>4 DEF SetSeat
    <2> QED
        BY <1>1, <1>2, <2>1 DEF Typed, Tables, oauth, keyring, usage
<1>5. CASE \E l \in Team, role \in {"none", "reader", "writer", "maintainer"} : SetGrant(l, role)
    <2>1. /\ grant' \in [Team -> {"none", "reader", "writer", "maintainer"}]
          /\ UNCHANGED <<seat, keyring, oauth, usage>>
        BY <1>5 DEF SetGrant, StoreGrant, Typed, Tables
    <2> QED
        BY <1>1, <1>2, <2>1 DEF Typed, Tables, oauth, keyring, usage
<1>6. CASE NextMonth
    <2>1. /\ month' \in 1..MaxMonths
          /\ UNCHANGED <<access, keyring, oauth, units, buffer, hand, events>>
        BY <1>6, AccessAssumption DEF NextMonth, Typed, Tables
    <2> QED
        BY <1>1, <1>2, <2>1 DEF Typed, Tables, access, oauth, keyring
<1> QED
    BY <1>3, <1>4, <1>5, <1>6 DEF World

LEMMA InitTyped ==
    ASSUME Init
    PROVE  Typed
<1>1. PICK g \in Offers :
        /\ keyGrants = [k \in Keys |-> IF k = FirstKey THEN g ELSE NoGrants]
        /\ wanted = [k \in Keys |-> IF k = FirstKey THEN {g} ELSE {}]
    BY DEF Init
<1>2. g \in KeyGrants /\ NoGrants \in KeyGrants
    BY AccessAssumption DEF NoGrants, KeyGrants
<1>3. keyGrants \in [Keys -> KeyGrants] /\ wanted \in [Keys -> SUBSET Offers]
    BY <1>1, <1>2
<1>4. keys = {FirstKey} /\ IsFiniteSet(keys) /\ FirstKey \in Keys
    BY FS_Singleton, AccessAssumption DEF Init
<1>5. /\ seat = "removed" /\ grant = [l \in Team |-> "none"] /\ payer = [k \in Keys |-> "own"]
      /\ codes = [c \in Codes |-> IF c = OldCode THEN "consumed" ELSE "none"]
      /\ tokens = [c \in Codes |-> IF c = OldCode THEN 1 ELSE 0] /\ live = {OldCode}
      /\ units = [a \in Accounts |-> [m \in 1..MaxMonths |-> 0]]
      /\ buffer = [s \in Servers |-> 0] /\ hand = [s \in Servers |-> 0] /\ events = 0
      /\ month = 1 /\ task = [w \in Workers |-> Idle] /\ asked = 0 /\ troubles = 0
    BY DEF Init
<1>6. MaxMonths \in Nat \ {0} /\ OldCode \in Codes /\ MaxEvents \in Nat /\ MaxTroubles \in Nat
    BY AccessAssumption
<1>7. Tables
    BY <1>3, <1>4, <1>5, <1>6 DEF Tables, Accounts
<1>8. Well(Idle) /\ Fit(Idle) /\ Idle \in Task
    BY IdleIsWell, IdleFits DEF Well
<1>9. TasksWell /\ AllFit
    BY <1>5, <1>8 DEF TasksWell, AllFit
<1>10. InBounds
    BY <1>5, <1>6 DEF InBounds
<1> QED
    BY <1>7, <1>9, <1>10 DEF Typed

LEMMA NextTyped ==
    ASSUME Typed, [Next]_vars
    PROVE  Typed'
<1>1. CASE Next
    <2>1. \/ \E w \in Workers : Turns(w)
          \/ \E w \in Workers : KeyStep(w)
          \/ \E s \in Servers : ServerStep(s)
          \/ \E w \in Workers : Break(w)
          \/ World
        BY <1>1, NextCases DEF Typed
    <2> QED
        BY <2>1, TurnTyped, InsertTyped, ReplacedTyped, DropTyped, ServerTyped, BreakTyped, WorldTyped
        DEF KeyStep
<1>2. CASE UNCHANGED vars
    <2>1. UNCHANGED task /\ Still /\ UNCHANGED count
        BY <1>2 DEF vars, Still
    <2> QED
        BY <2>1, SameTasks, StillTables, CountsInBounds DEF Typed
<1> QED
    BY <1>1, <1>2

LEMMA TypedIsTypeOK ==
    ASSUME Typed
    PROVE  TypeOK
<1>1. ASSUME NEW w \in Workers
      PROVE  (IsIdle(w) => task[w] = Idle) /\ (At(w, "meter") => task[w].cost > 0)
    <2>1. IsIdle(w) => task[w] = Idle
        BY IdleIsEmpty DEF Typed
    <2>2. At(w, "meter") => task[w].cost \in Costs
        BY IdleIsEmpty DEF Typed, Well
    <2>3. \A n \in Costs : n > 0
        BY CostsType
    <2> QED
        BY <2>1, <2>2, <2>3
<1> QED
    BY <1>1 DEF Typed, Tables, TasksWell, InBounds, TypeOK

\* TypeOK, the run's type invariant, in every reachable state: the tables of access, keys,
\* tokens and usage keep their types, a worker without steps is idle, and a read that is
\* metered costs at least one unit.
THEOREM AccessTypes == Spec => []TypeOK
<1>1. Init => Typed
    BY InitTyped
<1>2. Typed /\ [Next]_vars => Typed'
    BY NextTyped
<1>3. Typed => TypeOK
    BY TypedIsTypeOK
<1> QED
    BY <1>1, <1>2, <1>3, PTL DEF Spec

-----------------------------------------------------------------------------
(* How a request comes to a step.                                          *)

\* As before, but for what a commit tells it.
Stays(v) ==
    /\ Same(task[v], task'[v]) /\ task'[v].todo = task[v].todo /\ task'[v].have = task[v].have
    /\ task'[v].waits = task[v].waits /\ task'[v].account = task[v].account
    /\ task'[v].cost = task[v].cost

\* A step in a chain is reached from the one before.
Reaches(v, what) ==
    /\ First(task[v], Before(what)) /\ Moved(task[v], task'[v])
    /\ Turn(v, task'[v]) /\ Kept(v, task'[v])

LEMMA Unchanged ==
    ASSUME TasksWell, NEW w \in Workers, NEW u, task' = [task EXCEPT ![w] = u]
    PROVE  /\ task'[w] = u
           /\ \A v \in Workers \ {w} : task'[v] = task[v] /\ Stays(v)
           /\ \A v \in Workers : task'[v] = IF v = w THEN u ELSE task[v]
BY DEF TasksWell, Stays, Same

LEMMA TurnArrives ==
    ASSUME TasksWell, NEW w \in Workers, NEW u \in Task, Turn(w, u)
    PROVE  \A v \in Workers, what \in Chained :
                First(task'[v], what) => (First(task[v], what) /\ Stays(v)) \/ Reaches(v, what)
<1>1. task' = [task EXCEPT ![w] = u]
    BY DEF Turn
<1>2. task'[w] = u /\ \A v \in Workers \ {w} : task'[v] = task[v] /\ Stays(v)
    BY <1>1, Unchanged
<1>3. ASSUME NEW what \in Chained, First(u, what)
      PROVE  Reaches(w, what)
    <2>1. u # Idle
        BY <1>3 DEF First, Idle
    <2>2. ~Asked(u)
        BY <1>3, FreshIsWell DEF Asked
    <2>3. Kept(w, u)
        BY <2>1, <2>2 DEF Turn
    <2>4. Moved(task[w], u)
        BY <2>3 DEF Kept
    <2>5. First(task[w], Before(what))
        BY <1>3, <2>4 DEF Moved
    <2> QED
        BY <1>2, <2>3, <2>4, <2>5 DEF Reaches
<1> QED
    BY <1>2, <1>3

LEMMA OnwardArrives ==
    ASSUME TasksWell, NEW w \in Workers, NEW u \in Task, Onward(w, u)
    PROVE  \A v \in Workers, what \in Chained :
                First(task'[v], what) =>
                    \/ First(task[v], what) /\ Stays(v)
                    \/ v = w /\ First(task[v], Before(what)) /\ Moved(task[v], task'[v])
<1>1. task' = [task EXCEPT ![w] = u] /\ (u = Idle \/ Moved(task[w], u))
    BY DEF Onward
<1>2. task'[w] = u /\ \A v \in Workers \ {w} : task'[v] = task[v] /\ Stays(v)
    BY <1>1, Unchanged
<1>3. ASSUME NEW what \in Chained, First(u, what)
      PROVE  First(task[w], Before(what)) /\ Moved(task[w], u)
    <2>1. u # Idle
        BY <1>3 DEF First, Idle
    <2> QED
        BY <1>1, <1>3, <2>1 DEF Moved
<1> QED
    BY <1>2, <1>3

\* Any step that begins or ends a request.
LEMMA OverArrives ==
    ASSUME TasksWell, NEW w \in Workers, NEW u, \A what \in Chained : ~First(u, what),
           task' = [task EXCEPT ![w] = u]
    PROVE  \A v \in Workers, what \in Chained :
                First(task'[v], what) => First(task[v], what) /\ Stays(v) /\ task'[v] = task[v]
<1>1. task'[w] = u /\ \A v \in Workers \ {w} : task'[v] = task[v] /\ Stays(v)
    BY Unchanged
<1> QED
    BY <1>1

LEMMA IdleNowhere == \A what : ~First(Idle, what)
BY DEF First, Idle

LEMMA CommitArrives ==
    ASSUME TasksWell, NEW w \in Workers, Committed(w, Idle)
    PROVE  \A v \in Workers, what \in Chained :
                First(task'[v], what) => First(task[v], what) /\ Stays(v)
<1>1. task'[w] = Idle
    BY CommitTakes
<1>2. \A v \in Workers \ {w} :
        /\ Same(task[v], task'[v]) /\ task'[v].todo = task[v].todo
        /\ task'[v].have = task[v].have /\ task'[v].waits = task[v].waits
        /\ task'[v].account = task[v].account /\ task'[v].cost = task[v].cost
    BY CommitTakes
<1> QED
    BY <1>1, <1>2, IdleNowhere DEF Stays, First

\* A server's step leads nowhere in a chain but from the code to its token, and from the
\* counter to the list of events.
LEMMA ServerArrives ==
    ASSUME TasksWell, NEW s \in Servers, ServerStep(s)
    PROVE  \A v \in Workers, what \in Chained :
                First(task'[v], what) =>
                    \/ First(task[v], what) /\ Stays(v)
                    \/ /\ v = s /\ First(task[v], Before(what)) /\ Moved(task[v], task'[v])
                       /\ (Consumed(s) /\ what = "mint") \/ (Meter(s) /\ what = "buffer")
<1>0. s \in Workers
    BY DEF Workers
<1>1. CASE Consumed(s) \/ MintToken(s) \/ Meter(s) \/ Buffer(s) \/ StoreEvents(s)
    <2>1. PICK u \in Task : Onward(s, u)
        BY <1>1, ServerTakes
    <2>2. /\ Consumed(s) => First(task[s], "consume")
          /\ MintToken(s) => First(task[s], "mint")
          /\ Meter(s) => First(task[s], "meter")
          /\ Buffer(s) => First(task[s], "buffer")
          /\ StoreEvents(s) => First(task[s], "store")
        BY <1>0, IdleIsEmpty DEF Consumed, MintToken, Meter, Buffer, StoreEvents
    <2>3. ASSUME NEW what \in Chained, First(task[s], Before(what))
          PROVE  (Consumed(s) /\ what = "mint") \/ (Meter(s) /\ what = "buffer")
        <3>1. Head(task[s].todo).do = Before(what)
            BY <2>3 DEF First
        <3>2. \A x : First(task[s], x) => x = Before(what)
            BY <3>1 DEF First
        <3>3. /\ Before(what) \notin {"mint", "buffer", "store"}
              /\ Before(what) = "consume" => what = "mint"
              /\ Before(what) = "meter" => what = "buffer"
            BY DEF Before, Chained
        <3> QED
            BY <1>1, <2>2, <3>2, <3>3
    <2>4. \A v \in Workers, what \in Chained :
            First(task'[v], what) =>
                \/ First(task[v], what) /\ Stays(v)
                \/ v = s /\ First(task[v], Before(what)) /\ Moved(task[v], task'[v])
        BY <1>0, <2>1, OnwardArrives
    <2> QED
        BY <2>3, <2>4, Zenon
<1>2. CASE Flush(s)
    <2>1. PICK u : u = [Idle EXCEPT !.kind = "flush", !.todo = Plain(<<"store">>)]
        OBVIOUS
    <2>2. task' = [task EXCEPT ![s] = u] /\ \A what \in Chained : ~First(u, what)
        BY <1>2, <2>1, FlushIsWell DEF Flush
    <2> QED
        BY <1>0, <2>2, OverArrives
<1>3. CASE Die(s)
    BY <1>0, <1>3, IdleNowhere, OverArrives DEF Die
<1> QED
    BY <1>1, <1>2, <1>3 DEF ServerStep

LEMMA KeyArrives ==
    ASSUME TasksWell, NEW w \in Workers, KeyStep(w)
    PROVE  /\ task'[w] = Idle /\ UNCHANGED <<access, oauth, usage, count>>
           /\ \A v \in Workers, what \in Chained :
                First(task'[v], what) => First(task[v], what) /\ Stays(v)
<1>1. CASE InsertKey(w)
    <2>1. UNCHANGED count /\ task' = [task EXCEPT ![w] = Idle]
        BY <1>1, InsertEnds
    <2>2. \A v \in Workers, what \in Chained :
            First(task'[v], what) => First(task[v], what) /\ Stays(v)
        BY <2>1, IdleNowhere, OverArrives
    <2> QED
        BY <1>1, <2>1, <2>2, Unchanged DEF InsertKey
<1>2. CASE Replaced(w) \/ DropKey(w)
    <2>1. Committed(w, Idle) /\ UNCHANGED <<access, oauth, usage, count>>
        BY <1>2 DEF Replaced, DropKey
    <2> QED
        BY <2>1, CommitTakes, CommitArrives
<1> QED
    BY <1>1, <1>2 DEF KeyStep

LEMMA BreakArrives ==
    ASSUME TasksWell, NEW w \in Workers, Break(w)
    PROVE  \A v \in Workers, what \in Chained :
                First(task'[v], what) => First(task[v], what) /\ Stays(v)
BY IdleNowhere, OverArrives DEF Break

LEMMA StayAll ==
    ASSUME UNCHANGED task
    PROVE  \A v \in Workers, what \in Chained :
                First(task'[v], what) => First(task[v], what) /\ Stays(v)
BY DEF Stays, Same

-----------------------------------------------------------------------------
(* One token for each code.                                                *)

\* Whoever is about to issue a token has consumed its code, alone, and a code that is not
\* consumed has no token.
MintersAlone ==
    /\ \A w \in Workers : First(task[w], "mint") =>
            codes[task[w].code] = "consumed" /\ tokens[task[w].code] = 0
    /\ \A v, w \in Workers : v # w /\ First(task[v], "mint") /\ First(task[w], "mint") =>
            task[v].code # task[w].code
    /\ \A c \in Codes : codes[c] # "consumed" => tokens[c] = 0
    /\ OneTokenPerCode

\* Steps that leave codes and tokens alone bring nobody to that point.
LEMMA MintersStay ==
    ASSUME MintersAlone, UNCHANGED <<codes, tokens>>,
           \A v \in Workers : First(task'[v], "mint") => First(task[v], "mint") /\ Stays(v)
    PROVE  MintersAlone'
BY DEF MintersAlone, Stays, Same, OneTokenPerCode, First

LEMMA ConsumedAlone ==
    ASSUME Typed, MintersAlone, NEW s \in Servers, Consumed(s)
    PROVE  MintersAlone'
<1>1. PICK c : c = task[s].code
    OBVIOUS
<1>2. s \in Workers /\ c \in Codes /\ TasksWell
    BY <1>1, IdleIsEmpty DEF Workers, Typed, Task
<1>3. codes' = [codes EXCEPT ![c] = "consumed"] /\ tokens' = tokens /\ codes[c] # "consumed"
    BY <1>1 DEF Consumed
<1>4. codes \in [Codes -> {"none", "issued", "consumed"}]
    BY DEF Typed, Tables
<1>5. tokens[c] = 0
    BY <1>2, <1>3 DEF MintersAlone
<1>6. ASSUME NEW v \in Workers, First(task'[v], "mint")
      PROVE  (v # s /\ First(task[v], "mint") /\ task'[v].code = task[v].code) \/ (v = s /\ task'[v].code = c)
    <2>1. "mint" \in Chained /\ Before("mint") = "consume"
        BY DEF Chained, Before
    <2>2. \/ First(task[v], "mint") /\ Stays(v)
          \/ v = s /\ Moved(task[v], task'[v])
        BY <1>2, <1>6, <2>1, ServerArrives DEF ServerStep
    <2>3. ~First(task[s], "mint")
        BY DEF Consumed, At, First
    <2> QED
        BY <1>1, <2>2, <2>3 DEF Stays, Moved, Same
<1>7. \A v \in Workers : First(task[v], "mint") => task[v].code # c
    BY <1>3 DEF MintersAlone
<1>8. \A d : codes'[d] = IF d = c THEN "consumed" ELSE codes[d]
    BY <1>2, <1>3, <1>4
<1>9. \A w \in Workers : First(task'[w], "mint") => codes'[task'[w].code] = "consumed" /\ tokens'[task'[w].code] = 0
    BY <1>3, <1>5, <1>6, <1>8 DEF MintersAlone
<1>10. \A v, w \in Workers : v # w /\ First(task'[v], "mint") /\ First(task'[w], "mint") =>
            task'[v].code # task'[w].code
    BY <1>6, <1>7 DEF MintersAlone
<1>11. \A d \in Codes : codes'[d] # "consumed" => tokens'[d] = 0
    BY <1>3, <1>8 DEF MintersAlone
<1> QED
    BY <1>3, <1>9, <1>10, <1>11 DEF MintersAlone, OneTokenPerCode, First

LEMMA MintedAlone ==
    ASSUME Typed, MintersAlone, NEW s \in Servers, MintToken(s)
    PROVE  MintersAlone'
<1>1. PICK c : c = task[s].code
    OBVIOUS
<1>2. s \in Workers /\ c \in Codes /\ TasksWell /\ First(task[s], "mint")
    BY <1>1, IdleIsEmpty DEF Workers, Typed, Task, MintToken
<1>3. tokens' = [tokens EXCEPT ![c] = @ + 1] /\ codes' = codes
    BY <1>1 DEF MintToken, StoreToken
<1>4. tokens \in [Codes -> Nat] /\ codes[c] = "consumed" /\ tokens[c] = 0
    BY <1>1, <1>2 DEF Typed, Tables, MintersAlone
<1>5. \A d \in Codes : tokens'[d] = IF d = c THEN 1 ELSE tokens[d]
    BY <1>3, <1>4
<1>6. ASSUME NEW v \in Workers, First(task'[v], "mint")
      PROVE  v # s /\ First(task[v], "mint") /\ task'[v].code = task[v].code
    <2>1. "mint" \in Chained
        BY DEF Chained
    <2>2. ~Consumed(s) /\ ~Meter(s)
        BY DEF MintToken, Consumed, Meter, At
    <2>3. First(task[v], "mint") /\ Stays(v)
        BY <1>2, <1>6, <2>1, <2>2, ServerArrives DEF ServerStep
    <2>4. v # s
        <3>1. PICK u \in Task : Onward(s, u)
            BY <1>2, ServerTakes
        <3>2. task'[s] = u /\ (u = Idle \/ Moved(task[s], u))
            BY <1>2, <3>1, Unchanged DEF Onward
        <3>3. ~First(u, "mint")
            <4>1. First(u, "mint") => First(task[s], "consume")
                BY <2>1, <3>2, IdleNowhere DEF Moved, Before
            <4>2. ~First(task[s], "consume")
                BY <1>2 DEF First
            <4> QED
                BY <4>1, <4>2
        <3> QED
            BY <1>6, <3>2, <3>3
    <2> QED
        BY <2>3, <2>4 DEF Stays, Same
<1>7. \A v \in Workers : v # s /\ First(task[v], "mint") => task[v].code # c
    BY <1>1, <1>2 DEF MintersAlone
<1>8. \A v \in Workers : task[v].code \in Codes
    BY IdleIsEmpty DEF Typed, Task
<1>9. \A w \in Workers : First(task'[w], "mint") => codes'[task'[w].code] = "consumed" /\ tokens'[task'[w].code] = 0
    BY <1>3, <1>5, <1>6, <1>7, <1>8 DEF MintersAlone
<1>10. \A v, w \in Workers : v # w /\ First(task'[v], "mint") /\ First(task'[w], "mint") =>
            task'[v].code # task'[w].code
    BY <1>6 DEF MintersAlone
<1>11. \A d \in Codes : codes'[d] # "consumed" => tokens'[d] = 0
    BY <1>3, <1>4, <1>5 DEF MintersAlone
<1>12. \A d \in Codes : tokens'[d] <= 1
    BY <1>5 DEF MintersAlone, OneTokenPerCode
<1> QED
    BY <1>9, <1>10, <1>11, <1>12 DEF MintersAlone, OneTokenPerCode, First

LEMMA NextMints ==
    ASSUME Typed, MintersAlone, Next
    PROVE  MintersAlone'
<1>0. TasksWell /\ "mint" \in Chained /\ Before("mint") = "consume"
    BY DEF Typed, Chained, Before
<1>1. \/ \E w \in Workers : Turns(w)
      \/ \E w \in Workers : KeyStep(w)
      \/ \E s \in Servers : ServerStep(s)
      \/ \E w \in Workers : Break(w)
      \/ World
    BY NextCases DEF Typed
<1>2. CASE \E w \in Workers : Turns(w)
    <2>1. PICK w \in Workers, u \in Task : Turn(w, u)
        BY <1>2 DEF Turns
    <2>2. UNCHANGED <<codes, tokens>>
        BY <2>1 DEF Turn, Still, oauth
    <2>3. ASSUME NEW v \in Workers, First(task'[v], "mint")
          PROVE  First(task[v], "mint") /\ Stays(v)
        <3>1. (First(task[v], "mint") /\ Stays(v)) \/ Reaches(v, "mint")
            BY <1>0, <2>1, <2>3, TurnArrives
        <3>2. Reaches(v, "mint") => At(v, "consume") /\ ~At(v, "consume")
            BY <1>0, IdleIsEmpty DEF Reaches, Kept, Changing
        <3> QED
            BY <3>1, <3>2
    <2> QED
        BY <2>2, <2>3, MintersStay
<1>3. CASE \E w \in Workers : KeyStep(w)
    BY <1>0, <1>3, KeyArrives, MintersStay DEF oauth
<1>4. CASE \E s \in Servers : ServerStep(s)
    <2>1. PICK s \in Servers : ServerStep(s)
        BY <1>4
    <2>2. CASE Consumed(s)
        BY <2>2, ConsumedAlone
    <2>3. CASE MintToken(s)
        BY <2>3, MintedAlone
    <2>4. CASE ~Consumed(s) /\ ~MintToken(s)
        <3>1. UNCHANGED <<codes, tokens>>
            BY <2>1, <2>4 DEF ServerStep, Meter, Buffer, Flush, StoreEvents, Die, oauth
        <3>2. \A v \in Workers : First(task'[v], "mint") => First(task[v], "mint") /\ Stays(v)
            BY <1>0, <2>1, <2>4, ServerArrives
        <3> QED
            BY <3>1, <3>2, MintersStay
    <2> QED
        BY <2>2, <2>3, <2>4
<1>5. CASE \E w \in Workers : Break(w)
    <2>1. PICK w \in Workers : Break(w)
        BY <1>5
    <2>2. UNCHANGED <<codes, tokens>>
        BY <2>1 DEF Break, oauth
    <2> QED
        BY <1>0, <2>1, <2>2, BreakArrives, MintersStay
<1>6. CASE World
    <2>1. UNCHANGED task
        BY <1>6, WorldTyped
    <2>2. \A v \in Workers : First(task'[v], "mint") => First(task[v], "mint") /\ Stays(v)
        BY <1>0, <2>1, StayAll
    <2>3. CASE UNCHANGED <<codes, tokens>>
        BY <2>2, <2>3, MintersStay
    <2>4. CASE ~UNCHANGED <<codes, tokens>>
        <3>1. PICK c \in Codes : codes' = [codes EXCEPT ![c] = "issued"] /\ tokens' = tokens /\ codes[c] = "none"
            BY <1>6, <2>4 DEF World, Authorize, IssueCode, StoreCode, ExpireToken, SetSeat, SetGrant, NextMonth,
                              oauth
        <3>2. codes \in [Codes -> {"none", "issued", "consumed"}]
            BY DEF Typed, Tables
        <3>3. \A d : codes'[d] = IF d = c THEN "issued" ELSE codes[d]
            BY <3>1, <3>2
        <3>4. \A d : codes[d] = "consumed" => codes'[d] = "consumed"
            BY <3>1, <3>3
        <3>5. \A d \in Codes : codes'[d] # "consumed" => codes[d] # "consumed"
            BY <3>1, <3>3
        <3> QED
            BY <2>1, <3>1, <3>4, <3>5 DEF MintersAlone, OneTokenPerCode, First
    <2> QED
        BY <2>3, <2>4
<1> QED
    BY <1>1, <1>2, <1>3, <1>4, <1>5, <1>6

\* OneTokenPerCode in every reachable state: however many exchanges race for a code, on
\* however many servers, and whatever breaks between its consumption and its token, at
\* most one token is issued for it.
THEOREM OneTokenEach == Spec => []OneTokenPerCode
<1>1. Init => Typed /\ MintersAlone
    <2>1. ASSUME Init
          PROVE  MintersAlone
        <3>1. \A w \in Workers : task[w] = Idle
            BY <2>1 DEF Init
        <3>2. \A c \in Codes : /\ codes[c] # "consumed" => tokens[c] = 0
                               /\ tokens[c] <= 1
            BY <2>1 DEF Init
        <3> QED
            BY <3>1, <3>2, IdleNowhere DEF MintersAlone, OneTokenPerCode
    <2> QED
        BY <2>1, InitTyped
<1>2. Typed /\ MintersAlone /\ [Next]_vars => (Typed /\ MintersAlone)'
    <2>1. ASSUME Typed, MintersAlone, UNCHANGED vars
          PROVE  MintersAlone'
        BY <2>1 DEF vars, oauth, MintersAlone, OneTokenPerCode, First
    <2> QED
        BY <2>1, NextTyped, NextMints
<1>3. MintersAlone => OneTokenPerCode
    BY DEF MintersAlone
<1> QED
    BY <1>1, <1>2, <1>3, PTL DEF Spec

-----------------------------------------------------------------------------
(* The keys are as asked.                                                  *)

LEMMA OverwriteRows ==
    ASSUME NEW old \in KeyGrants, NEW new \in KeyGrants
    PROVE  /\ \A l \in KeyLibraries : Overwrite(old, new)[l] = IF new[l] = "none" THEN old[l] ELSE new[l]
           /\ old = NoGrants => Overwrite(old, new) = new
           /\ new # NoGrants => Overwrite(old, new) # NoGrants
<1>1. \A l \in KeyLibraries : Overwrite(old, new)[l] = IF new[l] = "none" THEN old[l] ELSE new[l]
    BY DEF Overwrite
<1>2. \A l \in KeyLibraries : NoGrants[l] = "none"
    BY DEF NoGrants
<1>3. NoGrants \in KeyGrants /\ Overwrite(old, new) \in KeyGrants
    BY OverwriteType DEF NoGrants, KeyGrants
<1>4. \A f, g \in KeyGrants : (\A l \in KeyLibraries : f[l] = g[l]) => f = g
    BY DEF KeyGrants
<1>5. ASSUME old = NoGrants
      PROVE  Overwrite(old, new) = new
    <2>1. \A l \in KeyLibraries : Overwrite(old, new)[l] = new[l]
        BY <1>1, <1>2, <1>5
    <2> QED
        BY <1>3, <1>4, <2>1
<1>6. ASSUME new # NoGrants
      PROVE  Overwrite(old, new) # NoGrants
    <2>1. PICK l \in KeyLibraries : new[l] # "none"
        BY <1>2, <1>3, <1>4, <1>6
    <2> QED
        BY <1>1, <1>2, <2>1
<1> QED
    BY <1>1, <1>5, <1>6

\* A request that is to make a key.
Creating(t) == t.kind = "keys" /\ \E i \in 1..Len(t.todo) : t.todo[i].do = "insert"

\* A transaction that has deleted the rows of a key and not committed.
Holds(t) == First(t, "replace") \/ First(t, "drop")

KeysKnown == \A k \in keys : wanted[k] # {}

\* A key that is being made is nobody else's yet; one whose rows are deleted was made.
KeysApart ==
    /\ \A w \in Workers : Creating(task[w]) => wanted[task[w].key] = {}
    /\ \A v, w \in Workers : v # w /\ Creating(task[v]) /\ Creating(task[w]) =>
            task[v].key # task[w].key
    /\ \A w \in Workers : First(task[w], "delete") \/ Holds(task[w]) => wanted[task[w].key] # {}

\* Of those who hold a key's rows all but one wait, and only they miss rows.
Queued ==
    /\ \A w \in Workers : task[w].stale => task[w].waits /\ Holds(task[w])
    /\ \A v, w \in Workers : v # w /\ Holds(task[v]) /\ Holds(task[w]) /\ task[v].key = task[w].key =>
            task[v].waits \/ task[w].waits

\* While creations do not overlap, whoever has counted has room for his key.
RoomLeft ==
    "limit" \notin crossed =>
        /\ Cardinality(keys) <= KeyLimit
        /\ \A w \in Workers : First(task[w], "insert") => Cardinality(keys) < KeyLimit

KeyOrder == KeysKnown /\ KeysApart /\ Queued /\ RoomLeft /\ GrantsOfOneRequest

LEMMA MovedCreates ==
    ASSUME NEW t, NEW u, Well(t), Moved(t, u), Creating(u)
    PROVE  Creating(t) /\ u.key = t.key
<1>1. PICK n \in 1..Len(t.todo) : IsRest(u.todo, t.todo, n)
    BY DEF Moved
<1>2. t.todo \in Seq(Asks) /\ Len(t.todo) \in Nat
    BY DEF Well, Shape
<1>3. u.todo \in Seq(Asks) /\ Len(u.todo) = Len(t.todo) - n
      /\ \A i \in 1..Len(u.todo) : u.todo[i] = t.todo[n+i]
    BY <1>1 DEF IsRest
<1>4. \A i \in 1..Len(u.todo) : n + i \in 1..Len(t.todo)
    BY <1>2, <1>3
<1> QED
    BY <1>3, <1>4 DEF Creating, Moved, Same

LEMMA FirstCreates ==
    ASSUME NEW t, Well(t), First(t, "insert")
    PROVE  Creating(t)
<1>1. t.todo # <<>> /\ Head(t.todo).do = "insert"
    BY DEF First
<1>2. Len(t.todo) > 0 /\ Len(t.todo) \in Nat /\ Head(t.todo) = t.todo[1]
    BY <1>1, ShapeFacts
<1>3. 1 \in 1..Len(t.todo)
    BY <1>2
<1>4. t.kind = "keys"
    BY WordKind
<1> QED
    BY <1>1, <1>2, <1>3, <1>4 DEF Creating

LEMMA IdleCreatesNothing == ~Creating(Idle) /\ ~Holds(Idle) /\ ~Idle.stale
BY IdleNowhere DEF Creating, Idle, Holds

LEMMA HoldingHolds ==
    ASSUME TasksWell, NEW w \in Workers, NEW k
    PROVE  \A v : v \in Holding(k, w) <=> v \in Workers \ {w} /\ Holds(task[v]) /\ task[v].key = k
BY IdleIsEmpty DEF Holding, Holds

\* Steps that leave the keys alone and bring nobody to their rows.
LEMMA KeysStay ==
    ASSUME KeyOrder, UNCHANGED <<keys, keyGrants, wanted, crossed>>,
           \A v \in Workers : Creating(task'[v]) => Creating(task[v]) /\ task'[v].key = task[v].key,
           \A v \in Workers, what \in {"insert", "delete", "replace", "drop"} :
                First(task'[v], what) => First(task[v], what) /\ Stays(v),
           \A v \in Workers : task'[v].stale => task'[v] = task[v]
    PROVE  KeyOrder'
<1>1. \A v \in Workers : /\ Holds(task'[v]) => Holds(task[v]) /\ Stays(v)
                         /\ First(task'[v], "insert") => First(task[v], "insert")
                         /\ First(task'[v], "delete") => First(task[v], "delete") /\ Stays(v)
    BY DEF Holds
<1>2. \A w \in Workers : Creating(task'[w]) => wanted'[task'[w].key] = {}
    BY DEF KeyOrder, KeysApart
<1>3. \A v, w \in Workers : v # w /\ Creating(task'[v]) /\ Creating(task'[w]) =>
            task'[v].key # task'[w].key
    BY DEF KeyOrder, KeysApart
<1>4. \A w \in Workers : First(task'[w], "delete") \/ Holds(task'[w]) => wanted'[task'[w].key] # {}
    BY <1>1 DEF KeyOrder, KeysApart, Stays, Same
<1>5. KeysApart'
    BY <1>2, <1>3, <1>4 DEF KeysApart, Creating, First, Holds
<1>6. \A w \in Workers : task'[w].stale => task'[w].waits /\ Holds(task'[w])
    BY DEF KeyOrder, Queued
<1>7. \A v, w \in Workers : v # w /\ Holds(task'[v]) /\ Holds(task'[w]) /\ task'[v].key = task'[w].key =>
            task'[v].waits \/ task'[w].waits
    BY <1>1 DEF KeyOrder, Queued, Stays, Same
<1>8. Queued'
    BY <1>6, <1>7 DEF Queued, First, Holds
<1>9. RoomLeft'
    BY <1>1 DEF KeyOrder, RoomLeft, First
<1>10. KeysKnown' /\ GrantsOfOneRequest'
    BY DEF KeyOrder, KeysKnown, GrantsOfOneRequest
<1> QED
    BY <1>5, <1>8, <1>9, <1>10 DEF KeyOrder

LEMMA TurnOrder ==
    ASSUME Typed, KeyOrder, NEW w \in Workers, NEW u \in Task, Turn(w, u)
    PROVE  KeyOrder'
<1>0. TasksWell /\ Well(task[w]) /\ task' = [task EXCEPT ![w] = u]
      /\ UNCHANGED <<keys, keyGrants, wanted, crossed>>
    BY IdleIsEmpty DEF Typed, Turn, Still, keyring
<1>1. task'[w] = u /\ \A v \in Workers \ {w} : task'[v] = task[v] /\ Stays(v)
    BY <1>0, Unchanged
<1>2. {"insert", "delete", "replace", "drop"} \subseteq Chained
    BY DEF Chained
<1>3. \A v \in Workers, what \in {"insert", "delete", "replace", "drop"} :
            First(task'[v], what) => (First(task[v], what) /\ Stays(v)) \/ Reaches(v, what)
    BY <1>0, <1>2, TurnArrives
<1>4. \A v \in Workers, what \in Chained : Reaches(v, what) /\ First(task'[v], what) => v = w
    <2>1. \A what \in Chained : Before(what) # what
        BY DEF Chained, Before
    <2> QED
        BY <1>1, <2>1 DEF Reaches, First
<1>5. Creating(u) =>
        \/ Creating(task[w]) /\ u.key = task[w].key
        \/ wanted[u.key] = {} /\ \A v \in Workers : task[v].key # u.key
    <2>1. CASE u = Idle
        BY <2>1, IdleCreatesNothing
    <2>2. CASE Kept(w, u)
        BY <1>0, <2>2, MovedCreates DEF Kept
    <2>3. CASE Asked(u)
        BY <2>3 DEF Asked, Creating
    <2> QED
        BY <2>1, <2>2, <2>3 DEF Turn
<1>6. ~u.stale
    <2>1. CASE Kept(w, u)
        <3>1. ~Holds(task[w])
            <4>1. "replace" \in Changing /\ "drop" \in Changing
                BY DEF Changing
            <4> QED
                BY <1>0, <2>1, <4>1, IdleIsEmpty DEF Kept, Holds
        <3> QED
            BY <2>1, <3>1 DEF Kept, KeyOrder, Queued
    <2> QED
        BY <2>1, IdleCreatesNothing DEF Turn, Asked
<1>7. KeysApart'
    <2>1. \A v \in Workers : Creating(task'[v]) => wanted'[task'[v].key] = {}
        BY <1>0, <1>1, <1>5 DEF KeyOrder, KeysApart
    <2>2. \A v, x \in Workers : v # x /\ Creating(task'[v]) /\ Creating(task'[x]) =>
                task'[v].key # task'[x].key
        BY <1>1, <1>5 DEF KeyOrder, KeysApart
    <2>3. ASSUME NEW v \in Workers, First(task'[v], "delete")
          PROVE  wanted'[task'[v].key] # {}
        <3>1. CASE First(task[v], "delete") /\ Stays(v)
            BY <1>0, <3>1 DEF KeyOrder, KeysApart, Stays, Same
        <3>2. CASE Reaches(v, "delete")
            <4>1. At(v, "owned") /\ task'[v].key = task[v].key
                BY <1>0, <3>2, IdleIsEmpty DEF Reaches, Before, Moved, Same
            <4>2. task[v].key \in keys
                BY <3>2, <4>1 DEF Reaches, Kept
            <4> QED
                BY <1>0, <4>1, <4>2 DEF KeyOrder, KeysKnown
        <3> QED
            BY <1>3, <2>3, <3>1, <3>2
    <2>4. ASSUME NEW v \in Workers, Holds(task'[v])
          PROVE  wanted'[task'[v].key] # {}
        <3>1. CASE Holds(task[v]) /\ Stays(v)
            BY <1>0, <3>1 DEF KeyOrder, KeysApart, Stays, Same
        <3>2. CASE Reaches(v, "replace") \/ Reaches(v, "drop")
            <4>1. First(task[v], "delete") /\ task'[v].key = task[v].key
                BY <3>2 DEF Reaches, Before, Moved, Same
            <4> QED
                BY <1>0, <4>1 DEF KeyOrder, KeysApart
        <3> QED
            BY <1>3, <2>4, <3>1, <3>2 DEF Holds
    <2> QED
        BY <2>1, <2>2, <2>3, <2>4 DEF KeysApart, Creating, First, Holds
<1>8. Queued'
    <2>1. \A v \in Workers : task'[v].stale => task'[v].waits /\ Holds(task'[v])
        BY <1>1, <1>6 DEF KeyOrder, Queued
    <2>2. ASSUME NEW v \in Workers, NEW x \in Workers, v # x, Holds(task'[v]), Holds(task'[x]),
                 task'[v].key = task'[x].key, x # w
          PROVE  task'[v].waits \/ task'[x].waits
        <3>1. task'[x] = task[x] /\ Holds(task[x])
            BY <1>1, <2>2
        <3>2. CASE Holds(task[v]) /\ Stays(v)
            BY <2>2, <3>1, <3>2 DEF KeyOrder, Queued, Stays, Same
        <3>3. CASE Reaches(v, "replace") \/ Reaches(v, "drop")
            <4>1. Kept(v, task'[v]) /\ First(task[v], "delete") /\ task'[v].key = task[v].key
                BY <3>3 DEF Reaches, Before, Moved, Same
            <4>2. At(v, "delete")
                BY <1>0, <4>1, IdleIsEmpty
            <4>3. task'[v].waits = (Holding(task[v].key, v) # {})
                BY <4>1, <4>2, Zenon DEF Kept
            <4>4. x \in Holding(task[v].key, v)
                BY <1>0, <2>2, <3>1, <4>1, HoldingHolds
            <4> QED
                BY <4>3, <4>4
        <3> QED
            BY <1>3, <2>2, <3>2, <3>3 DEF Holds
    <2>3. \A v, x \in Workers : v # x /\ Holds(task'[v]) /\ Holds(task'[x]) /\ task'[v].key = task'[x].key =>
                task'[v].waits \/ task'[x].waits
        BY <2>2
    <2> QED
        BY <2>1, <2>3 DEF Queued, First, Holds
<1>9. RoomLeft'
    <2>1. ASSUME NEW v \in Workers, First(task'[v], "insert"), "limit" \notin crossed
          PROVE  Cardinality(keys) < KeyLimit
        <3>1. CASE First(task[v], "insert")
            BY <2>1, <3>1 DEF KeyOrder, RoomLeft
        <3>2. CASE Reaches(v, "insert")
            <4>1. At(v, "count")
                BY <1>0, <3>2, IdleIsEmpty DEF Reaches, Before
            <4> QED
                BY <3>2, <4>1 DEF Reaches, Kept
        <3> QED
            BY <1>3, <2>1, <3>1, <3>2
    <2> QED
        BY <1>0, <2>1 DEF KeyOrder, RoomLeft, First
<1>10. KeysKnown' /\ GrantsOfOneRequest'
    BY <1>0 DEF KeyOrder, KeysKnown, GrantsOfOneRequest
<1> QED
    BY <1>7, <1>8, <1>9, <1>10 DEF KeyOrder

LEMMA InsertOrder ==
    ASSUME Typed, KeyOrder, NEW w \in Workers, InsertKey(w)
    PROVE  KeyOrder'
<1>1. PICK t : t = task[w]
    OBVIOUS
<1>2. PICK k : k = t.key
    OBVIOUS
<1>3. TasksWell /\ t \in Task /\ Well(t) /\ Fit(t) /\ First(t, "insert") /\ Creating(t)
    BY <1>1, IdleIsEmpty, FirstCreates DEF Typed, AllFit, InsertKey
<1>4. k \in Keys /\ t.grants \in Offers
    BY <1>2, <1>3, KeyNamed
<1>5. t.grants \in KeyGrants /\ t.grants # NoGrants
    BY <1>4, AccessAssumption
<1>6. /\ keys' = keys \cup {k} /\ keyGrants' = [keyGrants EXCEPT ![k] = t.grants]
      /\ wanted' = [wanted EXCEPT ![k] = @ \cup {t.grants}]
      /\ crossed' = IF \E v \in Workers \ {w} : At(v, "insert") THEN crossed \cup {"limit"} ELSE crossed
    BY <1>1, <1>2 DEF InsertKey
<1>7. task' = [task EXCEPT ![w] = Idle]
    BY <1>3, InsertEnds
<1>8. task'[w] = Idle /\ \A v \in Workers \ {w} : task'[v] = task[v]
    BY <1>3, <1>7, Unchanged
<1>9. keyGrants \in [Keys -> KeyGrants] /\ wanted \in [Keys -> SUBSET Offers] /\ IsFiniteSet(keys)
      /\ keys \subseteq Keys
    BY DEF Typed, Tables
<1>10. /\ \A j : keyGrants'[j] = IF j = k THEN t.grants ELSE keyGrants[j]
       /\ \A j : wanted'[j] = IF j = k THEN wanted[k] \cup {t.grants} ELSE wanted[j]
    BY <1>4, <1>6, <1>9
<1>11. wanted[k] = {} /\ k \notin keys
    BY <1>1, <1>2, <1>3 DEF KeyOrder, KeysApart, KeysKnown
<1>12. \A v \in Workers : v # w /\ Creating(task[v]) => task[v].key # k
    BY <1>1, <1>2, <1>3 DEF KeyOrder, KeysApart
<1>13. KeysApart'
    <2>1. \A v \in Workers : Creating(task'[v]) => wanted'[task'[v].key] = {}
        BY <1>8, <1>10, <1>12, IdleCreatesNothing DEF KeyOrder, KeysApart
    <2>2. \A v, x \in Workers : v # x /\ Creating(task'[v]) /\ Creating(task'[x]) =>
                task'[v].key # task'[x].key
        BY <1>8, IdleCreatesNothing DEF KeyOrder, KeysApart
    <2>3. \A v \in Workers : First(task'[v], "delete") \/ Holds(task'[v]) => wanted'[task'[v].key] # {}
        BY <1>8, <1>10, IdleCreatesNothing, IdleNowhere DEF KeyOrder, KeysApart
    <2> QED
        BY <2>1, <2>2, <2>3 DEF KeysApart, Creating, First, Holds
<1>14. Queued'
    <2>1. \A v \in Workers : task'[v].stale => task'[v].waits /\ Holds(task'[v])
        BY <1>8, IdleCreatesNothing DEF KeyOrder, Queued
    <2>2. \A v, x \in Workers : v # x /\ Holds(task'[v]) /\ Holds(task'[x]) /\ task'[v].key = task'[x].key =>
                task'[v].waits \/ task'[x].waits
        BY <1>8, IdleCreatesNothing DEF KeyOrder, Queued
    <2> QED
        BY <2>1, <2>2 DEF Queued, First, Holds
<1>15. RoomLeft'
    <2>1. ASSUME "limit" \notin crossed'
          PROVE  /\ Cardinality(keys') <= KeyLimit
                 /\ \A v \in Workers : ~First(task'[v], "insert")
        <3>1. \A v \in Workers \ {w} : ~At(v, "insert")
            BY <1>6, <2>1
        <3>2. \A v \in Workers : ~First(task'[v], "insert")
            BY <1>3, <1>8, <3>1, IdleIsEmpty, IdleNowhere
        <3>3. "limit" \notin crossed
            BY <1>6, <2>1
        <3>4. Cardinality(keys) < KeyLimit
            BY <1>1, <1>3, <3>3 DEF KeyOrder, RoomLeft
        <3>5. Cardinality(keys') = Cardinality(keys) + 1 /\ Cardinality(keys) \in Nat
            BY <1>6, <1>9, <1>11, FS_AddElement, FS_CardinalityType
        <3> QED
            BY <3>2, <3>4, <3>5, AccessAssumption
    <2> QED
        BY <2>1 DEF RoomLeft, First
<1>16. KeysKnown'
    BY <1>6, <1>10 DEF KeyOrder, KeysKnown
<1>17. GrantsOfOneRequest'
    <2>1. \A j : j \notin crossed' => j \notin crossed
        BY <1>6
    <2>2. ASSUME NEW j \in Keys
          PROVE  /\ j \in keys' => keyGrants'[j] # NoGrants
                 /\ j \notin crossed' => IF j \in keys' THEN keyGrants'[j] \in wanted'[j]
                                                       ELSE keyGrants'[j] = NoGrants
                 /\ \A l \in KeyLibraries :
                        keyGrants'[j][l] # "none" => \E g \in wanted'[j] : g[l] = keyGrants'[j][l]
        <3>1. CASE j = k
            BY <1>5, <1>6, <1>10, <3>1
        <3>2. CASE j # k
            BY <1>6, <1>10, <2>1, <3>2 DEF KeyOrder, GrantsOfOneRequest
        <3> QED
            BY <3>1, <3>2
    <2> QED
        BY <2>2 DEF GrantsOfOneRequest
<1> QED
    BY <1>13, <1>14, <1>15, <1>16, <1>17 DEF KeyOrder

\* A commit keeps the queue: those it tells are waiting.
LEMMA CommitQueues ==
    ASSUME TasksWell, Queued, KeysApart, NEW w \in Workers, Holds(task[w]), MayCommit(w), Committed(w, Idle),
           \A k : wanted[k] # {} => wanted'[k] # {},
           \A k : wanted[k] = {} => k = task[w].key \/ wanted'[k] = {}
    PROVE  Queued' /\ KeysApart'
<1>1. PICK k : k = task[w].key
    OBVIOUS
<1>2. \A v : v \in Holding(k, w) <=> v \in Workers \ {w} /\ Holds(task[v]) /\ task[v].key = k
    BY HoldingHolds
<1>3. \A v \in Holding(k, w) : task[v].waits
    <2>1. CASE task[w].waits
        BY <1>1, <2>1 DEF MayCommit
    <2>2. CASE ~task[w].waits
        BY <1>1, <1>2, <2>2 DEF Queued
    <2> QED
        BY <2>1, <2>2
<1>4. task'[w] = Idle
    BY CommitTakes
<1>5. \A v \in Workers \ {w} :
        /\ Same(task[v], task'[v]) /\ task'[v].todo = task[v].todo /\ task'[v].waits = task[v].waits
        /\ task'[v].stale = IF v \in Holding(k, w) THEN TRUE ELSE task[v].stale
    BY <1>1, CommitTakes
<1>6. \A v \in Workers \ {w} :
        /\ task'[v].key = task[v].key /\ (Holds(task'[v]) <=> Holds(task[v]))
        /\ (First(task'[v], "delete") <=> First(task[v], "delete"))
        /\ (Creating(task'[v]) <=> Creating(task[v]))
    BY <1>5 DEF Same, Holds, First, Creating
<1>7. \A v \in Workers : task'[v].stale => task'[v].waits /\ Holds(task'[v])
    BY <1>2, <1>3, <1>4, <1>5, <1>6, IdleCreatesNothing DEF Queued
<1>8. \A v, x \in Workers : v # x /\ Holds(task'[v]) /\ Holds(task'[x]) /\ task'[v].key = task'[x].key =>
            task'[v].waits \/ task'[x].waits
    BY <1>4, <1>5, <1>6, IdleCreatesNothing DEF Queued
<1>9. wanted[k] # {}
    BY <1>1 DEF KeysApart
<1>10. \A v \in Workers : Creating(task'[v]) => wanted'[task'[v].key] = {}
    BY <1>1, <1>4, <1>6, <1>9, IdleCreatesNothing DEF KeysApart
<1>11. \A v, x \in Workers : v # x /\ Creating(task'[v]) /\ Creating(task'[x]) =>
            task'[v].key # task'[x].key
    BY <1>4, <1>6, IdleCreatesNothing DEF KeysApart
<1>12. \A v \in Workers : First(task'[v], "delete") \/ Holds(task'[v]) => wanted'[task'[v].key] # {}
    BY <1>4, <1>6, IdleCreatesNothing, IdleNowhere DEF KeysApart
<1>13. Queued'
    BY <1>7, <1>8 DEF Queued, First, Holds
<1>14. KeysApart'
    BY <1>10, <1>11, <1>12 DEF KeysApart, Creating, First, Holds
<1> QED
    BY <1>13, <1>14

LEMMA ReplacedOrder ==
    ASSUME Typed, KeyOrder, NEW w \in Workers, Replaced(w)
    PROVE  KeyOrder'
<1>1. PICK t : t = task[w]
    OBVIOUS
<1>2. PICK k : k = t.key
    OBVIOUS
<1>3. TasksWell /\ t \in Task /\ Well(t) /\ Fit(t) /\ First(t, "replace")
    BY <1>1, IdleIsEmpty DEF Typed, AllFit, Replaced
<1>4. k \in Keys /\ t.grants \in Offers
    BY <1>2, <1>3, KeyNamed
<1>5. t.grants \in KeyGrants /\ t.grants # NoGrants /\ NoGrants \in KeyGrants
    BY <1>4, AccessAssumption DEF NoGrants, KeyGrants
<1>6. keyGrants \in [Keys -> KeyGrants] /\ wanted \in [Keys -> SUBSET Offers]
    BY DEF Typed, Tables
<1>7. PICK left : left = IF t.stale THEN keyGrants[k] ELSE NoGrants
    OBVIOUS
<1>8. PICK new : new = Overwrite(left, t.grants)
    OBVIOUS
<1>9. /\ left \in KeyGrants /\ new \in KeyGrants /\ new # NoGrants
      /\ \A l \in KeyLibraries : new[l] = IF t.grants[l] = "none" THEN left[l] ELSE t.grants[l]
      /\ left = NoGrants => new = t.grants
    <2>1. left \in KeyGrants
        BY <1>4, <1>5, <1>6, <1>7
    <2> QED
        BY <1>5, <1>8, <2>1, OverwriteRows, OverwriteType
<1>10. /\ keyGrants' = [keyGrants EXCEPT ![k] = new]
       /\ wanted' = [wanted EXCEPT ![k] = @ \cup {t.grants}]
       /\ crossed' = IF t.waits \/ k \notin keys THEN crossed \cup {k} ELSE crossed
       /\ MayCommit(w) /\ Committed(w, Idle) /\ keys' = keys
    BY <1>1, <1>2, <1>7, <1>8 DEF Replaced
<1>11. /\ \A j : keyGrants'[j] = IF j = k THEN new ELSE keyGrants[j]
       /\ \A j : wanted'[j] = IF j = k THEN wanted[k] \cup {t.grants} ELSE wanted[j]
    BY <1>4, <1>6, <1>10
<1>12. Queued' /\ KeysApart'
    <2>1. Holds(task[w]) /\ Queued /\ KeysApart
        BY <1>1, <1>3 DEF Holds, KeyOrder
    <2>2. \A j : wanted[j] # {} => wanted'[j] # {}
        BY <1>11
    <2>3. \A j : wanted[j] = {} => j = task[w].key \/ wanted'[j] = {}
        BY <1>1, <1>2, <1>11
    <2> QED
        BY <1>3, <1>10, <2>1, <2>2, <2>3, CommitQueues
<1>13. \A j : j \notin crossed' => j \notin crossed
    BY <1>10
<1>14. RoomLeft'
    <2>1. "insert" \in Chained
        BY DEF Chained
    <2>2. \A v \in Workers : First(task'[v], "insert") => First(task[v], "insert")
        BY <1>3, <1>10, <2>1, CommitArrives
    <2> QED
        BY <1>10, <1>13, <2>2 DEF KeyOrder, RoomLeft, First
<1>15. KeysKnown'
    BY <1>10, <1>11 DEF KeyOrder, KeysKnown
<1>16. GrantsOfOneRequest'
    <2>1. ASSUME NEW j \in Keys
          PROVE  /\ j \in keys' => keyGrants'[j] # NoGrants
                 /\ j \notin crossed' => IF j \in keys' THEN keyGrants'[j] \in wanted'[j]
                                                       ELSE keyGrants'[j] = NoGrants
                 /\ \A l \in KeyLibraries :
                        keyGrants'[j][l] # "none" => \E g \in wanted'[j] : g[l] = keyGrants'[j][l]
        <3>1. CASE j = k
            <4>1. keyGrants'[j] = new /\ wanted'[j] = wanted[k] \cup {t.grants}
                BY <1>11, <3>1
            <4>2. ASSUME j \notin crossed'
                  PROVE  j \in keys' /\ keyGrants'[j] \in wanted'[j]
                <5>1. ~t.waits /\ k \in keys
                    BY <1>10, <3>1, <4>2
                <5>2. ~t.stale
                    BY <1>1, <5>1 DEF KeyOrder, Queued
                <5> QED
                    BY <1>7, <1>9, <1>10, <3>1, <4>1, <5>1, <5>2
            <4>3. ASSUME NEW l \in KeyLibraries, new[l] # "none"
                  PROVE  \E g \in wanted'[j] : g[l] = new[l]
                <5>1. CASE t.grants[l] # "none"
                    BY <1>9, <4>1, <5>1
                <5>2. CASE t.grants[l] = "none"
                    <6>1. left[l] # "none" /\ new[l] = left[l]
                        BY <1>9, <4>3, <5>2
                    <6>2. left = keyGrants[k]
                        BY <1>7, <6>1 DEF NoGrants
                    <6>3. \E g \in wanted[k] : g[l] = keyGrants[k][l]
                        BY <1>4, <6>1, <6>2 DEF KeyOrder, GrantsOfOneRequest
                    <6> QED
                        BY <4>1, <6>1, <6>2, <6>3
                <5> QED
                    BY <5>1, <5>2
            <4> QED
                BY <1>9, <4>1, <4>2, <4>3
        <3>2. CASE j # k
            BY <1>10, <1>11, <1>13, <3>2 DEF KeyOrder, GrantsOfOneRequest
        <3> QED
            BY <3>1, <3>2
    <2> QED
        BY <2>1 DEF GrantsOfOneRequest
<1> QED
    BY <1>12, <1>14, <1>15, <1>16 DEF KeyOrder

LEMMA DropOrder ==
    ASSUME Typed, KeyOrder, NEW w \in Workers, DropKey(w)
    PROVE  KeyOrder'
<1>1. PICK t : t = task[w]
    OBVIOUS
<1>2. PICK k : k = t.key
    OBVIOUS
<1>3. TasksWell /\ t \in Task /\ Well(t) /\ Fit(t) /\ First(t, "drop")
    BY <1>1, IdleIsEmpty DEF Typed, AllFit, DropKey
<1>4. k \in Keys
    BY <1>2, <1>3, KeyNamed
<1>5. keyGrants \in [Keys -> KeyGrants] /\ keys \subseteq Keys /\ IsFiniteSet(keys)
    BY DEF Typed, Tables
<1>6. PICK new : new = IF t.stale THEN keyGrants[k] ELSE NoGrants
    OBVIOUS
<1>7. /\ keyGrants' = [keyGrants EXCEPT ![k] = new] /\ wanted' = wanted
      /\ crossed' = IF t.waits THEN crossed \cup {k} ELSE crossed
      /\ MayCommit(w) /\ Committed(w, Idle) /\ keys' = keys \ {k}
    BY <1>1, <1>2, <1>6 DEF DropKey
<1>8. \A j : keyGrants'[j] = IF j = k THEN new ELSE keyGrants[j]
    BY <1>4, <1>5, <1>7
<1>9. Queued' /\ KeysApart'
    <2>1. Holds(task[w]) /\ Queued /\ KeysApart
        BY <1>1, <1>3 DEF Holds, KeyOrder
    <2> QED
        BY <1>3, <1>7, <2>1, CommitQueues
<1>10. \A j : j \notin crossed' => j \notin crossed
    BY <1>7
<1>11. RoomLeft'
    <2>1. "insert" \in Chained
        BY DEF Chained
    <2>2. \A v \in Workers : First(task'[v], "insert") => First(task[v], "insert")
        BY <1>3, <1>7, <2>1, CommitArrives
    <2>3. Cardinality(keys') <= Cardinality(keys) /\ Cardinality(keys) \in Nat /\ Cardinality(keys') \in Nat
        <3>1. keys' \subseteq keys /\ IsFiniteSet(keys')
            BY <1>5, <1>7, FS_Subset
        <3> QED
            BY <1>5, <3>1, FS_Subset, FS_CardinalityType
    <2> QED
        BY <1>10, <2>2, <2>3, AccessAssumption DEF KeyOrder, RoomLeft, First
<1>12. KeysKnown'
    BY <1>7 DEF KeyOrder, KeysKnown
<1>13. GrantsOfOneRequest'
    <2>1. ASSUME NEW j \in Keys
          PROVE  /\ j \in keys' => keyGrants'[j] # NoGrants
                 /\ j \notin crossed' => IF j \in keys' THEN keyGrants'[j] \in wanted'[j]
                                                       ELSE keyGrants'[j] = NoGrants
                 /\ \A l \in KeyLibraries :
                        keyGrants'[j][l] # "none" => \E g \in wanted'[j] : g[l] = keyGrants'[j][l]
        <3>1. CASE j = k
            <4>1. keyGrants'[j] = new /\ j \notin keys'
                BY <1>7, <1>8, <3>1
            <4>2. ASSUME j \notin crossed'
                  PROVE  new = NoGrants
                <5>1. ~t.waits
                    BY <1>7, <3>1, <4>2
                <5>2. ~t.stale
                    BY <1>1, <5>1 DEF KeyOrder, Queued
                <5> QED
                    BY <1>6, <5>2
            <4>3. \A l \in KeyLibraries : new[l] # "none" => new = keyGrants[k]
                BY <1>6 DEF NoGrants
            <4> QED
                BY <1>4, <1>7, <3>1, <4>1, <4>2, <4>3 DEF KeyOrder, GrantsOfOneRequest
        <3>2. CASE j # k
            BY <1>7, <1>8, <1>10, <3>2 DEF KeyOrder, GrantsOfOneRequest
        <3> QED
            BY <3>1, <3>2
    <2> QED
        BY <2>1 DEF GrantsOfOneRequest
<1> QED
    BY <1>9, <1>11, <1>12, <1>13 DEF KeyOrder

\* A server's other steps, failures and the world leave the keys alone.
LEMMA OthersOrder ==
    ASSUME Typed, KeyOrder,
           (\E s \in Servers : ServerStep(s)) \/ (\E w \in Workers : Break(w)) \/ World
    PROVE  KeyOrder'
<1>0. TasksWell /\ {"insert", "delete", "replace", "drop"} \subseteq Chained
    BY DEF Typed, Chained
<1>1. CASE \E s \in Servers : ServerStep(s)
    <2>1. PICK s \in Servers : ServerStep(s)
        BY <1>1
    <2>2. s \in Workers /\ Well(task[s])
        BY <1>0, IdleIsEmpty DEF Workers
    <2>3. UNCHANGED <<keys, keyGrants, wanted, crossed>>
        BY <2>1 DEF ServerStep, Consumed, MintToken, Meter, Buffer, Flush, StoreEvents, Die, keyring
    <2>4. \A v \in Workers, what \in {"insert", "delete", "replace", "drop"} :
                First(task'[v], what) => First(task[v], what) /\ Stays(v)
        BY <1>0, <2>1, ServerArrives
    <2>5. PICK u : /\ task' = [task EXCEPT ![s] = u] /\ ~u.stale
                   /\ Creating(u) => Creating(task[s]) /\ u.key = task[s].key
        <3>1. CASE Consumed(s) \/ MintToken(s) \/ Meter(s) \/ Buffer(s) \/ StoreEvents(s)
            <4>1. PICK u \in Task : Onward(s, u)
                BY <1>0, <3>1, ServerTakes
            <4>2. ~Holds(task[s])
                BY <3>1 DEF Consumed, MintToken, Meter, Buffer, StoreEvents, At, Holds, First
            <4>3. ~task[s].stale
                BY <2>2, <4>2 DEF KeyOrder, Queued
            <4>4. ~u.stale
                BY <4>1, <4>3, IdleCreatesNothing DEF Onward
            <4>5. Creating(u) => Creating(task[s]) /\ u.key = task[s].key
                BY <2>2, <4>1, IdleCreatesNothing, MovedCreates DEF Onward
            <4> QED
                BY <4>1, <4>4, <4>5 DEF Onward
        <3>2. CASE Flush(s)
            <4>1. PICK u : u = [Idle EXCEPT !.kind = "flush", !.todo = Plain(<<"store">>)]
                OBVIOUS
            <4>2. task' = [task EXCEPT ![s] = u]
                BY <3>2, <4>1 DEF Flush
            <4>3. u.kind = "flush" /\ ~u.stale
                BY <4>1 DEF Idle
            <4> QED
                BY <4>2, <4>3 DEF Creating
        <3>3. CASE Die(s)
            BY <3>3, IdleCreatesNothing DEF Die
        <3> QED
            BY <2>1, <3>1, <3>2, <3>3 DEF ServerStep
    <2>6. \A v \in Workers : task'[v] = IF v = s THEN u ELSE task[v]
        BY <1>0, <2>2, <2>5, Unchanged
    <2>7. \A v \in Workers : Creating(task'[v]) => Creating(task[v]) /\ task'[v].key = task[v].key
        BY <2>5, <2>6
    <2>8. \A v \in Workers : task'[v].stale => task'[v] = task[v]
        BY <2>5, <2>6
    <2> QED
        BY <2>3, <2>4, <2>7, <2>8, KeysStay
<1>2. CASE \E w \in Workers : Break(w)
    <2>1. PICK w \in Workers : Break(w)
        BY <1>2
    <2>2. UNCHANGED <<keys, keyGrants, wanted, crossed>> /\ task' = [task EXCEPT ![w] = Idle]
        BY <2>1 DEF Break, keyring
    <2>3. \A v \in Workers : task'[v] = IF v = w THEN Idle ELSE task[v]
        BY <1>0, <2>2, Unchanged
    <2>4. \A v \in Workers, what \in {"insert", "delete", "replace", "drop"} :
                First(task'[v], what) => First(task[v], what) /\ Stays(v)
        BY <1>0, <2>1, BreakArrives
    <2>5. \A v \in Workers : Creating(task'[v]) => Creating(task[v]) /\ task'[v].key = task[v].key
        BY <2>3, IdleCreatesNothing
    <2>6. \A v \in Workers : task'[v].stale => task'[v] = task[v]
        BY <2>3, IdleCreatesNothing
    <2> QED
        BY <2>2, <2>4, <2>5, <2>6, KeysStay
<1>3. CASE World
    <2>1. UNCHANGED task
        BY <1>3, WorldTyped
    <2>2. UNCHANGED <<keys, keyGrants, wanted, crossed>>
        BY <1>3 DEF World, Authorize, ExpireToken, SetSeat, SetGrant, NextMonth, keyring
    <2>3. \A v \in Workers, what \in {"insert", "delete", "replace", "drop"} :
                First(task'[v], what) => First(task[v], what) /\ Stays(v)
        BY <1>0, <2>1, StayAll
    <2> QED
        BY <2>1, <2>2, <2>3, KeysStay
<1> QED
    BY <1>1, <1>2, <1>3

LEMMA NextOrder ==
    ASSUME Typed, KeyOrder, Next
    PROVE  KeyOrder'
<1>1. \/ \E w \in Workers : Turns(w)
      \/ \E w \in Workers : KeyStep(w)
      \/ \E s \in Servers : ServerStep(s)
      \/ \E w \in Workers : Break(w)
      \/ World
    BY NextCases DEF Typed
<1>2. CASE \E w \in Workers : Turns(w)
    BY <1>2, TurnOrder DEF Turns
<1>3. CASE \E w \in Workers : KeyStep(w)
    BY <1>3, InsertOrder, ReplacedOrder, DropOrder DEF KeyStep
<1> QED
    BY <1>1, <1>2, <1>3, OthersOrder

LEMMA InitOrder ==
    ASSUME Init
    PROVE  KeyOrder
<1>1. \A w \in Workers : task[w] = Idle
    BY DEF Init
<1>2. KeysApart /\ Queued
    BY <1>1, IdleCreatesNothing, IdleNowhere DEF KeysApart, Queued
<1>3. keys = {FirstKey} /\ crossed = {}
    BY DEF Init
<1>4. PICK g \in Offers :
        /\ keyGrants = [k \in Keys |-> IF k = FirstKey THEN g ELSE NoGrants]
        /\ wanted = [k \in Keys |-> IF k = FirstKey THEN {g} ELSE {}]
    BY DEF Init
<1>5. FirstKey \in Keys /\ g # NoGrants /\ \A l \in KeyLibraries : NoGrants[l] = "none"
    BY AccessAssumption DEF NoGrants
<1>6. KeysKnown
    BY <1>3, <1>4, <1>5 DEF KeysKnown
<1>7. Cardinality(keys) = 1 /\ 1 <= KeyLimit
    BY <1>3, FS_Singleton, AccessAssumption
<1>8. RoomLeft
    BY <1>1, <1>7, IdleNowhere DEF RoomLeft
<1>9. GrantsOfOneRequest
    BY <1>3, <1>4, <1>5 DEF GrantsOfOneRequest
<1> QED
    BY <1>2, <1>6, <1>8, <1>9 DEF KeyOrder

\* KeysAsAsked in every reachable state: more keys than the limit come only of creations
\* that overlap; a key has the grants of one request unless a replacement waited for a
\* transaction on its rows or outran its deletion, and even then each row is one somebody
\* asked for.
THEOREM KeysFollowRequests == Spec => []KeysAsAsked
<1>1. Init => Typed /\ KeyOrder
    BY InitTyped, InitOrder
<1>2. Typed /\ KeyOrder /\ [Next]_vars => (Typed /\ KeyOrder)'
    <2>1. ASSUME KeyOrder, UNCHANGED vars
          PROVE  KeyOrder'
        <3>1. UNCHANGED <<task, keys, keyGrants, wanted, crossed>>
            BY <2>1 DEF vars, keyring
        <3>2. KeysKnown' /\ RoomLeft' /\ GrantsOfOneRequest'
            BY <2>1, <3>1 DEF KeyOrder, KeysKnown, RoomLeft, GrantsOfOneRequest, First
        <3>3. KeysApart' /\ Queued'
            BY <2>1, <3>1 DEF KeyOrder, KeysApart, Queued, Holds, First, Creating
        <3> QED
            BY <3>2, <3>3 DEF KeyOrder
    <2> QED
        BY <2>1, NextTyped, NextOrder
<1>3. Typed /\ KeyOrder => KeysAsAsked
    <2>1. ASSUME Typed, KeyOrder
          PROVE  KeysWithinLimit
        <3>1. Cardinality(keys) \in Nat
            BY <2>1, FS_CardinalityType DEF Typed, Tables
        <3> QED
            BY <2>1, <3>1, AccessAssumption DEF KeyOrder, RoomLeft, KeysWithinLimit
    <2> QED
        BY <2>1 DEF KeyOrder, KeysAsAsked
<1> QED
    BY <1>1, <1>2, <1>3, PTL DEF Spec

-----------------------------------------------------------------------------
(* What a step does to each request under way, and to its history.         *)

\* The rights a request could find in the tables as they are.
ByKey(t) == IF t.alive THEN HeldByKey(keyGrants[t.key]) ELSE {}

Now(t) == CASE t.kind = "key"       -> ByKey(t)
            [] t.kind \in LookKinds -> HeldByUser(seat, grant)
            [] OTHER                -> {}

LEMMA Observed ==
    ASSUME Observe
    PROVE  \A v \in Workers :
                /\ ever'[v] = IF task'[v] = Idle THEN {} ELSE ever[v] \cup Now(task[v])'
                /\ lasting'[v] = IF IsIdle(v) THEN Now(task[v])' ELSE lasting[v] \cap Now(task[v])'
BY DEF Observe, Now, ByKey, LookKinds

\* A request is over, waits, leaves a step that changes the tables, takes one that does
\* not, or begins.
Goes(v) ==
    \/ task'[v] = Idle
    \/ Stays(v)
    \/ /\ Moved(task[v], task'[v]) /\ task'[v].have = task[v].have
       /\ \E what \in Changing : First(task[v], what)
    \/ Still /\ Kept(v, task'[v])
    \/ IsIdle(v) /\ Asked(task'[v]) /\ UNCHANGED <<keys, wanted>>

\* Keys that are made are new, and what was asked for them is not forgotten.
KeysGrow ==
    /\ \A k \in keys' : k \in keys \/ wanted[k] = {}
    /\ \A k \in Keys : wanted[k] # {} => wanted'[k] # {}

LEMMA FlushIsAsked ==
    ASSUME NEW t, t = [Idle EXCEPT !.kind = "flush", !.todo = Plain(<<"store">>)]
    PROVE  Asked(t)
<1>1. Plain(<<"store">>) \in Plans("flush")
    BY PlanSets, Zenon
<1>2. /\ t.kind = "flush" /\ t.todo = Plain(<<"store">>) /\ t.have = {} /\ ~t.waits /\ ~t.stale
      /\ t.key = NoKey
    BY DEF Idle
<1> QED
    BY <1>1, <1>2 DEF Asked, Fit, Kinds

LEMMA TurnGoes ==
    ASSUME Typed, NEW w \in Workers, NEW u \in Task, Turn(w, u)
    PROVE  KeysGrow /\ \A v \in Workers : Goes(v)
<1>1. TasksWell /\ task' = [task EXCEPT ![w] = u] /\ Still
    BY DEF Typed, Turn
<1>2. task'[w] = u /\ \A v \in Workers \ {w} : Stays(v)
    BY <1>1, Unchanged
<1>3. UNCHANGED <<keys, wanted>>
    BY <1>1 DEF Still, keyring
<1>4. KeysGrow
    BY <1>3 DEF KeysGrow
<1>5. Goes(w)
    BY <1>1, <1>2, <1>3 DEF Turn, Goes
<1> QED
    BY <1>2, <1>4, <1>5 DEF Goes

LEMMA KeyGoes ==
    ASSUME Typed, KeyOrder, NEW w \in Workers, KeyStep(w)
    PROVE  KeysGrow /\ \A v \in Workers : Goes(v)
<1>1. PICK t : t = task[w]
    OBVIOUS
<1>2. TasksWell /\ t \in Task /\ Well(t) /\ Fit(t) /\ wanted \in [Keys -> SUBSET Offers]
      /\ \A what : At(w, what) <=> First(t, what)
    BY <1>1, IdleIsEmpty DEF Typed, Tables, AllFit
<1>3. CASE InsertKey(w)
    <2>1. task' = [task EXCEPT ![w] = Idle]
        BY <1>2, <1>3, InsertEnds
    <2>2. task'[w] = Idle /\ \A v \in Workers \ {w} : Stays(v)
        BY <1>2, <2>1, Unchanged
    <2>3. First(t, "insert") /\ keys' = keys \cup {t.key}
          /\ wanted' = [wanted EXCEPT ![t.key] = @ \cup {t.grants}]
        BY <1>1, <1>2, <1>3 DEF InsertKey
    <2>4. wanted[t.key] = {}
        BY <1>1, <1>2, <2>3, FirstCreates DEF KeyOrder, KeysApart
    <2>5. KeysGrow
        BY <1>2, <2>3, <2>4 DEF KeysGrow
    <2> QED
        BY <2>2, <2>5 DEF Goes
<1>4. CASE Replaced(w)
    <2>1. /\ wanted' = [wanted EXCEPT ![t.key] = @ \cup {t.grants}]
          /\ Committed(w, Idle) /\ keys' = keys
        BY <1>1, <1>4 DEF Replaced
    <2>2. KeysGrow
        BY <1>2, <2>1 DEF KeysGrow
    <2>3. \A v \in Workers : Goes(v)
        BY <1>2, <2>1, CommitTakes DEF Goes, Stays
    <2> QED
        BY <2>2, <2>3
<1>5. CASE DropKey(w)
    <2>1. wanted' = wanted /\ Committed(w, Idle) /\ keys' = keys \ {t.key}
        BY <1>1, <1>5 DEF DropKey
    <2>2. KeysGrow
        BY <1>2, <2>1 DEF KeysGrow
    <2>3. \A v \in Workers : Goes(v)
        BY <1>2, <2>1, CommitTakes DEF Goes, Stays
    <2> QED
        BY <2>2, <2>3
<1> QED
    BY <1>3, <1>4, <1>5 DEF KeyStep

LEMMA ServerGoes ==
    ASSUME Typed, NEW s \in Servers, ServerStep(s)
    PROVE  KeysGrow /\ \A v \in Workers : Goes(v)
<1>1. s \in Workers /\ TasksWell /\ \A what : At(s, what) <=> First(task[s], what)
    BY IdleIsEmpty DEF Typed, Workers
<1>2. UNCHANGED <<keys, wanted>>
    BY DEF ServerStep, Consumed, MintToken, Meter, Buffer, Flush, StoreEvents, Die, keyring
<1>3. KeysGrow
    BY <1>2 DEF KeysGrow
<1>4. CASE Consumed(s) \/ MintToken(s) \/ Meter(s) \/ Buffer(s) \/ StoreEvents(s)
    <2>1. PICK u \in Task : Onward(s, u)
        BY <1>1, <1>4, ServerTakes
    <2>2. \E what \in Changing : First(task[s], what)
        BY <1>1, <1>4 DEF Consumed, MintToken, Meter, Buffer, StoreEvents, Changing
    <2>3. task'[s] = u /\ \A v \in Workers \ {s} : Stays(v)
        BY <1>1, <2>1, Unchanged DEF Onward
    <2>4. Goes(s)
        BY <2>1, <2>2, <2>3 DEF Onward, Goes
    <2> QED
        BY <1>3, <2>3, <2>4 DEF Goes
<1>5. CASE Flush(s)
    <2>1. PICK u : u = [Idle EXCEPT !.kind = "flush", !.todo = Plain(<<"store">>)]
        OBVIOUS
    <2>2. task' = [task EXCEPT ![s] = u] /\ IsIdle(s)
        BY <1>5, <2>1 DEF Flush
    <2>3. task'[s] = u /\ \A v \in Workers \ {s} : Stays(v)
        BY <1>1, <2>2, Unchanged
    <2>4. Asked(u)
        BY <2>1, FlushIsAsked
    <2> QED
        BY <1>2, <1>3, <2>2, <2>3, <2>4 DEF Goes
<1>6. CASE Die(s)
    BY <1>1, <1>3, <1>6, Unchanged DEF Die, Goes
<1> QED
    BY <1>4, <1>5, <1>6 DEF ServerStep

LEMMA NextGoes ==
    ASSUME Typed, KeyOrder, Next
    PROVE  Observe /\ KeysGrow /\ \A v \in Workers : Goes(v)
<1>1. /\ Observe
      /\ \/ \E w \in Workers : Turns(w)
         \/ \E w \in Workers : KeyStep(w)
         \/ \E s \in Servers : ServerStep(s)
         \/ \E w \in Workers : Break(w)
         \/ World
    BY NextCases DEF Typed
<1>2. CASE \E w \in Workers : Turns(w)
    BY <1>1, <1>2, TurnGoes DEF Turns
<1>3. CASE \E w \in Workers : KeyStep(w)
    BY <1>1, <1>3, KeyGoes
<1>4. CASE \E s \in Servers : ServerStep(s)
    BY <1>1, <1>4, ServerGoes
<1>5. CASE \E w \in Workers : Break(w)
    <2>1. PICK w \in Workers : Break(w)
        BY <1>5
    <2>2. task' = [task EXCEPT ![w] = Idle] /\ UNCHANGED <<keys, wanted>>
        BY <2>1 DEF Break, keyring
    <2>3. TasksWell
        BY DEF Typed
    <2>4. task'[w] = Idle /\ \A v \in Workers \ {w} : Stays(v)
        BY <2>2, <2>3, Unchanged
    <2> QED
        BY <1>1, <2>2, <2>4 DEF KeysGrow, Goes
<1>6. CASE World
    <2>1. UNCHANGED <<task, keys, wanted>>
        BY <1>6 DEF World, Authorize, ExpireToken, SetSeat, SetGrant, NextMonth, keyring
    <2> QED
        BY <1>1, <2>1 DEF KeysGrow, Goes, Stays, Same
<1> QED
    BY <1>1, <1>2, <1>3, <1>4, <1>5, <1>6

-----------------------------------------------------------------------------
(* Nothing is found that was not held.                                     *)

Shows(x, p) == x[2] = p[1] /\ x[3] = IF p[2] = "list" THEN "read" ELSE p[2]

Carried(v) == \A p \in task[v].have : \E x \in ever[v] : Shows(x, p)

\* A request whose key was gone when it began gets no further than the look-up of the key:
\* a key that was deleted is never made again.
DeadEnds(v) ==
    task[v].kind = "key" /\ ~task[v].alive =>
        First(task[v], "key") /\ task[v].key \in Keys \ keys /\ wanted[task[v].key] # {}

\* What is found by a step that leaves the tables alone.
LEMMA KeptFinds ==
    ASSUME Typed, NEW v \in Workers, Kept(v, task'[v])
    PROVE  \/ task'[v].have = task[v].have
           \/ First(task[v], "grants") /\ task'[v].have = FoundByKey(task[v].key)
           \/ task[v].kind \in LookKinds /\ Finds(v, task'[v])
<1>1. PICK t : t = task[v]
    OBVIOUS
<1>2. Well(t) /\ t.kind \in Kinds /\ \A what : At(v, what) <=> First(t, what)
    BY <1>1, IdleIsEmpty DEF Typed, Task, Kinds
<1>3. t.todo # <<>>
    <2>1. PICK n \in 1..Len(t.todo) : TRUE
        BY <1>1 DEF Kept, Moved
    <2>2. t.todo = <<>> => Len(t.todo) = 0
        OBVIOUS
    <2> QED
        BY <2>1, <2>2
<1>4. PICK what : First(t, what) /\ what \in WordsOf(t.kind)
    BY <1>2, <1>3, ShapeFacts DEF First
<1>5. what \notin Changing
    BY <1>1, <1>2, <1>4 DEF Kept
<1>6. t.kind \in LookKinds \/ what \in Blind \cup {"grants"}
    <2>1. \A kind \in Kinds \ LookKinds : WordsOf(kind) \subseteq Blind \cup Changing \cup {"grants"}
        BY DEF Kinds, LookKinds, WordsOf, MeterWords, Blind, Changing
    <2> QED
        BY <1>2, <1>4, <1>5, <2>1
<1>7. CASE t.kind \in LookKinds
    BY <1>1, <1>7 DEF Kept
<1>8. CASE what \in Blind
    BY <1>1, <1>2, <1>4, <1>8 DEF Kept
<1>9. CASE what = "grants"
    BY <1>1, <1>2, <1>4, <1>9 DEF Kept
<1> QED
    BY <1>6, <1>7, <1>8, <1>9

\* A request's key, and whether it was there when the request began, do not change.
LEMMA GoesOn ==
    ASSUME NEW v \in Workers, Goes(v)
    PROVE  \/ task'[v] = Idle
           \/ Same(task[v], task'[v])
           \/ IsIdle(v) /\ Asked(task'[v]) /\ UNCHANGED <<keys, wanted>>
BY DEF Goes, Stays, Moved, Kept

LEMMA DeadEndsStay ==
    ASSUME Typed, KeysGrow, NEW v \in Workers, DeadEnds(v), Goes(v)
    PROVE  DeadEnds(v)'
<1>1. PICK t : t = task[v]
    OBVIOUS
<1>2. PICK u : u = task'[v]
    OBVIOUS
<1>3. Well(t) /\ t.kind \in Kinds /\ \A what : At(v, what) <=> First(t, what)
    BY <1>1, IdleIsEmpty DEF Typed, Task, Kinds
<1>4. ASSUME t.kind = "key", ~t.alive
      PROVE  t.key \in Keys /\ t.key \notin keys' /\ wanted'[t.key] # {}
    BY <1>1, <1>4 DEF DeadEnds, KeysGrow
<1>5. ASSUME u.kind = "key", ~u.alive
      PROVE  First(u, "key") /\ u.key \in Keys \ keys' /\ wanted'[u.key] # {}
    <2>1. u # Idle
        BY <1>5 DEF Idle
    <2>2. CASE Stays(v)
        <3>1. Same(t, u) /\ u.todo = t.todo
            BY <1>1, <1>2, <2>2 DEF Stays
        <3>2. t.kind = "key" /\ ~t.alive /\ u.key = t.key
            BY <1>5, <3>1 DEF Same
        <3> QED
            BY <1>1, <1>4, <3>1, <3>2 DEF DeadEnds, First
    <2>3. CASE Same(t, u) /\ ~Stays(v)
        <3>1. t.kind = "key" /\ ~t.alive /\ u.key = t.key
            BY <1>5, <2>3 DEF Same
        <3>2. First(t, "key") /\ t.key \notin keys
            BY <1>1, <3>1 DEF DeadEnds
        <3>3. ~IsIdle(v)
            BY <1>1, <3>2 DEF First, IsIdle
        <3>4. ~Kept(v, u)
            BY <1>1, <1>3, <3>2 DEF Kept
        <3>5. \A what \in Changing : ~First(t, what)
            BY <3>2 DEF First, Changing
        <3> QED
            BY <1>1, <1>2, <2>1, <2>3, <3>3, <3>4, <3>5 DEF Goes
    <2>4. CASE IsIdle(v) /\ Asked(u) /\ UNCHANGED <<keys, wanted>>
        <3>1. u.todo \in Plans("key") /\ u.key \in Keys /\ wanted[u.key] # {} /\ u.key \notin keys
            BY <1>5, <2>4 DEF Asked
        <3>2. u.todo = Plain(KeyWords)
            BY <3>1, KeyPlan, PlanSets
        <3>3. PICK K : K = KeyWords
            OBVIOUS
        <3>4. K \in Seq(Steps) /\ Len(K) = 7 /\ K[1] = "key"
            BY <3>3 DEF KeyWords, Steps
        <3>5. PICK s : s = u.todo
            OBVIOUS
        <3>6. s \in Seq(Asks) /\ Len(s) = 7 /\ s[1].do = "key"
            BY <3>2, <3>3, <3>4, <3>5, PlainSteps
        <3>7. First(u, "key")
            BY <3>5, <3>6 DEF First
        <3> QED
            BY <2>4, <3>1, <3>7
    <2> QED
        BY <1>1, <1>2, <2>1, <2>2, <2>3, <2>4, GoesOn
<1> QED
    BY <1>2, <1>5 DEF DeadEnds, First

LEMMA CarriedStays ==
    ASSUME Typed, Observe, NEW v \in Workers, Carried(v), DeadEnds(v), Goes(v)
    PROVE  Carried(v)'
<1>1. PICK t : t = task[v]
    OBVIOUS
<1>2. PICK u : u = task'[v]
    OBVIOUS
<1>3. ever'[v] = IF u = Idle THEN {} ELSE ever[v] \cup Now(task[v])'
    BY <1>2, Observed
<1>4. CASE u = Idle
    <2>1. u.have = {}
        BY <1>4 DEF Idle
    <2> QED
        BY <1>2, <2>1 DEF Carried
<1>5. ASSUME u # Idle, NEW p \in u.have
      PROVE  \E x \in ever'[v] : Shows(x, p)
    <2>1. ever[v] \cup Now(task[v])' \subseteq ever'[v]
        BY <1>3, <1>5
    <2>2. CASE p \in t.have
        BY <1>1, <2>1, <2>2 DEF Carried
    <2>3. CASE p \notin t.have
        <3>1. u.have # t.have /\ u.have # {}
            BY <1>5, <2>3
        <3>2. Still /\ Kept(v, u)
            BY <1>1, <1>2, <1>5, <3>1 DEF Goes, Stays, Asked
        <3>3. Same(t, u)
            BY <1>1, <3>2 DEF Kept, Moved
        <3>4. UNCHANGED <<keyGrants, seat, grant>>
            BY <3>2 DEF Still, keyring, access
        <3>5. CASE First(t, "grants") /\ u.have = FoundByKey(t.key)
            <4>1. t.kind = "key" /\ u.kind = "key" /\ u.key = t.key /\ u.alive = t.alive
                BY <1>1, <3>3, <3>5, IdleIsEmpty, WordKind DEF Typed, Same
            <4>2. ~First(t, "key")
                BY <3>5 DEF First
            <4>3. t.alive \in BOOLEAN
                BY <1>1, IdleIsEmpty DEF Typed, Task
            <4>4. u.alive
                BY <1>1, <4>1, <4>2 DEF DeadEnds
            <4>5. Now(task[v])' = HeldByKey(keyGrants[t.key])
                <5>1. Now(task[v])' = ByKey(task[v])'
                    BY <1>2, <4>1 DEF Now, LookKinds
                <5>2. task'[v].alive /\ task'[v].key = t.key /\ keyGrants' = keyGrants
                    BY <1>2, <3>4, <4>1, <4>4
                <5>3. ByKey(task[v])' = HeldByKey(keyGrants[t.key])
                    BY <5>2 DEF ByKey
                <5> QED
                    BY <5>1, <5>3, Zenon
            <4>6. PICK x \in HeldByKey(keyGrants[t.key]) : p = <<x[2], x[3]>>
                BY <1>5, <3>5 DEF FoundByKey
            <4>7. x[3] # "list"
                BY DEF HeldByKey
            <4> QED
                BY <2>1, <4>5, <4>6, <4>7 DEF Shows
        <3>6. CASE t.kind \in LookKinds /\ Finds(v, u)
            <4>1. PICK x \in HeldByUser(seat, grant) : Shows(x, p)
                BY <1>1, <1>5, <2>3, <3>6 DEF Finds, Grounded, Shows
            <4>2. u.kind \in LookKinds
                BY <3>3, <3>6 DEF Same
            <4>3. Now(task[v])' = HeldByUser(seat, grant)
                BY <1>2, <3>4, <4>2 DEF Now, LookKinds
            <4> QED
                BY <2>1, <4>1, <4>3
        <3> QED
            BY <1>1, <1>2, <3>1, <3>2, <3>5, <3>6, KeptFinds
    <2> QED
        BY <2>2, <2>3
<1> QED
    BY <1>2, <1>4, <1>5 DEF Carried

-----------------------------------------------------------------------------
(* Nothing that was held throughout is missed.                             *)

\* What is owed has been found or is still to be asked.
Got(u, x, right) ==
    <<x[2], right>> \in u.have \/ InTodo(u.todo, StepFor(x[1], x[2], right))

LastOf(t) == t.todo[Len(t.todo)]

Sought(v) ==
    task[v].kind \in LookKinds =>
        /\ lasting[v] \subseteq Holdable
        /\ \A x \in lasting[v] : \A right \in Owed(task[v].kind, LastOf(task[v]), x) :
                Got(task[v], x, right)

\* A key's rows are found as they are.
KeyRead(v) ==
    task[v].kind = "key" /\ First(task[v], "account") =>
        \A x \in lasting[v] : <<x[2], x[3]>> \in task[v].have

LEMMA HeldIsHoldable == \A s, g : HeldByUser(s, g) \subseteq Holdable
BY DEF HeldByUser, Holdable, Rights

\* The step for a right answers yes while the right is held.
LEMMA StepAnswers ==
    ASSUME Tables, NEW x \in HeldByUser(seat, grant), NEW right \in {"list", "read", x[3]},
           NEW have, Dealt(StepFor(x[1], x[2], right), have)
    PROVE  <<x[2], right>> \in have
<1>1. x \in Holdable /\ right \in Targets
    BY HeldIsHoldable, StepsFor DEF HeldByUser, Targets, Rights
<1>2. PICK q : q = StepFor(x[1], x[2], right)
    OBVIOUS
<1>3. /\ x[2] \in Team /\ x[1] \in {"grant", "admin", "seat"} /\ x[3] \in Rights
      /\ x[1] = "seat" => x[2] \in Open /\ x[3] = "read"
      /\ right = "list" => q = IF x[1] = "grant" THEN Granted
                               ELSE IF x[2] \in Open THEN Orgs ELSE Ask(x[1], x[2], "list")
      /\ right = "list" /\ x[1] # "grant" /\ x[2] \notin Open => x[1] = "admin"
      /\ right # "list" => q = Ask(IF x[1] = "grant" THEN "role" ELSE x[1], x[2], right)
    BY <1>1, <1>2, StepsFor
<1>4. /\ x[1] = "grant" => Allows(grant[x[2]], x[3])
      /\ x[1] = "admin" => seat = "admin"
      /\ x[1] = "seat" => seat # "removed"
    BY DEF HeldByUser
<1>5. x[1] # "grant" => Active(seat)
    BY <1>3, <1>4 DEF Tables, Active
<1>6. \A role : Allows(role, x[3]) => role # "none" /\ Allows(role, "read")
    BY <1>3 DEF Allows, Rights
<1>7. /\ q.do = "granted" => \A l \in Team : grant[l] # "none" => <<l, "list">> \in have
      /\ q.do = "orgs" /\ Active(seat) => \A l \in Open : <<l, "list">> \in have
      /\ q.do \in QuestionWords /\ Yes(q) => <<q.lib, q.right>> \in have
    BY <1>2 DEF Dealt
<1>8. CASE right = "list" /\ x[1] = "grant"
    <2>1. q.do = "granted"
        BY <1>3, <1>8 DEF Granted, Ask
    <2> QED
        BY <1>3, <1>4, <1>6, <1>7, <1>8, <2>1
<1>9. CASE right = "list" /\ x[1] # "grant" /\ x[2] \in Open
    <2>1. q.do = "orgs"
        BY <1>3, <1>9 DEF Orgs, Ask
    <2> QED
        BY <1>5, <1>7, <1>9, <2>1
<1>10. CASE right = "list" /\ x[1] # "grant" /\ x[2] \notin Open
    <2>1. q = Ask("admin", x[2], "list") /\ seat = "admin"
        BY <1>3, <1>4, <1>10
    <2>2. q.do = "admin" /\ q.lib = x[2] /\ q.right = "list"
        BY <2>1 DEF Ask
    <2>3. Yes(q) /\ q.do \in QuestionWords
        BY <2>1, <2>2 DEF Yes, QuestionWords
    <2> QED
        BY <1>7, <1>10, <2>2, <2>3
<1>11. CASE right # "list"
    <2>1. q.do = (IF x[1] = "grant" THEN "role" ELSE x[1]) /\ q.lib = x[2] /\ q.right = right
        BY <1>3, <1>11 DEF Ask
    <2>2. q.do \in QuestionWords
        BY <1>3, <2>1 DEF QuestionWords
    <2>3. CASE x[1] = "grant"
        <3>1. Allows(grant[x[2]], right)
            BY <1>4, <1>6, <1>11, <2>3
        <3> QED
            BY <1>7, <2>1, <2>2, <2>3, <3>1 DEF Yes
    <2>4. CASE x[1] = "admin"
        BY <1>4, <1>7, <2>1, <2>2, <2>4 DEF Yes
    <2>5. CASE x[1] = "seat"
        BY <1>3, <1>5, <1>7, <2>1, <2>2, <2>5 DEF Yes
    <2> QED
        BY <1>3, <2>3, <2>4, <2>5
<1> QED
    BY <1>8, <1>9, <1>10, <1>11

LEMMA StepIs ==
    ASSUME NEW x \in Holdable, NEW right \in Targets, NEW q, q = StepFor(x[1], x[2], right)
    PROVE  /\ q.do \in {"granted", "orgs"} \cup QuestionWords
           /\ q.do \in QuestionWords =>
                q.lib = x[2] /\ q.right = right /\ (right = "list" => x[1] = "admin")
           /\ right # "list" => q.do \in QuestionWords
<1>1. /\ x[1] \in {"grant", "admin", "seat"}
      /\ right = "list" => q = IF x[1] = "grant" THEN Granted
                               ELSE IF x[2] \in Open THEN Orgs ELSE Ask(x[1], x[2], "list")
      /\ right = "list" /\ x[1] # "grant" /\ x[2] \notin Open => x[1] = "admin"
      /\ right # "list" => q = Ask(IF x[1] = "grant" THEN "role" ELSE x[1], x[2], right)
    BY StepsFor
<1>2. CASE right = "list" /\ x[1] = "grant"
    <2>1. q.do = "granted"
        BY <1>1, <1>2 DEF Granted, Ask
    <2> QED
        BY <1>2, <2>1 DEF QuestionWords
<1>3. CASE right = "list" /\ x[1] # "grant" /\ x[2] \in Open
    <2>1. q.do = "orgs"
        BY <1>1, <1>3 DEF Orgs, Ask
    <2> QED
        BY <1>3, <2>1 DEF QuestionWords
<1>4. CASE right = "list" /\ x[1] # "grant" /\ x[2] \notin Open
    <2>1. q = Ask("admin", x[2], "list") /\ x[1] = "admin"
        BY <1>1, <1>4
    <2>2. q.do = "admin" /\ q.lib = x[2] /\ q.right = "list"
        BY <2>1 DEF Ask
    <2> QED
        BY <1>4, <2>1, <2>2 DEF QuestionWords
<1>5. CASE right # "list"
    <2>1. PICK what \in QuestionWords : q = Ask(what, x[2], right)
        BY <1>1, <1>5 DEF QuestionWords
    <2>2. q.do = what /\ q.lib = x[2] /\ q.right = right
        BY <2>1 DEF Ask
    <2> QED
        BY <1>5, <2>2
<1> QED
    BY <1>2, <1>3, <1>4, <1>5

\* What is owed is looked up in the order in which one right needs another.
LEMMA OwedInOrder ==
    ASSUME NEW kind \in LookKinds, NEW page, NEW x \in Holdable, NEW right \in Owed(kind, page, x)
    PROVE  /\ right \in {"list", "read", x[3]} /\ right \in Targets
           /\ Stage(kind, StepFor(x[1], x[2], right)) < 7
           /\ Needs(kind, right) \in {"nothing", "list", "read"}
           /\ Needs(kind, right) # "nothing" =>
                /\ Needs(kind, right) \in Owed(kind, page, x)
                /\ Stage(kind, StepFor(x[1], x[2], Needs(kind, right)))
                        < Stage(kind, StepFor(x[1], x[2], right))
           /\ Needs(kind, "list") = "nothing" /\ Needs(kind, "read") \in {"nothing", "list"}
<1>1. kind \in {"token", "listing", "page", "record"}
    BY DEF LookKinds
<1>2. x[3] \in Rights /\ right \in {"list", "read", x[3]} /\ right \in Targets
    BY <1>1, StepsFor DEF Owed, Targets, Rights
<1>3. /\ Needs(kind, right) \in {"nothing", "list", "read"}
      /\ Needs(kind, right) # "nothing" =>
            /\ Needs(kind, right) \in Owed(kind, page, x) /\ kind # "record"
            /\ IF Needs(kind, right) = "list" THEN right \in {"read", "maintain"}
                                              ELSE right \in {"write", "maintain"}
      /\ Needs(kind, "list") = "nothing" /\ Needs(kind, "read") \in {"nothing", "list"}
    BY <1>1, <1>2 DEF Needs, Owed, Targets, Rights
<1>4. \A r \in Targets :
        /\ StepFor(x[1], x[2], r).do \in {"granted", "orgs"} \cup QuestionWords
        /\ StepFor(x[1], x[2], r).do \in QuestionWords => StepFor(x[1], x[2], r).right = r
        /\ r # "list" => StepFor(x[1], x[2], r).do \in QuestionWords
    BY StepIs
<1>5. Stage(kind, StepFor(x[1], x[2], "list")) \in 1..3
    BY <1>4 DEF Stage, QuestionWords, Targets
<1>6. \A r \in Rights : Stage(kind, StepFor(x[1], x[2], r)) =
            CASE r = "read" -> IF kind = "record" THEN 0 ELSE 4
              [] r = "write" -> 5 [] OTHER -> 6
    BY <1>4 DEF Stage, QuestionWords, Targets, Rights
<1> QED
    BY <1>2, <1>3, <1>5, <1>6 DEF Rights, Targets

\* A right that is held is not passed over.
LEMMA HeldIsNotPassed ==
    ASSUME Typed, NEW v \in Workers, task[v].kind \in LookKinds, NEW u, Finds(v, u),
           NEW x \in HeldByUser(seat, grant),
           NEW right \in Owed(task[v].kind, LastOf(task[v]), x), Got(task[v], x, right),
           Needs(task[v].kind, right) = "nothing" \/ Got(u, x, Needs(task[v].kind, right))
    PROVE  Got(u, x, right)
<1>1. PICK t : t = task[v]
    OBVIOUS
<1>2. Well(t) /\ Tables /\ x \in Holdable
    BY <1>1, IdleIsEmpty, HeldIsHoldable DEF Typed
<1>3. PICK s \in Seq(Asks) : s = t.todo
    BY <1>2 DEF Well, Shape
<1>4. PICK need : need = Needs(t.kind, right)
    OBVIOUS
<1>5. PICK q : q = StepFor(x[1], x[2], right)
    OBVIOUS
<1>6. PICK q2 : q2 = StepFor(x[1], x[2], need)
    OBVIOUS
<1>7. /\ right \in {"list", "read", x[3]} /\ right \in Targets
      /\ need # "nothing" => Stage(t.kind, q2) < Stage(t.kind, q)
    BY <1>1, <1>2, <1>4, <1>5, <1>6, OwedInOrder
<1>8. need = "nothing" \/ <<x[2], need>> \in u.have \/ InTodo(u.todo, q2)
    BY <1>1, <1>4, <1>6 DEF Got
<1>9. CASE <<x[2], right>> \in t.have
    BY <1>1, <1>9 DEF Finds, Got
<1>10. CASE InTodo(s, q)
    <2>1. PICK j \in 1..Len(s) : s[j] = q
        BY <1>10 DEF InTodo
    <2>2. PICK n \in 1..Len(s) :
            IsRest(u.todo, s, n) /\ \A i \in 1..n : Passed(t.kind, s[i], u.have)
        BY <1>1, <1>3 DEF Finds
    <2>3. PICK r \in Seq(Asks) : r = u.todo
        BY <2>2 DEF IsRest
    <2>4. Len(r) = Len(s) - n /\ (\A i \in 1..Len(r) : r[i] = s[n+i]) /\ Len(s) \in Nat
        BY <2>2, <2>3 DEF IsRest
    <2>5. CASE j > n
        <3>1. j - n \in 1..Len(r) /\ n + (j - n) = j
            BY <2>1, <2>2, <2>4, <2>5
        <3>2. r[j - n] = q
            BY <2>1, <2>4, <3>1
        <3>3. InTodo(r, q)
            BY <3>1, <3>2 DEF InTodo
        <3> QED
            BY <1>5, <2>3, <3>3 DEF Got
    <2>6. CASE j <= n
        <3>1. j \in 1..n
            BY <2>1, <2>2, <2>6
        <3>2. Passed(t.kind, q, u.have)
            BY <2>1, <2>2, <3>1
        <3>3. CASE Dealt(q, u.have)
            BY <1>2, <1>5, <1>7, <3>3, StepAnswers DEF Got
        <3>4. q.do \in QuestionWords => q.lib = x[2] /\ q.right = right
            BY <1>2, <1>5, <1>7, StepIs
        <3>5. CASE Settled(t.kind, q, u.have)
            <4>1. q.do \in QuestionWords
                BY <3>5 DEF Settled, QuestionWords
            <4>2. CASE <<q.lib, q.right>> \in u.have
                BY <3>4, <4>1, <4>2 DEF Got
            <4>3. CASE need # "nothing" /\ <<x[2], need>> \notin u.have
                <5>1. InTodo(r, q2)
                    BY <1>8, <2>3, <4>3
                <5>2. PICK i \in 1..Len(r) : r[i] = q2
                    BY <5>1 DEF InTodo
                <5>3. s[n+i] = q2 /\ n + i \in 1..Len(s) /\ j < n + i
                    BY <2>1, <2>2, <2>4, <2>6, <5>2
                <5>4. InOrder(t.kind, s)
                    BY <1>1, <1>2, <1>3 DEF Well, Shape, Looking
                <5>5. PICK a \in 0..7, b \in 0..7 : a = Stage(t.kind, q) /\ b = Stage(t.kind, q2)
                    BY StageType
                <5>6. a < b \/ a = b
                    BY <2>1, <5>3, <5>4, <5>5 DEF InOrder
                <5> QED
                    BY <1>7, <4>3, <5>5, <5>6
            <4> QED
                BY <1>4, <3>4, <3>5, <4>1, <4>2, <4>3 DEF Settled
        <3>6. CASE q.right = "list" /\ q.do \in QuestionWords /\ ~Active(seat)
            <4>1. right = "list"
                BY <3>4, <3>6
            <4>2. x[1] = "admin"
                BY <1>2, <1>5, <1>7, <3>6, <4>1, StepIs
            <4>3. seat = "admin"
                BY <4>2 DEF HeldByUser
            <4> QED
                BY <3>6, <4>3 DEF Active
        <3> QED
            BY <3>2, <3>3, <3>5, <3>6 DEF Passed
    <2> QED
        BY <2>1, <2>2, <2>5, <2>6
<1> QED
    BY <1>1, <1>3, <1>5, <1>9, <1>10 DEF Got

\* When no question is left, all that is owed has been found.
LEMMA AllIsFound ==
    ASSUME NEW t, Well(t), t.kind \in LookKinds, t.todo # <<>>, Stage(t.kind, Head(t.todo)) = 7,
           NEW x \in Holdable, NEW right \in Owed(t.kind, LastOf(t), x), Got(t, x, right)
    PROVE  <<x[2], right>> \in t.have
<1>1. PICK s \in Seq(Asks) : s = t.todo
    BY DEF Well, Shape
<1>2. Len(s) > 0 /\ Len(s) \in Nat /\ Head(s) = s[1]
    BY <1>1, ShapeFacts
<1>3. PICK q : q = StepFor(x[1], x[2], right)
    OBVIOUS
<1>4. Stage(t.kind, q) < 7
    BY <1>3, OwedInOrder
<1>5. ASSUME InTodo(s, q)
      PROVE  FALSE
    <2>1. PICK j \in 1..Len(s) : s[j] = q
        BY <1>5 DEF InTodo
    <2>2. InOrder(t.kind, s)
        BY <1>1 DEF Well, Shape, Looking
    <2>3. PICK a \in 0..7 : a = Stage(t.kind, q)
        BY StageType
    <2>4. Stage(t.kind, s[1]) = 7
        BY <1>1, <1>2
    <2>5. j # 1
        BY <1>4, <2>1, <2>3, <2>4
    <2>6. 1 \in 1..Len(s) /\ 1 < j
        BY <1>2, <2>1, <2>5
    <2>7. 7 < a \/ 7 = a
        BY <2>1, <2>2, <2>3, <2>4, <2>6 DEF InOrder
    <2> QED
        BY <1>4, <2>3, <2>7
<1> QED
    BY <1>1, <1>3, <1>5 DEF Got

\* The last step of a request stays the last.
LEMMA LastStays ==
    ASSUME NEW t, NEW u, Well(t), Moved(t, u)
    PROVE  LastOf(u) = LastOf(t)
<1>1. PICK n \in 1..Len(t.todo) : IsRest(u.todo, t.todo, n)
    BY DEF Moved
<1>2. Shape(t.kind, t.todo) /\ u.todo # <<>>
    BY DEF Well, Moved
<1>3. PICK r \in Seq(Asks) : r = u.todo
    BY <1>1 DEF IsRest
<1>4. Len(r) > 0
    BY <1>2, <1>3
<1> QED
    BY <1>1, <1>2, <1>3, <1>4, RestShape DEF LastOf

\* What is owed for a right that is still held is got, each right after the one it needs.
LEMMA HeldIsGot ==
    ASSUME Typed, NEW v \in Workers, task[v].kind \in LookKinds, NEW u, Finds(v, u),
           NEW x \in HeldByUser(seat, grant),
           \A right \in Owed(task[v].kind, LastOf(task[v]), x) : Got(task[v], x, right)
    PROVE  \A right \in Owed(task[v].kind, LastOf(task[v]), x) : Got(u, x, right)
<1>1. PICK t : t = task[v]
    OBVIOUS
<1>2. PICK owed : owed = Owed(t.kind, LastOf(t), x)
    OBVIOUS
<1>3. x \in Holdable
    BY HeldIsHoldable
<1>4. \A right \in owed :
        /\ Needs(t.kind, right) \in {"nothing", "list", "read"}
        /\ Needs(t.kind, right) # "nothing" => Needs(t.kind, right) \in owed
        /\ Needs(t.kind, "list") = "nothing" /\ Needs(t.kind, "read") \in {"nothing", "list"}
    BY <1>1, <1>2, <1>3, OwedInOrder
<1>5. \A right \in owed :
        Needs(t.kind, right) = "nothing" \/ Got(u, x, Needs(t.kind, right)) => Got(u, x, right)
    BY <1>1, <1>2, HeldIsNotPassed
<1>6. "list" \in owed => Got(u, x, "list")
    BY <1>4, <1>5
<1>7. "read" \in owed => Got(u, x, "read")
    BY <1>4, <1>5, <1>6
<1>8. \A right \in owed : Got(u, x, right)
    BY <1>4, <1>5, <1>6, <1>7
<1> QED
    BY <1>1, <1>2, <1>8

LEMMA SoughtStays ==
    ASSUME Typed, Observe, NEW v \in Workers, Sought(v), Goes(v)
    PROVE  Sought(v)'
<1>1. PICK t : t = task[v]
    OBVIOUS
<1>2. PICK u : u = task'[v]
    OBVIOUS
<1>3. Well(t) /\ (IsIdle(v) => t = Idle) /\ \A what : At(v, what) <=> First(t, what)
    BY <1>1, IdleIsEmpty DEF Typed
<1>4. lasting'[v] = IF IsIdle(v) THEN Now(task[v])' ELSE lasting[v] \cap Now(task[v])'
    BY Observed
<1>5. ASSUME u.kind \in LookKinds
      PROVE  Now(task[v])' = HeldByUser(seat', grant')
    BY <1>2, <1>5 DEF Now, LookKinds
<1>6. Idle.kind \notin LookKinds
    BY DEF Idle, LookKinds
<1>7. ASSUME u.kind \in LookKinds
      PROVE  /\ lasting'[v] \subseteq Holdable
             /\ \A x \in lasting'[v] : \A right \in Owed(u.kind, LastOf(u), x) : Got(u, x, right)
    <2>1. u # Idle
        BY <1>6, <1>7
    <2>2. ASSUME Same(t, u)
          PROVE  /\ t.kind \in LookKinds /\ u.kind = t.kind /\ ~IsIdle(v)
                 /\ lasting'[v] \subseteq lasting[v] /\ lasting'[v] \subseteq HeldByUser(seat', grant')
                 /\ lasting[v] \subseteq Holdable
                 /\ \A x \in lasting[v] : \A right \in Owed(t.kind, LastOf(t), x) : Got(t, x, right)
        <3>1. t.kind \in LookKinds /\ u.kind = t.kind
            BY <1>7, <2>2 DEF Same
        <3>2. ~IsIdle(v)
            BY <1>3, <1>6, <3>1
        <3> QED
            BY <1>1, <1>4, <1>5, <1>7, <3>1, <3>2 DEF Sought
    <2>3. CASE Stays(v)
        <3>1. Same(t, u) /\ u.todo = t.todo /\ u.have = t.have
            BY <1>1, <1>2, <2>3 DEF Stays
        <3>2. LastOf(u) = LastOf(t) /\ \A x, right : Got(t, x, right) => Got(u, x, right)
            BY <3>1 DEF LastOf, Got
        <3> QED
            BY <2>2, <3>1, <3>2
    <2>4. CASE Moved(t, u) /\ u.have = t.have /\ \E what \in Changing : First(t, what)
        <3>1. Same(t, u)
            BY <2>4 DEF Moved
        <3>2. PICK what \in Changing : First(t, what)
            BY <2>4
        <3>3. t.todo # <<>> /\ Head(t.todo).do = what
            BY <3>2 DEF First
        <3>4. what \in WordsOf(t.kind)
            BY <1>3, <3>3, ShapeFacts
        <3>5. what \in {"meter", "buffer"}
            BY <2>2, <3>1, <3>4 DEF LookKinds, WordsOf, LookWords, MeterWords, Changing
        <3>6. Stage(t.kind, Head(t.todo)) = 7
            BY <3>3, <3>5 DEF Stage
        <3>7. LastOf(u) = LastOf(t)
            BY <1>3, <2>4, LastStays
        <3>8. ASSUME NEW x \in lasting'[v], NEW right \in Owed(t.kind, LastOf(t), x)
              PROVE  Got(u, x, right)
            <4>1. x \in Holdable /\ Got(t, x, right) /\ t.kind \in LookKinds
                BY <2>2, <3>1, <3>8
            <4>2. <<x[2], right>> \in t.have
                BY <1>3, <3>3, <3>6, <3>8, <4>1, AllIsFound
            <4> QED
                BY <2>4, <4>2 DEF Got
        <3> QED
            BY <2>2, <3>1, <3>7, <3>8
    <2>5. CASE Still /\ Kept(v, u)
        <3>1. Same(t, u) /\ Moved(t, u)
            BY <1>1, <2>5 DEF Kept, Moved
        <3>2. LastOf(u) = LastOf(t)
            BY <1>3, <3>1, LastStays
        <3>3. seat' = seat /\ grant' = grant
            BY <2>5 DEF Still, access
        <3>4. Finds(v, u)
            BY <1>1, <2>2, <2>5, <3>1 DEF Kept
        <3>5. ASSUME NEW x \in lasting'[v]
              PROVE  \A right \in Owed(t.kind, LastOf(t), x) : Got(u, x, right)
            <4>1. x \in HeldByUser(seat, grant) /\ x \in lasting[v]
                BY <2>2, <3>1, <3>3, <3>5
            <4> QED
                BY <1>1, <2>2, <3>1, <3>4, <4>1, HeldIsGot
        <3> QED
            BY <2>2, <3>1, <3>2, <3>5
    <2>6. CASE IsIdle(v) /\ Asked(u)
        <3>1. u.todo \in Plans(u.kind)
            BY <2>6 DEF Asked
        <3>2. LooksUp(u.kind, u.todo)
            BY <1>7, <3>1, LookPlans
        <3>3. lasting'[v] \subseteq Holdable
            BY <1>4, <1>5, <1>7, <2>6, HeldIsHoldable
        <3> QED
            BY <3>2, <3>3 DEF LooksUp, Got, LastOf
    <2> QED
        BY <1>1, <1>2, <2>1, <2>3, <2>4, <2>5, <2>6 DEF Goes
<1> QED
    BY <1>2, <1>7 DEF Sought, Got, LastOf

LEMMA KeyReadStays ==
    ASSUME Typed, Observe, NEW v \in Workers, KeyRead(v), Goes(v)
    PROVE  KeyRead(v)'
<1>1. PICK t : t = task[v]
    OBVIOUS
<1>2. PICK u : u = task'[v]
    OBVIOUS
<1>3. Well(t) /\ (IsIdle(v) <=> t.todo = <<>>) /\ \A what : At(v, what) <=> First(t, what)
    BY <1>1, IdleIsEmpty DEF Typed, IsIdle
<1>4. lasting'[v] = IF IsIdle(v) THEN Now(task[v])' ELSE lasting[v] \cap Now(task[v])'
    BY Observed
<1>5. ASSUME u.kind = "key", First(u, "account"), NEW x \in lasting'[v]
      PROVE  <<x[2], x[3]>> \in u.have
    <2>1. u # Idle
        BY <1>5 DEF Idle
    <2>2. CASE Stays(v)
        <3>1. Same(t, u) /\ u.todo = t.todo /\ u.have = t.have
            BY <1>1, <1>2, <2>2 DEF Stays
        <3>2. t.kind = "key" /\ First(t, "account") /\ ~IsIdle(v)
            BY <1>3, <1>5, <3>1 DEF Same, First
        <3> QED
            BY <1>1, <1>4, <1>5, <3>1, <3>2 DEF KeyRead
    <2>3. ASSUME Moved(t, u)
          PROVE  First(t, "grants") /\ t.kind = "key" /\ u.key = t.key /\ u.alive = t.alive /\ ~IsIdle(v)
        BY <1>3, <1>5, <2>3 DEF Moved, Same, First
    <2>4. CASE Moved(t, u) /\ \E what \in Changing : First(t, what)
        BY <2>3, <2>4 DEF First, Changing
    <2>5. CASE Still /\ Kept(v, u)
        <3>1. Moved(t, u)
            BY <1>1, <2>5 DEF Kept
        <3>2. u.have = FoundByKey(t.key)
            BY <1>1, <1>3, <2>3, <2>5, <3>1 DEF Kept
        <3>3. keyGrants' = keyGrants
            BY <2>5 DEF Still, keyring
        <3>4. x \in Now(task[v])'
            BY <1>4, <1>5
        <3>5. Now(task[v])' = ByKey(task[v])'
            BY <1>2, <1>5 DEF Now, LookKinds
        <3>6. task'[v].key = t.key /\ keyGrants' = keyGrants
            BY <1>2, <2>3, <3>1, <3>3
        <3>7. ByKey(task[v])' \subseteq HeldByKey(keyGrants[t.key])
            BY <3>6 DEF ByKey
        <3> QED
            BY <3>2, <3>4, <3>5, <3>7 DEF FoundByKey
    <2>6. CASE IsIdle(v) /\ Asked(u)
        <3>1. u.todo \in Plans("key") /\ "key" \in Kinds
            BY <1>5, <2>6 DEF Asked, Kinds
        <3>2. PICK s : s = u.todo
            OBVIOUS
        <3>3. Shape("key", s) /\ s[1].do # "account"
            BY <3>1, <3>2, PlanShape
        <3>4. s \in Seq(Asks) /\ s # <<>> => Head(s) = s[1]
            OBVIOUS
        <3> QED
            BY <1>5, <3>2, <3>3, <3>4 DEF First, Shape
    <2> QED
        BY <1>1, <1>2, <2>1, <2>2, <2>4, <2>5, <2>6 DEF Goes
<1> QED
    BY <1>2, <1>5 DEF KeyRead, First

RightsFound ==
    \A v \in Workers : Carried(v) /\ DeadEnds(v) /\ Sought(v) /\ KeyRead(v)

LEMMA InitFinds ==
    ASSUME Init
    PROVE  RightsFound
<1>1. \A v \in Workers : task[v] = Idle
    BY DEF Init
<1>2. Idle.kind = "none" /\ Idle.have = {} /\ "none" \notin LookKinds
    BY DEF Idle, LookKinds
<1> QED
    BY <1>1, <1>2 DEF RightsFound, Carried, DeadEnds, Sought, KeyRead

LEMMA NextFinds ==
    ASSUME Typed, KeyOrder, RightsFound, Next
    PROVE  RightsFound'
<1>1. Observe /\ KeysGrow /\ \A v \in Workers : Goes(v)
    BY NextGoes
<1>2. \A v \in Workers : Carried(v) /\ DeadEnds(v) /\ Sought(v) /\ KeyRead(v)
    BY DEF RightsFound
<1>3. \A v \in Workers : Carried(v)'
    BY <1>1, <1>2, CarriedStays
<1>4. \A v \in Workers : DeadEnds(v)'
    BY <1>1, <1>2, DeadEndsStay
<1>5. \A v \in Workers : Sought(v)'
    BY <1>1, <1>2, SoughtStays
<1>6. \A v \in Workers : KeyRead(v)'
    BY <1>1, <1>2, KeyReadStays
<1> QED
    BY <1>3, <1>4, <1>5, <1>6 DEF RightsFound

LEMMA FoundAtTheEnd ==
    ASSUME Typed, RightsFound
    PROVE  NoRightMissed
<1>1. ASSUME NEW w \in Workers, At(w, "account"), NEW x \in lasting[w]
      PROVE  Due(task[w], x) \subseteq task[w].have
    <2>1. PICK t : t = task[w]
        OBVIOUS
    <2>2. Well(t) /\ First(t, "account") /\ Sought(w) /\ KeyRead(w)
        BY <1>1, <2>1, IdleIsEmpty DEF Typed, RightsFound
    <2>3. "account" \in MeterWords
        BY DEF MeterWords
    <2>4. t.kind \in {"key", "token"}
        BY <2>2, <2>3, WordKind
    <2>5. Due(t, x) = {<<x[2], x[3]>>}
        BY <2>4 DEF Due
    <2>6. CASE t.kind = "key"
        BY <1>1, <2>1, <2>2, <2>5, <2>6 DEF KeyRead
    <2>7. CASE t.kind = "token"
        <3>1. t.kind \in LookKinds
            BY <2>7 DEF LookKinds
        <3>2. x[3] \in Owed(t.kind, LastOf(t), x)
            BY <2>7 DEF Owed
        <3>3. x \in Holdable /\ Got(t, x, x[3])
            BY <1>1, <2>1, <2>2, <3>1, <3>2 DEF Sought
        <3>4. t.todo # <<>> /\ Stage(t.kind, Head(t.todo)) = 7
            BY <2>2 DEF First, Stage
        <3> QED
            BY <2>1, <2>2, <2>5, <3>1, <3>2, <3>3, <3>4, AllIsFound
    <2> QED
        BY <2>4, <2>6, <2>7
<1>2. ASSUME NEW w \in Workers, At(w, "page"), NEW x \in lasting[w]
      PROVE  Due(task[w], x) \subseteq task[w].have
    <2>1. PICK t : t = task[w]
        OBVIOUS
    <2>2. Well(t) /\ First(t, "page") /\ Sought(w) /\ t.kind \in Kinds
        BY <1>2, <2>1, IdleIsEmpty DEF Typed, RightsFound, Task, Kinds
    <2>3. PICK s \in Seq(Asks) : s = t.todo
        BY <2>2 DEF Well, Shape
    <2>4. s # <<>> /\ Head(s).do = "page" /\ Head(s) = s[1] /\ Len(s) \in Nat /\ Len(s) > 0
          /\ "page" \in WordsOf(t.kind)
        BY <2>2, <2>3, ShapeFacts DEF First
    <2>5. t.kind \in {"listing", "page", "record"}
        BY <2>2, <2>4 DEF Kinds, WordsOf, MeterWords, LookWords
    <2>6. t.kind \in LookKinds
        BY <2>5 DEF LookKinds
    <2>7. Len(s) = 1
        <3>1. 1 \in 1..Len(s)
            BY <2>4
        <3>2. s[1].do = "page" => 1 = Len(s)
            BY <2>2, <2>3, <2>6, <3>1 DEF Well, Shape, Looking
        <3> QED
            BY <2>4, <3>2
    <2>8. PICK page : page = Head(t.todo)
        OBVIOUS
    <2>9. LastOf(t) = page /\ Stage(t.kind, Head(t.todo)) = 7 /\ t.todo # <<>>
        BY <2>3, <2>4, <2>7, <2>8 DEF LastOf, Stage
    <2>10. x \in Holdable /\ \A right \in Owed(t.kind, page, x) : Got(t, x, right)
        BY <1>2, <2>1, <2>2, <2>6, <2>9 DEF Sought
    <2>11. \A right \in Owed(t.kind, page, x) : <<x[2], right>> \in t.have
        BY <2>2, <2>6, <2>9, <2>10, AllIsFound
    <2>12. CASE t.kind = "page"
        BY <2>1, <2>8, <2>11, <2>12 DEF Due, Owed
    <2>13. CASE t.kind = "record"
        BY <2>1, <2>8, <2>11, <2>13 DEF Due, Owed
    <2>14. CASE t.kind = "listing"
        BY <2>1, <2>8, <2>11, <2>14 DEF Due, Owed
    <2> QED
        BY <2>5, <2>12, <2>13, <2>14
<1> QED
    BY <1>1, <1>2 DEF NoRightMissed

\* FindsWhatIsHeld in every reachable state: the rights that a key, a token or a page look-up
\* comes out with were each held at some moment since it began, and include every right
\* held throughout, however the several transactions of entitlement_service interleave
\* with changes of seats, grants and keys.
THEOREM RequestsFindWhatIsHeld == Spec => []FindsWhatIsHeld
<1>1. Init => Typed /\ KeyOrder /\ RightsFound
    BY InitTyped, InitOrder, InitFinds
<1>2. Typed /\ KeyOrder /\ RightsFound /\ [Next]_vars => (Typed /\ KeyOrder /\ RightsFound)'
    <2>1. ASSUME Typed, KeyOrder, RightsFound, Next
          PROVE  (Typed /\ KeyOrder /\ RightsFound)'
        BY <2>1, NextTyped, NextOrder, NextFinds
    <2>2. ASSUME Typed, KeyOrder, RightsFound, UNCHANGED vars
          PROVE  (Typed /\ KeyOrder /\ RightsFound)'
        <3>1. UNCHANGED <<task, keys, keyGrants, wanted, crossed, ever, lasting>>
            BY <2>2 DEF vars, keyring
        <3>2. KeyOrder'
            BY <2>2, <3>1 DEF KeyOrder, KeysKnown, RoomLeft, GrantsOfOneRequest, KeysApart, Queued,
                              Holds, First, Creating
        <3>3. RightsFound'
            BY <2>2, <3>1 DEF RightsFound, Carried, DeadEnds, Sought, KeyRead, Got, LastOf, First
        <3> QED
            BY <2>2, <3>2, <3>3, NextTyped
    <2> QED
        BY <2>1, <2>2
<1>3. Typed /\ KeyOrder /\ RightsFound => FindsWhatIsHeld
    <2>1. ASSUME RightsFound
          PROVE  CarriesOnlyHeldRights
        BY <2>1 DEF RightsFound, Carried, Shows, CarriesOnlyHeldRights
    <2> QED
        BY <2>1, FoundAtTheEnd DEF FindsWhatIsHeld
<1> QED
    BY <1>1, <1>2, <1>3, PTL DEF Spec

-----------------------------------------------------------------------------
(* Sums.  SumOf folds a function over its domain, in an order it chooses;  *)
(* induction on the parts of the domain shows that the order is no matter. *)

\* In a set of parts of a finite set there is one from which no element can be taken away.
LEMMA SmallestPart ==
    ASSUME NEW D, IsFiniteSet(D), NEW Q \in SUBSET SUBSET D, Q # {}
    PROVE  \E s \in Q : \A x \in s : s \ {x} \notin Q
<1> DEFINE sizes == {Cardinality(s) : s \in Q}
<1>1. \A s \in SUBSET D : IsFiniteSet(s) /\ Cardinality(s) \in Nat
    BY FS_Subset, FS_CardinalityType
<1>2. sizes \in SUBSET Nat /\ sizes # {}
    BY <1>1
<1>3. PICK n \in sizes : \A m \in sizes : n <= m
    <2> HIDE DEF sizes
    <2> QED
        BY <1>2, NatMin
<1>4. PICK s \in Q : n = Cardinality(s)
    BY <1>3
<1>5. ASSUME NEW x \in s, s \ {x} \in Q
      PROVE  FALSE
    <2>1. Cardinality(s \ {x}) = Cardinality(s) - 1
        BY <1>1, FS_RemoveElement
    <2>2. Cardinality(s) <= Cardinality(s \ {x})
        BY <1>3, <1>4, <1>5
    <2>3. Cardinality(s) \in Nat /\ Cardinality(s \ {x}) \in Nat
        BY <1>1
    <2> QED
        BY <2>1, <2>2, <2>3
<1> QED
    BY <1>5

\* The sums of the parts of a function, each in the order of the fold.
Parts(f) ==
    CHOOSE g : g = [s \in SUBSET DOMAIN f |->
                      IF s = {} THEN 0
                      ELSE LET x == CHOOSE x \in s : TRUE IN f[x] + g[s \ {x}]]

LEMMA SumIsPart == ASSUME NEW f PROVE SumOf(f) = Parts(f)[DOMAIN f]
BY DEF SumOf, FoldFunction, FoldFunctionOnSet, MapThenFoldSet, Parts

OneOf(s) == CHOOSE x \in s : TRUE

\* g adds up f on the parts that have at most n elements.
AddsUp(g, f, D, n) ==
    \A s \in SUBSET D :
        Cardinality(s) <= n =>
            g[s] = IF s = {} THEN 0 ELSE f[OneOf(s)] + g[s \ {OneOf(s)}]

LEMMA PartsThere ==
    ASSUME NEW D, IsFiniteSet(D), NEW f \in [D -> Nat], NEW n \in Nat
    PROVE  \E g \in [SUBSET D -> Nat] : AddsUp(g, f, D, n)
<1> DEFINE missing == {m \in Nat : ~ \E g \in [SUBSET D -> Nat] : AddsUp(g, f, D, m)}
<1>0. \A s \in SUBSET D : IsFiniteSet(s) /\ Cardinality(s) \in Nat /\ (Cardinality(s) = 0 <=> s = {})
    BY FS_Subset, FS_CardinalityType, FS_EmptySet
<1>s. \A s \in SUBSET D : s # {} => OneOf(s) \in s
    BY DEF OneOf
<1>1. SUFFICES missing = {}
    OBVIOUS
<1>2. SUFFICES ASSUME missing # {} PROVE FALSE
    OBVIOUS
<1>3. PICK m \in missing : \A k \in missing : m <= k
    <2>1. missing \in SUBSET Nat
        OBVIOUS
    <2> HIDE DEF missing
    <2> QED
        BY <1>2, <2>1, NatMin
<1>4. m # 0
    <2>1. SUFFICES ASSUME m = 0 PROVE FALSE
        OBVIOUS
    <2>2. [s \in SUBSET D |-> 0] \in [SUBSET D -> Nat] /\ AddsUp([s \in SUBSET D |-> 0], f, D, 0)
        BY <1>0 DEF AddsUp
    <2> QED
        BY <1>3, <2>1, <2>2
<1>5. m - 1 \in Nat /\ m - 1 \notin missing
    <2>1. m \in Nat
        BY <1>3
    <2>2. m - 1 \in Nat /\ ~(m <= m - 1)
        BY <1>4, <2>1
    <2> HIDE DEF missing
    <2> QED
        BY <1>3, <2>2
<1>6. PICK g \in [SUBSET D -> Nat] : AddsUp(g, f, D, m - 1)
    BY <1>5
<1> DEFINE h == [s \in SUBSET D |-> IF Cardinality(s) <= m - 1 THEN g[s]
                                    ELSE f[OneOf(s)] + g[s \ {OneOf(s)}]]
<1>7. h \in [SUBSET D -> Nat]
    <2>1. ASSUME NEW s \in SUBSET D PROVE h[s] \in Nat
        <3>1. CASE Cardinality(s) <= m - 1
            BY <3>1
        <3>2. CASE ~(Cardinality(s) <= m - 1)
            <4>1. s # {}
                BY <1>0, <1>5, <3>2
            <4>2. OneOf(s) \in D
                BY <1>s, <4>1
            <4> QED
                BY <3>2, <4>2
        <3> QED
            BY <3>1, <3>2
    <2> QED
        BY <2>1
<1>8. ASSUME NEW s \in SUBSET D, Cardinality(s) <= m
      PROVE  h[s] = IF s = {} THEN 0 ELSE f[OneOf(s)] + h[s \ {OneOf(s)}]
    <2>1. CASE s = {}
        <3>0. Cardinality(s) <= m - 1
            <4>1. Cardinality(s) = 0 /\ m - 1 >= 0
                BY <1>0, <1>5, <2>1
            <4> QED
                BY <1>5, <4>1
        <3>1. g[s] = 0
            BY <1>6, <2>1, <3>0 DEF AddsUp
        <3> QED
            BY <1>0, <1>5, <2>1, <3>1
    <2>2. CASE s # {}
        <3>1. OneOf(s) \in s /\ s \ {OneOf(s)} \in SUBSET D
            BY <1>s, <2>2
        <3>2. Cardinality(s \ {OneOf(s)}) = Cardinality(s) - 1
            BY <1>0, <3>1, FS_RemoveElement
        <3>3. h[s \ {OneOf(s)}] = g[s \ {OneOf(s)}]
            BY <1>0, <1>8, <3>1, <3>2
        <3>4. h[s] = f[OneOf(s)] + g[s \ {OneOf(s)}]
            <4>1. CASE Cardinality(s) <= m - 1
                <5>1. g[s] = f[OneOf(s)] + g[s \ {OneOf(s)}]
                    BY <1>6, <2>2, <4>1 DEF AddsUp
                <5> QED
                    BY <4>1, <5>1
            <4>2. CASE ~(Cardinality(s) <= m - 1)
                BY <4>2
            <4> QED
                BY <4>1, <4>2
        <3> QED
            BY <2>2, <3>3, <3>4
    <2> QED
        BY <2>1, <2>2
<1>9. AddsUp(h, f, D, m)
    <2> HIDE DEF h
    <2> QED
        BY <1>8 DEF AddsUp
<1> QED
    BY <1>3, <1>7, <1>9

\* The sums of the parts of f are numbers, each made of the sums of smaller parts.
LEMMA PartsAddUp ==
    ASSUME NEW D, IsFiniteSet(D), NEW f \in [D -> Nat]
    PROVE  /\ Parts(f) \in [SUBSET D -> Nat]
           /\ \A s \in SUBSET D :
                Parts(f)[s] = IF s = {} THEN 0
                              ELSE f[OneOf(s)] + Parts(f)[s \ {OneOf(s)}]
<1>1. PICK g \in [SUBSET D -> Nat] : AddsUp(g, f, D, Cardinality(D))
    BY PartsThere, FS_CardinalityType
<1>2. \A s \in SUBSET D : Cardinality(s) <= Cardinality(D)
    BY FS_Subset
<1>3. g = [s \in SUBSET DOMAIN f |->
             IF s = {} THEN 0
             ELSE LET x == CHOOSE x \in s : TRUE IN f[x] + g[s \ {x}]]
    BY <1>1, <1>2 DEF AddsUp, OneOf
<1>4. Parts(f) = [s \in SUBSET DOMAIN f |->
             IF s = {} THEN 0
             ELSE LET x == CHOOSE x \in s : TRUE IN f[x] + Parts(f)[s \ {x}]]
    BY <1>3 DEF Parts
<1>5. PICK h : h = Parts(f)
    OBVIOUS
<1>6. h = [s \in SUBSET D |-> IF s = {} THEN 0 ELSE f[OneOf(s)] + h[s \ {OneOf(s)}]]
    BY <1>4, <1>5 DEF OneOf
<1>7. \A s \in SUBSET D : h[s] = IF s = {} THEN 0 ELSE f[OneOf(s)] + h[s \ {OneOf(s)}]
    BY <1>6
<1> DEFINE odd == {s \in SUBSET D : h[s] \notin Nat}
<1>8. odd = {}
    <2>1. SUFFICES ASSUME odd # {} PROVE FALSE
        OBVIOUS
    <2>2. PICK s \in odd : \A x \in s : s \ {x} \notin odd
        <3>1. odd \in SUBSET SUBSET D
            OBVIOUS
        <3> HIDE DEF odd
        <3> QED
            BY <2>1, <3>1, SmallestPart
    <2>0. s \in SUBSET D /\ h[s] \notin Nat /\ \A x \in s : h[s \ {x}] \in Nat
        <3>1. \A x \in s : s \ {x} \in SUBSET D
            BY <2>2
        <3> QED
            BY <2>2, <3>1
    <2>3. s # {}
        <3>1. s = {} => h[s] = 0
            BY <1>7, <2>0
        <3> QED
            BY <2>0, <3>1
    <2>4. OneOf(s) \in s
        BY <2>3 DEF OneOf
    <2>5. h[s \ {OneOf(s)}] \in Nat /\ f[OneOf(s)] \in Nat
        BY <2>0, <2>4
    <2>6. h[s] = f[OneOf(s)] + h[s \ {OneOf(s)}]
        BY <1>7, <2>0, <2>3
    <2> QED
        BY <2>0, <2>5, <2>6
<1>9. h \in [SUBSET D -> Nat]
    <2>1. \A s \in SUBSET D : h[s] \in Nat
        BY <1>8
    <2> QED
        BY <1>6, <2>1
<1> QED
    BY <1>5, <1>7, <1>9

\* Any element may be added first.
LEMMA PartsTakeAny ==
    ASSUME NEW D, IsFiniteSet(D), NEW f \in [D -> Nat], NEW t \in SUBSET D, NEW y \in t
    PROVE  Parts(f)[t] = f[y] + Parts(f)[t \ {y}]
<1>1. PICK g : g = Parts(f)
    OBVIOUS
<1>2. /\ g \in [SUBSET D -> Nat]
      /\ \A s \in SUBSET D : g[s] = IF s = {} THEN 0 ELSE f[OneOf(s)] + g[s \ {OneOf(s)}]
    BY <1>1, PartsAddUp, ZenonT(30)
<1> DEFINE odd == {s \in SUBSET D : \E x \in s : g[s] # f[x] + g[s \ {x}]}
<1>3. odd = {}
    <2>1. SUFFICES ASSUME odd # {} PROVE FALSE
        OBVIOUS
    <2>2. PICK s \in odd : \A x \in s : s \ {x} \notin odd
        <3>1. odd \in SUBSET SUBSET D
            OBVIOUS
        <3> HIDE DEF odd
        <3> QED
            BY <2>1, <3>1, SmallestPart
    <2>3. PICK x \in s : g[s] # f[x] + g[s \ {x}]
        BY <2>2
    <2>4. PICK z : z = OneOf(s)
        OBVIOUS
    <2>5. z \in s /\ s \in SUBSET D
        BY <2>2, <2>3, <2>4 DEF OneOf
    <2>6. g[s] = f[z] + g[s \ {z}]
        BY <1>2, <2>3, <2>4, <2>5
    <2>7. x # z
        BY <2>3, <2>6
    <2>8. PICK a, b, c : a = s \ {z} /\ b = s \ {x} /\ c = s \ {x, z}
        OBVIOUS
    <2>9. a \in SUBSET D /\ b \in SUBSET D /\ c \in SUBSET D /\ x \in a /\ z \in b
          /\ a \ {x} = c /\ b \ {z} = c
        BY <2>3, <2>5, <2>7, <2>8
    <2>10. a \notin odd /\ b \notin odd
        BY <2>2, <2>3, <2>5, <2>8
    <2>11. g[a] = f[x] + g[c]
        BY <2>9, <2>10
    <2>12. g[b] = f[z] + g[c]
        BY <2>9, <2>10
    <2>13. f[x] \in Nat /\ f[z] \in Nat /\ g[c] \in Nat
        BY <1>2, <2>3, <2>5, <2>9
    <2>14. g[s] = f[x] + g[b]
        BY <2>6, <2>8, <2>11, <2>12, <2>13
    <2> QED
        BY <2>3, <2>8, <2>14
<1>4. t \notin odd
    BY <1>3
<1> QED
    BY <1>1, <1>4

LEMMA PartsAgree ==
    ASSUME NEW D, IsFiniteSet(D), NEW f \in [D -> Nat], NEW g \in [D -> Nat],
           NEW t \in SUBSET D, \A x \in t : f[x] = g[x]
    PROVE  Parts(f)[t] = Parts(g)[t]
<1> DEFINE odd == {s \in SUBSET t : Parts(f)[s] # Parts(g)[s]}
<1>1. IsFiniteSet(t)
    BY FS_Subset
<1>2. SUFFICES ASSUME odd # {} PROVE FALSE
    OBVIOUS
<1>3. PICK s \in odd : \A x \in s : s \ {x} \notin odd
    <2>1. odd \in SUBSET SUBSET t
        OBVIOUS
    <2> HIDE DEF odd
    <2> QED
        BY <1>1, <1>2, <2>1, SmallestPart
<1>4. s \in SUBSET t /\ s \in SUBSET D /\ Parts(f)[s] # Parts(g)[s]
    BY <1>3
<1>5. s # {}
    <2>1. s = {} => Parts(f)[s] = 0 /\ Parts(g)[s] = 0
        BY <1>4, PartsAddUp
    <2> QED
        BY <1>4, <2>1
<1>6. PICK x : x \in s
    BY <1>5
<1>7. Parts(f)[s] = f[x] + Parts(f)[s \ {x}] /\ Parts(g)[s] = g[x] + Parts(g)[s \ {x}]
    BY <1>4, <1>6, PartsTakeAny
<1>8. Parts(f)[s \ {x}] = Parts(g)[s \ {x}]
    <2>1. s \ {x} \in SUBSET t
        BY <1>4
    <2> QED
        BY <1>3, <1>6, <2>1
<1>9. f[x] = g[x]
    BY <1>4, <1>6
<1> QED
    BY <1>4, <1>7, <1>8, <1>9

LEMMA SumType ==
    ASSUME NEW D, IsFiniteSet(D), NEW f \in [D -> Nat]
    PROVE  SumOf(f) \in Nat
<1>1. D \in SUBSET D /\ DOMAIN f = D
    OBVIOUS
<1>2. Parts(f) \in [SUBSET D -> Nat]
    BY PartsAddUp
<1> QED
    BY <1>1, <1>2, SumIsPart

\* A function changed at one place changes its sum by as much.
LEMMA SumChange ==
    ASSUME NEW D, IsFiniteSet(D), NEW f \in [D -> Nat], NEW g \in [D -> Nat], NEW x \in D,
           \A y \in D \ {x} : g[y] = f[y]
    PROVE  SumOf(g) + f[x] = SumOf(f) + g[x]
<1>1. D \in SUBSET D /\ D \ {x} \in SUBSET D /\ DOMAIN f = D /\ DOMAIN g = D
    OBVIOUS
<1>2. SumOf(f) = f[x] + Parts(f)[D \ {x}] /\ SumOf(g) = g[x] + Parts(g)[D \ {x}]
    <2>1. Parts(f)[D] = f[x] + Parts(f)[D \ {x}]
        BY <1>1, PartsTakeAny
    <2>2. Parts(g)[D] = g[x] + Parts(g)[D \ {x}]
        BY <1>1, PartsTakeAny
    <2>3. SumOf(f) = Parts(f)[D] /\ SumOf(g) = Parts(g)[D]
        BY <1>1, SumIsPart
    <2> QED
        BY <2>1, <2>2, <2>3
<1>3. PICK n : n = Parts(f)[D \ {x}]
    OBVIOUS
<1>4. n \in Nat
    <2>1. Parts(f) \in [SUBSET D -> Nat]
        BY PartsAddUp
    <2> QED
        BY <1>1, <1>3, <2>1
<1>5. Parts(g)[D \ {x}] = n
    BY <1>1, <1>3, PartsAgree
<1>6. f[x] \in Nat /\ g[x] \in Nat
    OBVIOUS
<1> QED
    BY <1>2, <1>3, <1>4, <1>5, <1>6

\* What adds up to nothing is nothing everywhere.
LEMMA SumOfNothing ==
    ASSUME NEW D, IsFiniteSet(D)
    PROVE  SumOf([x \in D |-> 0]) = 0
<1>1. PICK f : f = [x \in D |-> 0]
    OBVIOUS
<1>2. f \in [D -> Nat] /\ DOMAIN f = D
    BY <1>1
<1> DEFINE odd == {s \in SUBSET D : Parts(f)[s] # 0}
<1>3. odd = {}
    <2>1. SUFFICES ASSUME odd # {} PROVE FALSE
        OBVIOUS
    <2>2. PICK s \in odd : \A x \in s : s \ {x} \notin odd
        <3>1. odd \in SUBSET SUBSET D
            OBVIOUS
        <3> HIDE DEF odd
        <3> QED
            BY <2>1, <3>1, SmallestPart
    <2>3. s \in SUBSET D /\ Parts(f)[s] # 0
        BY <2>2
    <2>4. s # {}
        BY <1>2, <2>3, PartsAddUp
    <2>5. PICK x : x \in s
        BY <2>4
    <2>6. Parts(f)[s] = f[x] + Parts(f)[s \ {x}]
        BY <1>2, <2>3, <2>5, PartsTakeAny
    <2>7. Parts(f)[s \ {x}] = 0
        <3>1. s \ {x} \in SUBSET D
            BY <2>3
        <3> QED
            BY <2>2, <2>5, <3>1
    <2>8. f[x] = 0
        BY <1>1, <2>3, <2>5
    <2> QED
        BY <2>3, <2>6, <2>7, <2>8
<1>4. Parts(f)[D] = 0
    BY <1>3
<1> QED
    BY <1>1, <1>2, <1>4, SumIsPart

-----------------------------------------------------------------------------
(* Read units and their events.                                            *)

LEMMA TimesGrows == \A m, n, c \in Nat : m <= n => m * c <= n * c
OBVIOUS

LEMMA TimesOneMore == \A n, c \in Nat : n > 0 => (n - 1) * c + c = n * c
OBVIOUS

\* What a read costs at most.
Dearest == Max(Costs)

LEMMA DearestIsMost == Dearest \in Nat /\ Dearest > 0 /\ \A c \in Costs : c <= Dearest
<1>1. Costs \subseteq Nat \ {0} /\ Costs # {} /\ IsFiniteSet(Costs)
    BY CostsType
<1> DEFINE odd == {s \in SUBSET Costs : s # {} /\ \A x \in s : \E y \in s : ~(y <= x)}
<1>2. odd = {}
    <2>1. SUFFICES ASSUME odd # {} PROVE FALSE
        OBVIOUS
    <2>2. PICK s \in odd : \A x \in s : s \ {x} \notin odd
        <3>1. odd \in SUBSET SUBSET Costs
            OBVIOUS
        <3> HIDE DEF odd
        <3> QED
            BY <1>1, <2>1, <3>1, SmallestPart
    <2>3. s \subseteq Nat /\ s # {} /\ \A x \in s : \E y \in s : ~(y <= x)
        BY <1>1, <2>2
    <2>4. PICK x \in s : TRUE
        BY <2>3
    <2>5. CASE s \ {x} = {}
        <3>1. \A y \in s : y = x
            BY <2>5
        <3>2. x \in Nat
            BY <2>3
        <3> QED
            BY <2>3, <3>1, <3>2
    <2>6. CASE s \ {x} # {}
        <3>1. s \ {x} \in SUBSET Costs
            BY <2>2
        <3>2. PICK z \in s \ {x} : \A y \in s \ {x} : y <= z
            BY <2>2, <2>6, <3>1
        <3>3. \A y \in s : y = x \/ y <= z
            BY <3>2
        <3>4. x \in Nat /\ z \in Nat
            BY <2>3, <3>2
        <3>5. PICK big \in {x, z} : x <= big /\ z <= big
            BY <3>4
        <3>6. \A y \in s : y <= big
            BY <2>3, <3>3, <3>4, <3>5
        <3>7. big \in s
            BY <3>2, <3>5
        <3> QED
            BY <2>3, <3>6, <3>7
    <2> QED
        BY <2>5, <2>6
<1>3. Costs \notin odd
    BY <1>2
<1>4. PICK x \in Costs : \A y \in Costs : y <= x
    BY <1>1, <1>3
<1>5. \A y \in Costs : x >= y
    BY <1>1, <1>4
<1>6. Dearest \in Costs /\ \A y \in Costs : Dearest >= y
    BY <1>5 DEF Dearest, Max
<1> QED
    BY <1>1, <1>6

\* Requests that have passed the check of the quota and have not been charged.
Charging(a) ==
    {s \in Servers : (First(task[s], "read") \/ First(task[s], "meter")) /\ task[s].account = a}

Most == Limit + Cardinality(Servers) * Dearest

\* What is counted and what is under way are together less than Most: a check that passes adds
\* a request to those under way, but finds less than Limit and no more servers than there are.
\* Of other months nothing more is charged, or nothing yet.
UnitsFit ==
    /\ \A a \in Accounts, m \in 1..MaxMonths : units[a][m] < Most /\ (m > month => units[a][m] = 0)
    /\ \A a \in Accounts : units[a][month] + Cardinality(Charging(a)) * Dearest < Most
    /\ \A a \in Accounts : Charging(a) # {} => Limit > 0

LEMMA FewServers ==
    ASSUME NEW some \in SUBSET Servers
    PROVE  /\ IsFiniteSet(some) /\ Cardinality(some) \in Nat
           /\ Cardinality(some) * Dearest <= Cardinality(Servers) * Dearest
           /\ Cardinality(some) * Dearest \in Nat
           /\ Cardinality(Servers) * Dearest \in Nat /\ Cardinality(Servers) * Dearest > 0
           /\ Most \in Nat /\ Limit \in Nat /\ Most = Limit + Cardinality(Servers) * Dearest
<1>1. IsFiniteSet(Servers) /\ Servers # {} /\ Limit \in Nat
    BY AccessAssumption
<1>2. IsFiniteSet(some) /\ Cardinality(some) <= Cardinality(Servers)
    BY <1>1, FS_Subset
<1>3. Cardinality(some) \in Nat /\ Cardinality(Servers) \in Nat
    BY <1>1, <1>2, FS_CardinalityType
<1>4. Cardinality(Servers) # 0
    BY <1>1, FS_EmptySet
<1>5. PICK m, n, c \in Nat : m = Cardinality(some) /\ n = Cardinality(Servers) /\ c = Dearest
    BY <1>3, DearestIsMost
<1>6. m <= n /\ 1 <= n /\ c > 0
    BY <1>2, <1>3, <1>4, <1>5, DearestIsMost
<1>7. m * c <= n * c /\ 1 * c <= n * c /\ m * c \in Nat /\ n * c \in Nat
    BY <1>6, TimesGrows
<1>8. n * c > 0
    <2>1. 1 * c = c
        OBVIOUS
    <2> QED
        BY <1>6, <1>7, <2>1
<1>9. Most = Limit + n * c
    BY <1>5 DEF Most
<1>10. Most \in Nat
    BY <1>1, <1>7, <1>9
<1> QED
    BY <1>1, <1>2, <1>3, <1>5, <1>7, <1>8, <1>9, <1>10

\* Steps that charge nothing bring only those to the read that have passed the quota.
LEMMA UnitsStay ==
    ASSUME Typed, UnitsFit, UNCHANGED <<units, month>>,
           \A v \in Servers, what \in {"read", "meter"} :
                First(task'[v], what) =>
                    \/ units[task'[v].account][month] < Limit
                    \/ v \in Charging(task'[v].account)
    PROVE  UnitsFit'
<1>1. ASSUME NEW a \in Accounts
      PROVE  /\ units[a][month] + Cardinality(Charging(a)') * Dearest < Most
             /\ Charging(a)' # {} => Limit > 0
    <2>1. PICK now \in SUBSET Servers : now = Charging(a)'
        BY DEF Charging
    <2>2. PICK old \in SUBSET Servers : old = Charging(a)
        BY DEF Charging
    <2>3. \A v \in now : v \in Servers /\ (units[a][month] < Limit \/ v \in old)
        BY <2>1, <2>2 DEF Charging, First
    <2>4. PICK n : n = units[a][month]
        OBVIOUS
    <2>5. n \in Nat
        BY <2>4 DEF Typed, Tables
    <2>6. PICK top, all, lim \in Nat :
            /\ top = Cardinality(now) * Dearest /\ all = Cardinality(Servers) * Dearest /\ lim = Limit
            /\ top <= all /\ Most = lim + all
        BY FewServers
    <2>7. CASE n < Limit
        BY <2>1, <2>4, <2>5, <2>6, <2>7
    <2>8. CASE ~(n < Limit)
        <3>1. now \subseteq old
            BY <2>3, <2>4, <2>8
        <3>2. IsFiniteSet(old) /\ Cardinality(old) \in Nat /\ Cardinality(now) \in Nat
            BY FewServers
        <3>3. Cardinality(now) <= Cardinality(old)
            BY <3>1, <3>2, FS_Subset
        <3>4. Cardinality(now) * Dearest <= Cardinality(old) * Dearest
            BY <3>2, <3>3, DearestIsMost, TimesGrows
        <3>5. n + Cardinality(old) * Dearest < Most /\ (old # {} => Limit > 0)
            BY <2>2, <2>4 DEF UnitsFit
        <3>6. PICK below \in Nat : below = Cardinality(old) * Dearest
            BY FewServers
        <3>7. n + top < Most
            BY <2>5, <2>6, <3>4, <3>5, <3>6
        <3> QED
            BY <2>1, <2>4, <2>6, <3>1, <3>5, <3>7
    <2> QED
        BY <2>7, <2>8
<1>2. \A a \in Accounts, m \in 1..MaxMonths : units'[a][m] < Most /\ (m > month' => units'[a][m] = 0)
    BY DEF UnitsFit
<1>3. \A a \in Accounts : units'[a][month'] + Cardinality(Charging(a)') * Dearest < Most
    BY <1>1
<1> QED
    BY <1>1, <1>2, <1>3 DEF UnitsFit

LEMMA MeterUnits ==
    ASSUME Typed, UnitsFit, NEW s \in Servers, Meter(s)
    PROVE  UnitsFit'
<1>1. PICK t : t = task[s]
    OBVIOUS
<1>2. s \in Workers /\ t \in Task /\ Well(t) /\ TasksWell /\ First(t, "meter")
    BY <1>1, IdleIsEmpty DEF Typed, Workers, Meter
<1>3. PICK a \in Accounts, c \in Costs : a = t.account /\ c = t.cost
    BY <1>2 DEF Task, Well
<1>4. c \in Nat /\ c <= Dearest /\ Dearest \in Nat
    BY CostsType, DearestIsMost
<1>5. units \in [Accounts -> [1..MaxMonths -> Nat]] /\ month \in 1..MaxMonths
    BY DEF Typed, Tables
<1>6. units' = [units EXCEPT ![a][month] = @ + c] /\ month' = month
    BY <1>1, <1>3 DEF Meter
<1>7. \A b \in Accounts, m \in 1..MaxMonths :
            units'[b][m] = IF b = a /\ m = month THEN units[a][month] + c ELSE units[b][m]
    BY <1>5, <1>6
<1>8. ASSUME NEW v \in Servers, NEW what \in {"read", "meter"}, First(task'[v], what)
      PROVE  v # s /\ First(task[v], what) /\ task'[v].account = task[v].account
    <2>1. what \in Chained /\ v \in Workers
        BY DEF Chained, Workers
    <2>2. First(task[v], what) /\ Stays(v)
        BY <1>2, <1>8, <2>1, ServerArrives DEF ServerStep
    <2>3. v # s
        <3>1. SUFFICES ASSUME v = s PROVE FALSE
            OBVIOUS
        <3>2. task'[s].todo = task[s].todo
            BY <2>2, <3>1 DEF Stays
        <3>3. PICK u \in Task : Onward(s, u)
            BY ServerTakes, <1>2
        <3>4. task'[s] = u /\ (u = Idle \/ Moved(task[s], u))
            BY <1>2, <3>3, Unchanged DEF Onward
        <3>5. First(u, "meter")
            BY <1>1, <1>2, <3>2, <3>4 DEF First
        <3>6. First(task[s], "read")
            BY <3>4, <3>5, IdleNowhere DEF Moved, Chained, Before
        <3> QED
            BY <1>1, <1>2, <3>6 DEF First
    <2> QED
        BY <2>2, <2>3 DEF Stays
<1>9. ASSUME NEW b \in Accounts
      PROVE  /\ units'[b][month'] + Cardinality(Charging(b)') * Dearest < Most
             /\ Charging(b)' # {} => Limit > 0
    <2>1. PICK now \in SUBSET Servers : now = Charging(b)'
        BY DEF Charging
    <2>2. PICK old \in SUBSET Servers : old = Charging(b)
        BY DEF Charging
    <2>3. now \subseteq old \ {s} /\ (b = a => s \in old)
        BY <1>1, <1>2, <1>3, <1>8, <2>1, <2>2 DEF Charging, First
    <2>4. IsFiniteSet(old) /\ Cardinality(old) \in Nat /\ Cardinality(now) \in Nat
        BY FewServers
    <2>5. PICK n \in Nat : n = units[b][month]
        BY <1>5
    <2>6. PICK top, below \in Nat :
            top = Cardinality(now) * Dearest /\ below = Cardinality(old) * Dearest
        BY FewServers
    <2>7. n + below < Most /\ (old # {} => Limit > 0) /\ Most \in Nat
        BY <2>2, <2>5, <2>6, FewServers DEF UnitsFit
    <2>8. CASE b = a
        <3>1. Cardinality(old \ {s}) = Cardinality(old) - 1 /\ Cardinality(old) > 0
            BY <2>3, <2>4, <2>8, FS_RemoveElement, FS_EmptySet
        <3>2. IsFiniteSet(old \ {s}) /\ Cardinality(now) <= Cardinality(old) - 1
            BY <2>3, <2>4, <3>1, FS_Subset
        <3>3. Cardinality(now) * Dearest <= (Cardinality(old) - 1) * Dearest
            BY <1>4, <2>4, <3>1, <3>2, TimesGrows
        <3>4. (Cardinality(old) - 1) * Dearest + Dearest = Cardinality(old) * Dearest
            BY <1>4, <2>4, <3>1, TimesOneMore
        <3>5. PICK less \in Int : less = (Cardinality(old) - 1) * Dearest
            BY <1>4, <2>4, <3>1
        <3>6. (n + c) + top < Most
            BY <1>4, <2>6, <2>7, <3>3, <3>4, <3>5
        <3>7. units'[b][month'] = n + c
            BY <1>5, <1>6, <1>7, <2>5, <2>8
        <3> QED
            BY <2>1, <2>3, <2>6, <2>7, <3>6, <3>7
    <2>9. CASE b # a
        <3>1. Cardinality(now) <= Cardinality(old)
            BY <2>3, <2>4, FS_Subset
        <3>2. Cardinality(now) * Dearest <= Cardinality(old) * Dearest
            BY <1>4, <2>4, <3>1, TimesGrows
        <3>3. n + top < Most
            BY <2>6, <2>7, <3>2
        <3>4. units'[b][month'] = n
            BY <1>5, <1>6, <1>7, <2>5, <2>9
        <3> QED
            BY <2>1, <2>3, <2>6, <2>7, <3>3, <3>4
    <2> QED
        BY <2>8, <2>9
<1>10. ASSUME NEW b \in Accounts, NEW m \in 1..MaxMonths
       PROVE  units'[b][m] < Most /\ (m > month' => units'[b][m] = 0)
    <2>1. CASE b = a /\ m = month
        <3>1. PICK now \in SUBSET Servers : now = Charging(b)'
            BY DEF Charging
        <3>2. PICK top \in Nat : top = Cardinality(now) * Dearest
            BY FewServers
        <3>3. units'[b][month'] + top < Most
            BY <1>9, <3>1, <3>2
        <3>0. PICK was \in Nat : was = units[a][month]
            BY <1>5
        <3>4. PICK n \in Nat : n = units'[b][m]
            <4>1. units'[b][m] = was + c
                BY <1>7, <2>1, <3>0
            <4>2. was + c \in Nat
                BY <1>4
            <4> QED
                BY <4>1, <4>2
        <3>5. Most \in Nat /\ m = month'
            BY <1>6, <2>1, FewServers
        <3>6. n < Most
            BY <3>2, <3>3, <3>4, <3>5
        <3> QED
            BY <3>4, <3>5, <3>6
    <2>2. CASE ~(b = a /\ m = month)
        BY <1>6, <1>7, <2>2 DEF UnitsFit
    <2> QED
        BY <2>1, <2>2
<1> QED
    BY <1>9, <1>10 DEF UnitsFit

LEMMA NextUnits ==
    ASSUME Typed, UnitsFit, Next
    PROVE  UnitsFit'
<1>0. TasksWell /\ Servers \subseteq Workers /\ {"read", "meter"} \subseteq Chained
    BY DEF Typed, Workers, Chained
<1>1. \/ \E w \in Workers : Turns(w)
      \/ \E w \in Workers : KeyStep(w)
      \/ \E s \in Servers : ServerStep(s)
      \/ \E w \in Workers : Break(w)
      \/ World
    BY NextCases DEF Typed
<1>s. ASSUME UNCHANGED <<units, month>>,
             \A v \in Servers, what \in {"read", "meter"} :
                First(task'[v], what) => First(task[v], what) /\ Stays(v)
      PROVE  UnitsFit'
    <2>1. \A v \in Servers, what \in {"read", "meter"} :
            First(task'[v], what) => v \in Charging(task'[v].account)
        BY <1>s DEF Stays, Charging
    <2> QED
        BY <1>s, <2>1, UnitsStay
<1>2. CASE \E w \in Workers : Turns(w)
    <2>1. PICK w \in Workers, u \in Task : Turn(w, u)
        BY <1>2 DEF Turns
    <2>2. UNCHANGED <<units, month>>
        BY <2>1 DEF Turn, Still, usage
    <2>3. ASSUME NEW v \in Servers, NEW what \in {"read", "meter"}, First(task'[v], what)
          PROVE  \/ units[task'[v].account][month] < Limit
                 \/ v \in Charging(task'[v].account)
        <3>1. (First(task[v], what) /\ Stays(v)) \/ Reaches(v, what)
            BY <1>0, <2>1, <2>3, TurnArrives
        <3>2. CASE First(task[v], what) /\ Stays(v)
            BY <3>2 DEF Stays, Charging
        <3>3. CASE Reaches(v, what) /\ what = "read"
            <4>1. First(task[v], "quota") /\ Kept(v, task'[v])
                BY <3>3 DEF Reaches, Before
            <4>2. At(v, "quota") /\ ~At(v, "account")
                BY <1>0, <4>1, IdleIsEmpty DEF First
            <4> QED
                BY <4>1, <4>2 DEF Kept
        <3>4. CASE Reaches(v, what) /\ what = "meter"
            <4>1. First(task[v], "read") /\ Kept(v, task'[v])
                BY <3>4 DEF Reaches, Before
            <4>2. ~At(v, "account")
                BY <1>0, <4>1, IdleIsEmpty DEF First
            <4>3. task'[v].account = task[v].account
                BY <4>1, <4>2 DEF Kept
            <4> QED
                BY <4>1, <4>3 DEF Charging
        <3> QED
            BY <3>1, <3>2, <3>3, <3>4
    <2> QED
        BY <2>2, <2>3, UnitsStay
<1>3. CASE \E w \in Workers : KeyStep(w)
    <2>1. PICK w \in Workers : KeyStep(w)
        BY <1>3
    <2>2. UNCHANGED <<units, month>>
        BY <2>1 DEF KeyStep, InsertKey, Replaced, DropKey, usage
    <2>3. \A v \in Workers, what \in Chained : First(task'[v], what) => First(task[v], what) /\ Stays(v)
        BY <1>0, <2>1, KeyArrives
    <2> QED
        BY <1>0, <1>s, <2>2, <2>3
<1>4. CASE \E s \in Servers : ServerStep(s)
    <2>1. PICK s \in Servers : ServerStep(s)
        BY <1>4
    <2>2. CASE Meter(s)
        BY <2>2, MeterUnits
    <2>3. CASE ~Meter(s)
        <3>1. UNCHANGED <<units, month>>
            BY <2>1, <2>3 DEF ServerStep, Consumed, MintToken, Buffer, Flush, StoreEvents, Die, usage
        <3>2. \A v \in Workers, what \in {"read", "meter"} :
                First(task'[v], what) => First(task[v], what) /\ Stays(v)
            BY <1>0, <2>1, <2>3, ServerArrives
        <3> QED
            BY <1>0, <1>s, <3>1, <3>2
    <2> QED
        BY <2>2, <2>3
<1>5. CASE \E w \in Workers : Break(w)
    <2>1. PICK w \in Workers : Break(w)
        BY <1>5
    <2>2. UNCHANGED <<units, month>>
        BY <2>1 DEF Break
    <2>3. \A v \in Workers, what \in Chained : First(task'[v], what) => First(task[v], what) /\ Stays(v)
        BY <1>0, <2>1, BreakArrives
    <2> QED
        BY <1>0, <1>s, <2>2, <2>3
<1>6. CASE World
    <2>1. UNCHANGED task
        BY <1>6, WorldTyped
    <2>2. \A v \in Workers, what \in Chained : First(task'[v], what) => First(task[v], what) /\ Stays(v)
        BY <2>1, StayAll
    <2>3. CASE UNCHANGED <<units, month>>
        BY <1>0, <1>s, <2>2, <2>3
    <2>4. CASE ~UNCHANGED <<units, month>>
        <3>1. month < MaxMonths /\ month' = month + 1 /\ units' = units
            BY <1>6, <2>4 DEF World, Authorize, ExpireToken, SetSeat, SetGrant, NextMonth, usage
        <3>2. month \in 1..MaxMonths /\ MaxMonths \in Nat
            BY AccessAssumption DEF Typed, Tables
        <3>3. \A m \in 1..MaxMonths : m > month' => m > month
            BY <3>1, <3>2
        <3>4. month + 1 \in 1..MaxMonths /\ month + 1 > month
            BY <3>1, <3>2
        <3>5. ASSUME NEW a \in Accounts
              PROVE  /\ units'[a][month'] + Cardinality(Charging(a)') * Dearest < Most
                     /\ Charging(a)' # {} => Limit > 0
            <4>1. PICK old \in SUBSET Servers : old = Charging(a)
                BY DEF Charging
            <4>2. Charging(a)' = old
                BY <2>1, <4>1 DEF Charging, First
            <4>3. PICK top, all, lim \in Nat :
                    /\ top = Cardinality(old) * Dearest /\ all = Cardinality(Servers) * Dearest
                    /\ lim = Limit /\ top <= all /\ all > 0 /\ Most = lim + all
                BY FewServers
            <4>4. units'[a][month'] = 0
                BY <3>1, <3>4 DEF UnitsFit
            <4>5. old # {} => lim > 0
                BY <4>1, <4>3 DEF UnitsFit
            <4>6. old = {} => top = 0
                <5>1. Cardinality({}) = 0
                    BY FS_EmptySet
                <5>2. 0 * Dearest = 0
                    BY DearestIsMost
                <5> QED
                    BY <4>3, <5>1, <5>2
            <4>7. 0 + top < lim + all
                BY <4>3, <4>5, <4>6
            <4> QED
                BY <4>2, <4>3, <4>4, <4>5, <4>7
        <3> QED
            BY <3>1, <3>3, <3>5 DEF UnitsFit
    <2> QED
        BY <2>3, <2>4
<1> QED
    BY <1>1, <1>2, <1>3, <1>4, <1>5, <1>6

LEMMA InitUnits ==
    ASSUME Init
    PROVE  UnitsFit
<1>1. /\ units = [a \in Accounts |-> [m \in 1..MaxMonths |-> 0]] /\ month = 1
      /\ \A w \in Workers : task[w] = Idle
    BY DEF Init
<1>2. 1 \in 1..MaxMonths
    BY AccessAssumption
<1>3. \A a : Charging(a) = {}
    BY <1>1, IdleNowhere DEF Charging, Workers
<1>4. Cardinality({}) = 0 /\ 0 * Dearest = 0
    BY FS_EmptySet, DearestIsMost
<1>5. Most \in Nat /\ Most > 0
    <2>1. PICK all, lim \in Nat : all > 0 /\ Most = lim + all
        BY FewServers
    <2> QED
        BY <2>1
<1>6. \A a \in Accounts, m \in 1..MaxMonths : units[a][m] = 0
    BY <1>1
<1>7. \A a \in Accounts : units[a][month] + Cardinality(Charging(a)) * Dearest < Most
    <2>1. ASSUME NEW a \in Accounts
          PROVE  units[a][month] + Cardinality(Charging(a)) * Dearest < Most
        <3>1. units[a][month] = 0 /\ Cardinality(Charging(a)) * Dearest = 0
            BY <1>1, <1>2, <1>3, <1>4, <1>6
        <3> QED
            BY <1>5, <3>1
    <2> QED
        BY <2>1
<1> QED
    BY <1>3, <1>5, <1>6, <1>7 DEF UnitsFit

\* Charged, and not yet in the list of events.
Late == [s \in Servers |-> IF First(task[s], "buffer") THEN task[s].cost ELSE 0]

Charged == [a \in Accounts |-> SumOf(units[a])]

Audited == events + SumOf(buffer) + SumOf(hand) + SumOf(Late)

\* A flush holds what it has taken out of the list until it stores it, or loses it.
EventsFit ==
    /\ \A s \in Servers : hand[s] > 0 => First(task[s], "store")
    /\ Audited <= SumOf(Charged)
    /\ troubles = 0 => Audited = SumOf(Charged)

LEMMA SumTypes ==
    ASSUME Typed
    PROVE  /\ IsFiniteSet(Servers) /\ IsFiniteSet(Accounts) /\ IsFiniteSet(1..MaxMonths)
           /\ Late \in [Servers -> Nat] /\ Charged \in [Accounts -> Nat]
           /\ SumOf(buffer) \in Nat /\ SumOf(hand) \in Nat /\ SumOf(Late) \in Nat
           /\ SumOf(Charged) \in Nat /\ events \in Nat
           /\ \A a \in Accounts : SumOf(units[a]) \in Nat
<1>1. IsFiniteSet(Servers) /\ MaxMonths \in Nat
    BY AccessAssumption
<1>2. IsFiniteSet(Accounts)
    <2>1. IsFiniteSet({"own"})
        BY FS_Singleton
    <2>2. IsFiniteSet({"own"} \cup {"team"})
        BY <2>1, FS_AddElement
    <2>3. Accounts = {"own"} \cup {"team"}
        BY DEF Accounts
    <2> QED
        BY <2>2, <2>3
<1>3. IsFiniteSet(1..MaxMonths)
    BY <1>1, FS_Interval
<1>4. /\ units \in [Accounts -> [1..MaxMonths -> Nat]]
      /\ buffer \in [Servers -> Nat] /\ hand \in [Servers -> Nat] /\ events \in Nat
    BY DEF Typed, Tables
<1>5. \A a \in Accounts : SumOf(units[a]) \in Nat
    BY <1>3, <1>4, SumType
<1>6. Charged \in [Accounts -> Nat]
    BY <1>5 DEF Charged
<1>7. \A s \in Servers : task[s].cost \in Nat
    BY IdleIsEmpty DEF Typed, Task, Workers
<1>8. Late \in [Servers -> Nat]
    BY <1>7 DEF Late
<1> QED
    BY <1>1, <1>2, <1>3, <1>4, <1>5, <1>6, <1>8, SumType

LEMMA SumTypesNext ==
    ASSUME Typed'
    PROVE  Late' \in [Servers -> Nat] /\ Charged' \in [Accounts -> Nat]
<1>1. \A s \in Servers : task'[s] \in Task
    BY DEF Typed, TasksWell, Well, Workers
<1>2. \A s \in Servers : task'[s].cost \in Nat
    BY <1>1 DEF Task
<1>3. Late' = [s \in Servers |-> IF First(task'[s], "buffer") THEN task'[s].cost ELSE 0]
    BY DEF Late, First
<1>4. Late' \in [Servers -> Nat]
    BY <1>2, <1>3
<1>5. units' \in [Accounts -> [1..MaxMonths -> Nat]]
    BY DEF Typed, Tables
<1>6. MaxMonths \in Nat
    BY AccessAssumption
<1>7. IsFiniteSet(1..MaxMonths)
    BY <1>6, FS_Interval
<1>8. \A a \in Accounts : SumOf(units'[a]) \in Nat
    BY <1>5, <1>7, SumType
<1>9. Charged' = [a \in Accounts |-> SumOf(units'[a])]
    BY DEF Charged
<1> QED
    BY <1>4, <1>8, <1>9

LEMMA LateStays ==
    ASSUME \A v \in Servers :
                /\ First(task'[v], "buffer") <=> First(task[v], "buffer")
                /\ First(task[v], "buffer") => task'[v].cost = task[v].cost
    PROVE  Late' = Late
<1>1. Late' = [s \in Servers |-> IF First(task'[s], "buffer") THEN task'[s].cost ELSE 0]
    BY DEF Late, First
<1>2. \A s \in Servers : (IF First(task'[s], "buffer") THEN task'[s].cost ELSE 0) =
                         (IF First(task[s], "buffer") THEN task[s].cost ELSE 0)
    OBVIOUS
<1> QED
    BY <1>1, <1>2 DEF Late

\* Steps away from the counters and the events.
LEMMA EventsStay ==
    ASSUME EventsFit, UNCHANGED <<units, buffer, hand, events>>, troubles' = 0 => troubles = 0,
           Late' = Late,
           \A s \in Servers : hand[s] > 0 => First(task'[s], "store")
    PROVE  EventsFit'
<1>1. Audited' = Audited /\ SumOf(Charged)' = SumOf(Charged)
    BY DEF Audited, Charged
<1>2. \A s \in Servers : hand'[s] > 0 => First(task'[s], "store")
    OBVIOUS
<1> QED
    BY <1>1, <1>2 DEF EventsFit, First

\* A step of w's that has nothing to do with the events.
LEMMA OthersWait ==
    ASSUME EventsFit, UNCHANGED <<units, buffer, hand, events>>, troubles' = 0 => troubles = 0,
           NEW w \in Workers,
           \A what \in {"buffer", "store"} : ~First(task[w], what), ~First(task'[w], "buffer"),
           \A v \in Workers \ {w} : task'[v].todo = task[v].todo /\ task'[v].cost = task[v].cost
    PROVE  EventsFit'
<1>1. \A v \in Servers : v \in Workers
    BY DEF Workers
<1>2. Late' = Late
    <2>1. ASSUME NEW v \in Servers
          PROVE  /\ First(task'[v], "buffer") <=> First(task[v], "buffer")
                 /\ First(task[v], "buffer") => task'[v].cost = task[v].cost
        <3>1. CASE v = w
            BY <3>1
        <3>2. CASE v # w
            BY <1>1, <3>2 DEF First
        <3> QED
            BY <3>1, <3>2
    <2> QED
        BY <2>1, LateStays
<1>3. ASSUME NEW s \in Servers, hand[s] > 0
      PROVE  First(task'[s], "store")
    <2>1. First(task[s], "store")
        BY <1>3 DEF EventsFit
    <2>2. s \in Workers \ {w}
        BY <1>1, <2>1
    <2> QED
        BY <2>1, <2>2 DEF First
<1> QED
    BY <1>2, <1>3, EventsStay

LEMMA QuietEvents ==
    ASSUME Typed, EventsFit, NEW w \in Workers, Turns(w) \/ KeyStep(w)
    PROVE  EventsFit'
<1>0. TasksWell /\ "buffer" \in Chained /\ Before("buffer") = "meter"
    BY DEF Typed, Chained, Before
<1>c. InBounds
    BY DEF Typed
<1>1. CASE Turns(w)
    <2>1. PICK u \in Task : Turn(w, u)
        BY <1>1 DEF Turns
    <2>2. UNCHANGED <<units, buffer, hand, events>>
        BY <2>1 DEF Turn, Still, usage
    <2>3. troubles' = troubles
        BY <1>1 DEF Turns, Event, count
    <2>4. \A what \in {"buffer", "store"} : ~First(task[w], what)
        BY <1>0, <1>1, IdleIsEmpty DEF Turns, Lists
    <2>5. \A v \in Workers \ {w} : task'[v] = task[v]
        BY <1>0, <2>1, Unchanged DEF Turn
    <2>6. ~First(task'[w], "buffer")
        <3>1. First(task'[w], "buffer") => Reaches(w, "buffer")
            BY <1>0, <2>1, <2>4, TurnArrives
        <3>2. Reaches(w, "buffer") => At(w, "meter") /\ ~At(w, "meter")
            BY <1>0, IdleIsEmpty DEF Reaches, Kept, Changing
        <3> QED
            BY <3>1, <3>2
    <2> QED
        BY <2>2, <2>3, <2>4, <2>5, <2>6, OthersWait
<1>2. CASE KeyStep(w)
    <2>1. UNCHANGED <<units, buffer, hand, events>>
        BY <1>2 DEF KeyStep, InsertKey, Replaced, DropKey, usage
    <2>2. task'[w] = Idle /\ UNCHANGED count
        BY <1>0, <1>2, KeyArrives
    <2>3. troubles' = troubles
        BY <2>2 DEF count
    <2>4. ~First(task'[w], "buffer")
        BY <2>2, IdleNowhere
    <2>5. \A what \in {"buffer", "store"} : ~First(task[w], what)
        BY <1>0, <1>2, IdleIsEmpty DEF KeyStep, InsertKey, Replaced, DropKey, First
    <2>6. \A v \in Workers \ {w} : task'[v].todo = task[v].todo /\ task'[v].cost = task[v].cost
        <3>1. CASE InsertKey(w)
            <4>1. task' = [task EXCEPT ![w] = Idle]
                BY <1>0, <3>1, InsertEnds
            <4> QED
                BY <1>0, <4>1, Unchanged
        <3>2. CASE ~InsertKey(w)
            <4>1. Committed(w, Idle)
                BY <1>2, <3>2 DEF KeyStep, Replaced, DropKey
            <4> QED
                BY <1>0, <4>1, CommitTakes
        <3> QED
            BY <3>1, <3>2
    <2> QED
        BY <2>1, <2>3, <2>4, <2>5, <2>6, OthersWait
<1> QED
    BY <1>1, <1>2

\* A server's step takes its request on, and not to the same step again.
LEMMA ServerLeaves ==
    ASSUME TasksWell, NEW s \in Servers,
           Consumed(s) \/ MintToken(s) \/ Meter(s) \/ Buffer(s) \/ StoreEvents(s)
    PROVE  /\ UNCHANGED count
           /\ \A v \in Workers \ {s} : task'[v] = task[v]
           /\ First(task'[s], "buffer") => Meter(s)
<1>1. PICK u \in Task : Onward(s, u)
    BY ServerTakes
<1>2. s \in Workers /\ UNCHANGED count
    BY ServerTakes DEF Workers
<1>3. task'[s] = u /\ \A v \in Workers \ {s} : task'[v] = task[v]
    BY <1>1, <1>2, Unchanged DEF Onward
<1>4. ASSUME First(u, "buffer")
      PROVE  Meter(s)
    <2>1. First(task[s], "meter")
        BY <1>1, <1>4, IdleNowhere DEF Onward, Moved, Chained, Before
    <2> QED
        BY <2>1 DEF Consumed, MintToken, Buffer, StoreEvents, At, First
<1> QED
    BY <1>2, <1>3, <1>4

LEMMA MintEvents ==
    ASSUME Typed, EventsFit, NEW s \in Servers, Consumed(s) \/ MintToken(s)
    PROVE  EventsFit'
<1>1. s \in Workers /\ TasksWell
    BY DEF Workers, Typed
<1>2. UNCHANGED <<units, buffer, hand, events>>
    BY DEF Consumed, MintToken, usage
<1>3. /\ UNCHANGED count /\ \A v \in Workers \ {s} : task'[v] = task[v]
      /\ ~First(task'[s], "buffer")
    BY <1>1, ServerLeaves DEF Consumed, MintToken, Meter, At
<1>4. \A what \in {"buffer", "store"} : ~First(task[s], what)
    BY DEF Consumed, MintToken, At, First
<1>5. troubles' = troubles
    BY <1>3 DEF count
<1> QED
    BY <1>1, <1>2, <1>3, <1>4, <1>5, OthersWait

LEMMA MeterEvents ==
    ASSUME Typed, EventsFit, NEW s \in Servers, Meter(s)
    PROVE  EventsFit'
<1>1. PICK t : t = task[s]
    OBVIOUS
<1>2. s \in Workers /\ t \in Task /\ Well(t) /\ t.todo # <<>> /\ TasksWell /\ Head(t.todo).do = "meter"
    BY <1>1, IdleIsEmpty DEF Typed, Workers, Meter, First
<1>3. PICK a \in Accounts, c \in Nat : a = t.account /\ c = t.cost
    BY <1>2 DEF Task
<1>4. units \in [Accounts -> [1..MaxMonths -> Nat]] /\ month \in 1..MaxMonths
    BY DEF Typed, Tables
<1>5. units' = [units EXCEPT ![a][month] = @ + c] /\ UNCHANGED <<buffer, hand, events>>
    BY <1>1, <1>3 DEF Meter
<1>6. \* The request goes on to the list of events.
      First(task'[s], "buffer") /\ task'[s].cost = c
    <2>1. task' = [task EXCEPT ![s] = IF Tail(t.todo) = <<>> THEN Idle ELSE [t EXCEPT !.todo = Tail(@)]]
        <3>1. PICK u : u = [t EXCEPT !.todo = Tail(@)]
            OBVIOUS
        <3>2. u.todo = Tail(t.todo)
            BY <1>2, <3>1 DEF Task
        <3>3. task' = [task EXCEPT ![s] = IF u.todo = <<>> THEN Idle ELSE u]
            BY <1>1, <3>1 DEF Meter, Advance, Goto, Become
        <3> QED
            BY <3>1, <3>2, <3>3
    <2>2. /\ Len(t.todo) > 0 /\ Len(t.todo) \in Nat /\ t.todo[1].do = "meter"
          /\ IsRest(Tail(t.todo), t.todo, 1) /\ Charges(t.todo)
        BY <1>2, ShapeFacts
    <2>3. 1 < Len(t.todo) /\ t.todo[1+1].do = "buffer"
        BY <2>2 DEF Charges
    <2>a. PICK r : r = Tail(t.todo)
        OBVIOUS
    <2>b. r \in Seq(Asks) /\ Len(r) = Len(t.todo) - 1 /\ \A i \in 1..Len(r) : r[i] = t.todo[1+i]
        BY <2>2, <2>a DEF IsRest
    <2>c. 1 \in 1..Len(r)
        BY <2>2, <2>3, <2>b
    <2>4. r \in Seq(Asks) /\ r = Tail(t.todo) /\ r[1].do = "buffer"
        BY <2>3, <2>a, <2>b, <2>c
    <2>5. r # <<>> /\ Head(r) = r[1]
        BY <2>b, <2>c
    <2>6. task'[s] = [t EXCEPT !.todo = r]
        BY <1>2, <2>1, <2>4, <2>5, Unchanged
    <2>7. task'[s].todo = r /\ task'[s].cost = t.cost
        BY <1>2, <2>6 DEF Task
    <2> QED
        BY <1>3, <2>4, <2>5, <2>7 DEF First
<1>7. /\ UNCHANGED count /\ \A v \in Workers \ {s} : task'[v] = task[v]
    BY <1>2, ServerLeaves
<1>8. Typed'
    BY ServerTyped DEF ServerStep
<1>9. ~First(task[s], "buffer") /\ ~First(task[s], "store")
    BY <1>1, <1>2 DEF First
<1>10. SumOf(Late)' = SumOf(Late) + c
    <2>1. PICK L1, L2 : L1 = Late /\ L2 = Late'
        OBVIOUS
    <2>2. L1 \in [Servers -> Nat] /\ L2 \in [Servers -> Nat] /\ IsFiniteSet(Servers)
        BY <1>8, <2>1, SumTypes, SumTypesNext
    <2>3. L1[s] = 0 /\ L2[s] = c
        BY <1>6, <1>9, <2>1 DEF Late, First
    <2>4. \A v \in Servers \ {s} : L2[v] = L1[v]
        BY <1>7, <2>1 DEF Late, First, Workers
    <2>5. SumOf(L2) + 0 = SumOf(L1) + c
        BY <2>2, <2>3, <2>4, SumChange
    <2>6. SumOf(L1) \in Nat /\ SumOf(L2) \in Nat
        BY <2>2, SumType
    <2> QED
        BY <2>1, <2>5, <2>6
<1>11. SumOf(Charged)' = SumOf(Charged) + c
    <2>1. PICK C1, C2 : C1 = Charged /\ C2 = Charged'
        OBVIOUS
    <2>2. C1 \in [Accounts -> Nat] /\ C2 \in [Accounts -> Nat] /\ IsFiniteSet(Accounts)
        BY <1>8, <2>1, SumTypes, SumTypesNext
    <2>3. PICK row, new : row = units[a] /\ new = units'[a]
        OBVIOUS
    <2>4. row \in [1..MaxMonths -> Nat] /\ new = [row EXCEPT ![month] = row[month] + c]
        BY <1>4, <1>5, <2>3
    <2>5. new \in [1..MaxMonths -> Nat] /\ new[month] = row[month] + c /\ row[month] \in Nat
          /\ \A m \in (1..MaxMonths) \ {month} : new[m] = row[m]
        <3>1. row[month] \in Nat /\ row[month] + c \in Nat
            BY <1>4, <2>4
        <3> QED
            BY <1>4, <2>4, <3>1
    <2>a. IsFiniteSet(1..MaxMonths) /\ month \in 1..MaxMonths
        BY <1>4, SumTypes
    <2>6. SumOf(new) + row[month] = SumOf(row) + new[month]
        <3>1. PICK D : D = 1..MaxMonths
            OBVIOUS
        <3>2. IsFiniteSet(D) /\ row \in [D -> Nat] /\ new \in [D -> Nat] /\ month \in D
              /\ \A m \in D \ {month} : new[m] = row[m]
            BY <2>4, <2>5, <2>a, <3>1
        <3> QED
            BY <3>2, SumChange
    <2>7. SumOf(row) \in Nat /\ SumOf(new) \in Nat
        BY <2>4, <2>5, SumTypes, SumType
    <2>8. SumOf(new) = SumOf(row) + c
        BY <2>5, <2>6, <2>7
    <2>9. C1[a] = SumOf(row) /\ C2[a] = SumOf(new)
        BY <2>1, <2>3 DEF Charged
    <2>10. \A b \in Accounts \ {a} : C2[b] = C1[b]
        BY <1>4, <1>5, <2>1 DEF Charged
    <2>11. SumOf(C2) + C1[a] = SumOf(C1) + C2[a]
        BY <2>2, <2>10, SumChange
    <2>12. SumOf(C1) \in Nat /\ SumOf(C2) \in Nat
        BY <2>2, SumType
    <2>13. SumOf(C2) = SumOf(C1) + c
        BY <2>7, <2>8, <2>9, <2>11, <2>12
    <2> QED
        BY <2>1, <2>13
<1>12. Audited' = Audited + c
    <2>1. PICK e, b, h, l \in Nat : e = events /\ b = SumOf(buffer) /\ h = SumOf(hand) /\ l = SumOf(Late)
        BY SumTypes
    <2>2. Audited = e + b + h + l
        BY <2>1 DEF Audited
    <2>3. Audited' = e + b + h + (l + c)
        BY <1>5, <1>10, <2>1 DEF Audited
    <2> QED
        BY <2>2, <2>3
<1>13. Audited \in Nat /\ SumOf(Charged) \in Nat
    BY SumTypes DEF Audited
<1>14. \A v \in Servers : hand'[v] > 0 => First(task'[v], "store")
    BY <1>5, <1>7, <1>9 DEF EventsFit, Workers
<1>15. troubles' = troubles
    BY <1>7 DEF count
<1>16. Audited' <= SumOf(Charged)' /\ (troubles' = 0 => Audited' = SumOf(Charged)')
    BY <1>11, <1>12, <1>13, <1>15 DEF EventsFit
<1> QED
    BY <1>14, <1>16 DEF EventsFit, First

\* What was late at one server is not any more.
LEMMA LateDrops ==
    ASSUME Typed, Typed', NEW s \in Servers, ~First(task'[s], "buffer"),
           \A v \in Workers \ {s} : task'[v] = task[v]
    PROVE  /\ SumOf(Late') \in Nat /\ SumOf(Late) \in Nat /\ Late[s] \in Nat
           /\ SumOf(Late') + Late[s] = SumOf(Late)
<1>1. PICK L1, L2 : L1 = Late /\ L2 = Late'
    OBVIOUS
<1>2. L1 \in [Servers -> Nat] /\ L2 \in [Servers -> Nat] /\ IsFiniteSet(Servers)
    BY <1>1, SumTypes, SumTypesNext
<1>3. L2[s] = 0
    BY <1>1 DEF Late, First
<1>4. \A v \in Servers \ {s} : L2[v] = L1[v]
    BY <1>1 DEF Late, First, Workers
<1>5. SumOf(L2) + L1[s] = SumOf(L1) + 0
    BY <1>2, <1>3, <1>4, SumChange
<1>6. SumOf(L1) \in Nat /\ SumOf(L2) \in Nat /\ L1[s] \in Nat
    BY <1>2, SumType
<1> QED
    BY <1>1, <1>5, <1>6

LEMMA BufferEvents ==
    ASSUME Typed, EventsFit, NEW s \in Servers, Buffer(s)
    PROVE  EventsFit'
<1>1. s \in Workers /\ First(task[s], "buffer") /\ TasksWell /\ Typed'
    BY IdleIsEmpty, ServerTyped DEF Typed, Workers, Buffer, ServerStep
<1>2. PICK c \in Nat : c = task[s].cost
    BY <1>1, IdleIsEmpty DEF Task
<1>3. /\ UNCHANGED count /\ \A v \in Workers \ {s} : task'[v] = task[v]
      /\ ~First(task'[s], "buffer")
    BY <1>1, ServerLeaves DEF Buffer, Meter, At
<1>4. Late[s] = c
    BY <1>1, <1>2 DEF Late
<1>5. SumOf(Late') \in Nat /\ SumOf(Late) \in Nat /\ SumOf(Late') + c = SumOf(Late)
    BY <1>1, <1>3, <1>4, LateDrops
<1>6. buffer \in [Servers -> Nat] /\ buffer[s] + c \in Nat
    BY DEF Typed, Tables
<1>7. buffer' = [buffer EXCEPT ![s] = buffer[s] + c] /\ UNCHANGED <<units, hand, events>>
    BY <1>2 DEF Buffer
<1>8. /\ SumOf(buffer) \in Nat /\ SumOf(buffer') \in Nat /\ buffer[s] \in Nat
      /\ SumOf(buffer') + buffer[s] = SumOf(buffer) + (buffer[s] + c)
    <2>1. PICK f, g, n : f = buffer /\ g = buffer' /\ n = buffer[s] + c
        OBVIOUS
    <2>2. f \in [Servers -> Nat] /\ g \in [Servers -> Nat] /\ IsFiniteSet(Servers)
        BY <1>6, <1>7, <2>1, AccessAssumption
    <2>3. g[s] = n
        BY <1>6, <1>7, <2>1
    <2>4. \A v \in Servers \ {s} : g[v] = f[v]
        BY <1>6, <1>7, <2>1
    <2>5. SumOf(g) + f[s] = SumOf(f) + n
        BY <2>2, <2>3, <2>4, SumChange
    <2>6. SumOf(f) \in Nat /\ SumOf(g) \in Nat /\ f[s] \in Nat
        BY <2>2, SumType
    <2> QED
        BY <2>1, <2>5, <2>6
<1>9. PICK e, h \in Nat : e = events /\ h = SumOf(hand)
    BY SumTypes
<1>10. Audited' = e + SumOf(buffer') + h + SumOf(Late')
    BY <1>7, <1>9 DEF Audited
<1>11. Audited = e + SumOf(buffer) + h + SumOf(Late)
    BY <1>9 DEF Audited
<1>12. Audited' = Audited
    <2>1. SumOf(buffer') = SumOf(buffer) + c
        BY <1>8
    <2> QED
        BY <1>5, <1>8, <1>10, <1>11, <2>1
<1>13. SumOf(Charged)' = SumOf(Charged) /\ troubles' = troubles
    BY <1>3, <1>7 DEF Charged, count
<1>14. \A v \in Servers : hand'[v] > 0 => First(task'[v], "store")
    <2>1. ~First(task[s], "store")
        BY <1>1 DEF First
    <2> QED
        BY <1>3, <1>7, <2>1 DEF EventsFit, Workers
<1> QED
    BY <1>12, <1>13, <1>14 DEF EventsFit, First

LEMMA FlushEvents ==
    ASSUME Typed, EventsFit, NEW s \in Servers, Flush(s)
    PROVE  EventsFit'
<1>1. s \in Workers /\ ~First(task[s], "buffer") /\ ~First(task[s], "store") /\ TasksWell /\ Typed'
    BY ServerTyped DEF Typed, Workers, Flush, ServerStep, IsIdle, First
<1>2. PICK u : u = [Idle EXCEPT !.kind = "flush", !.todo = Plain(<<"store">>)]
    OBVIOUS
<1>3. /\ task' = [task EXCEPT ![s] = u] /\ hand' = [hand EXCEPT ![s] = buffer[s]]
      /\ buffer' = [buffer EXCEPT ![s] = 0] /\ UNCHANGED <<units, events, count>>
    BY <1>2 DEF Flush
<1>4. First(u, "store")
    <2>1. Well(u)
        BY <1>2, FlushIsWell
    <2>2. PICK r : r = Plain(<<"store">>)
        OBVIOUS
    <2>3. u.todo = r
        BY <1>2, <2>2 DEF Idle
    <2>4. Len(r) = 1 /\ r[1].do = "store"
        <3>1. PICK W : W = <<"store">>
            OBVIOUS
        <3>2. W \in Seq(Steps) /\ Len(W) = 1 /\ W[1] = "store"
            BY <3>1 DEF Steps
        <3>3. Len(Plain(W)) = 1 /\ Plain(W)[1].do = W[1]
            BY <3>2, PlainSteps
        <3> QED
            BY <2>2, <3>1, <3>2, <3>3
    <2>5. r # <<>>
        BY <2>4
    <2>6. Head(u.todo) = u.todo[1]
        BY <2>1, <2>3, <2>5, ShapeFacts
    <2> QED
        BY <2>3, <2>4, <2>5, <2>6 DEF First
<1>5. task'[s] = u /\ \A v \in Workers \ {s} : task'[v] = task[v]
    BY <1>1, <1>3, Unchanged
<1>6. ~First(task'[s], "buffer")
    BY <1>4, <1>5 DEF First
<1>7. Late[s] = 0
    BY <1>1 DEF Late
<1>8. SumOf(Late') = SumOf(Late) /\ SumOf(Late) \in Nat
    BY <1>1, <1>5, <1>6, <1>7, LateDrops
<1>9. buffer \in [Servers -> Nat] /\ hand \in [Servers -> Nat] /\ buffer[s] \in Nat /\ hand[s] \in Nat
    BY DEF Typed, Tables
<1>10. hand[s] = 0
    <2>1. ~(hand[s] > 0)
        BY <1>1 DEF EventsFit
    <2> QED
        BY <1>9, <2>1
<1>11. /\ SumOf(buffer) \in Nat /\ SumOf(buffer') \in Nat
       /\ SumOf(buffer') + buffer[s] = SumOf(buffer) + 0
    <2>1. PICK f, g, n : f = buffer /\ g = buffer' /\ n = 0
        OBVIOUS
    <2>2. f \in [Servers -> Nat] /\ g \in [Servers -> Nat] /\ IsFiniteSet(Servers)
        BY <1>3, <1>9, <2>1, AccessAssumption
    <2>3. g[s] = n
        BY <1>3, <1>9, <2>1
    <2>4. \A v \in Servers \ {s} : g[v] = f[v]
        BY <1>3, <1>9, <2>1
    <2>5. SumOf(g) + f[s] = SumOf(f) + n
        BY <2>2, <2>3, <2>4, SumChange
    <2>6. SumOf(f) \in Nat /\ SumOf(g) \in Nat /\ f[s] \in Nat
        BY <2>2, SumType
    <2> QED
        BY <2>1, <2>5, <2>6
<1>12. /\ SumOf(hand) \in Nat /\ SumOf(hand') \in Nat
       /\ SumOf(hand') + hand[s] = SumOf(hand) + buffer[s]
    <2>1. PICK f, g, n : f = hand /\ g = hand' /\ n = buffer[s]
        OBVIOUS
    <2>2. f \in [Servers -> Nat] /\ g \in [Servers -> Nat] /\ IsFiniteSet(Servers)
        BY <1>3, <1>9, <2>1, AccessAssumption
    <2>3. g[s] = n
        BY <1>3, <1>9, <2>1
    <2>4. \A v \in Servers \ {s} : g[v] = f[v]
        BY <1>3, <1>9, <2>1
    <2>5. SumOf(g) + f[s] = SumOf(f) + n
        BY <2>2, <2>3, <2>4, SumChange
    <2>6. SumOf(f) \in Nat /\ SumOf(g) \in Nat /\ f[s] \in Nat
        BY <2>2, SumType
    <2> QED
        BY <2>1, <2>5, <2>6
<1>13. Audited' = Audited
    <2>1. PICK e \in Nat : e = events
        BY SumTypes
    <2>2. Audited' = e + SumOf(buffer') + SumOf(hand') + SumOf(Late)
        BY <1>3, <1>8, <2>1 DEF Audited
    <2>3. Audited = e + SumOf(buffer) + SumOf(hand) + SumOf(Late)
        BY <2>1 DEF Audited
    <2>4. SumOf(hand') = SumOf(hand) + buffer[s] /\ SumOf(buffer) = SumOf(buffer') + buffer[s]
        BY <1>9, <1>10, <1>11, <1>12
    <2> QED
        BY <1>8, <1>9, <1>11, <1>12, <2>2, <2>3, <2>4
<1>14. SumOf(Charged)' = SumOf(Charged) /\ troubles' = troubles
    BY <1>3 DEF Charged, count
<1>15. \A v \in Servers : hand'[v] > 0 => First(task'[v], "store")
    <2>1. \A v \in Servers \ {s} : hand'[v] = hand[v]
        BY <1>3, <1>9
    <2> QED
        BY <1>4, <1>5, <2>1 DEF EventsFit, Workers
<1> QED
    BY <1>13, <1>14, <1>15 DEF EventsFit, First

LEMMA StoreFits ==
    ASSUME Typed, EventsFit, NEW s \in Servers, StoreEvents(s)
    PROVE  EventsFit'
<1>1. s \in Workers /\ First(task[s], "store") /\ TasksWell /\ Typed'
    BY IdleIsEmpty, ServerTyped DEF Typed, Workers, StoreEvents, ServerStep
<1>2. /\ UNCHANGED count /\ \A v \in Workers \ {s} : task'[v] = task[v]
      /\ ~First(task'[s], "buffer")
    BY <1>1, ServerLeaves DEF StoreEvents, Meter, At
<1>3. Late[s] = 0
    BY <1>1 DEF Late, First
<1>4. SumOf(Late') = SumOf(Late) /\ SumOf(Late) \in Nat
    BY <1>1, <1>2, <1>3, LateDrops
<1>5. hand \in [Servers -> Nat] /\ hand[s] \in Nat
    BY DEF Typed, Tables
<1>6. hand' = [hand EXCEPT ![s] = 0] /\ events' = events + hand[s] /\ UNCHANGED <<units, buffer>>
    BY DEF StoreEvents
<1>7. /\ SumOf(hand) \in Nat /\ SumOf(hand') \in Nat /\ SumOf(hand') + hand[s] = SumOf(hand) + 0
    <2>1. PICK f, g, n : f = hand /\ g = hand' /\ n = 0
        OBVIOUS
    <2>2. f \in [Servers -> Nat] /\ g \in [Servers -> Nat] /\ IsFiniteSet(Servers)
        BY <1>5, <1>6, <2>1, AccessAssumption
    <2>3. g[s] = n
        BY <1>5, <1>6, <2>1
    <2>4. \A v \in Servers \ {s} : g[v] = f[v]
        BY <1>5, <1>6, <2>1
    <2>5. SumOf(g) + f[s] = SumOf(f) + n
        BY <2>2, <2>3, <2>4, SumChange
    <2>6. SumOf(f) \in Nat /\ SumOf(g) \in Nat /\ f[s] \in Nat
        BY <2>2, SumType
    <2> QED
        BY <2>1, <2>5, <2>6
<1>8. Audited' = Audited
    <2>1. PICK e, b \in Nat : e = events /\ b = SumOf(buffer)
        BY SumTypes
    <2>2. Audited' = (e + hand[s]) + b + SumOf(hand') + SumOf(Late)
        BY <1>4, <1>6, <2>1 DEF Audited
    <2>3. Audited = e + b + SumOf(hand) + SumOf(Late)
        BY <2>1 DEF Audited
    <2> QED
        BY <1>4, <1>5, <1>7, <2>2, <2>3
<1>9. SumOf(Charged)' = SumOf(Charged) /\ troubles' = troubles
    BY <1>2, <1>6 DEF Charged, count
<1>10. \A v \in Servers : hand'[v] > 0 => First(task'[v], "store")
    <2>1. hand'[s] = 0 /\ \A v \in Servers \ {s} : hand'[v] = hand[v]
        BY <1>5, <1>6
    <2>2. ~(hand'[s] > 0)
        BY <2>1
    <2> QED
        BY <1>2, <2>1, <2>2 DEF EventsFit, Workers
<1> QED
    BY <1>8, <1>9, <1>10 DEF EventsFit, First

LEMMA SumDrops ==
    ASSUME NEW f, NEW g, f \in [Servers -> Nat], g \in [Servers -> Nat], NEW s \in Servers,
           g[s] = 0, \A v \in Servers \ {s} : g[v] = f[v]
    PROVE  SumOf(f) \in Nat /\ SumOf(g) \in Nat /\ SumOf(g) <= SumOf(f)
<1>1. IsFiniteSet(Servers)
    BY AccessAssumption
<1>2. SumOf(g) + f[s] = SumOf(f) + 0
    BY <1>1, SumChange
<1>3. SumOf(f) \in Nat /\ SumOf(g) \in Nat /\ f[s] \in Nat
    BY <1>1, SumType
<1> QED
    BY <1>2, <1>3

\* What goes wrong loses events, and never adds one.
LEMMA LossFits ==
    ASSUME Typed, EventsFit, Trouble, UNCHANGED <<units, events>>,
           SumOf(buffer') \in Nat, SumOf(hand') \in Nat, SumOf(Late') \in Nat,
           SumOf(buffer') <= SumOf(buffer), SumOf(hand') <= SumOf(hand), SumOf(Late') <= SumOf(Late),
           \A s \in Servers : hand'[s] > 0 => First(task'[s], "store")
    PROVE  EventsFit'
<1>1. PICK e, b, h, l, c \in Nat :
            e = events /\ b = SumOf(buffer) /\ h = SumOf(hand) /\ l = SumOf(Late) /\ c = SumOf(Charged)
    BY SumTypes
<1>2. PICK x, y, z \in Nat : x = SumOf(buffer') /\ y = SumOf(hand') /\ z = SumOf(Late')
    OBVIOUS
<1>3. e + b + h + l <= c
    BY <1>1 DEF EventsFit, Audited
<1>4. e + x + y + z <= c
    BY <1>1, <1>2, <1>3
<1>5. Audited' = e + x + y + z /\ SumOf(Charged)' = c
    BY <1>1, <1>2 DEF Audited, Charged
<1>6. troubles' # 0
    <2>1. troubles \in 0..MaxTroubles
        BY DEF Typed, InBounds
    <2>2. troubles' = troubles + 1
        BY DEF Trouble
    <2> QED
        BY <2>1, <2>2, AccessAssumption
<1> QED
    BY <1>4, <1>5, <1>6 DEF EventsFit, First

LEMMA DieEvents ==
    ASSUME Typed, EventsFit, NEW s \in Servers, Die(s)
    PROVE  EventsFit'
<1>1. s \in Workers /\ TasksWell /\ Typed'
    BY ServerTyped DEF Typed, Workers, ServerStep
<1>2. /\ Trouble /\ UNCHANGED <<units, events>> /\ task' = [task EXCEPT ![s] = Idle]
      /\ hand' = [hand EXCEPT ![s] = 0] /\ buffer' = [buffer EXCEPT ![s] = 0]
    BY DEF Die
<1>3. task'[s] = Idle /\ \A v \in Workers \ {s} : task'[v] = task[v]
    BY <1>1, <1>2, Unchanged
<1>4. ~First(task'[s], "buffer")
    BY <1>3, IdleNowhere
<1>5. /\ SumOf(Late') \in Nat /\ SumOf(Late) \in Nat /\ Late[s] \in Nat
      /\ SumOf(Late') + Late[s] = SumOf(Late)
    BY <1>1, <1>3, <1>4, LateDrops
<1>6. SumOf(Late') <= SumOf(Late)
    BY <1>5
<1>7. hand \in [Servers -> Nat] /\ buffer \in [Servers -> Nat]
    BY DEF Typed, Tables
<1>8. SumOf(hand') \in Nat /\ SumOf(hand') <= SumOf(hand)
    <2>1. PICK f, g : f = hand /\ g = hand'
        OBVIOUS
    <2>2. f \in [Servers -> Nat] /\ g \in [Servers -> Nat]
        BY <1>2, <1>7, <2>1
    <2>3. g[s] = 0 /\ \A v \in Servers \ {s} : g[v] = f[v]
        BY <1>2, <1>7, <2>1
    <2> QED
        BY <2>1, <2>2, <2>3, SumDrops
<1>9. SumOf(buffer') \in Nat /\ SumOf(buffer') <= SumOf(buffer)
    <2>1. PICK f, g : f = buffer /\ g = buffer'
        OBVIOUS
    <2>2. f \in [Servers -> Nat] /\ g \in [Servers -> Nat]
        BY <1>2, <1>7, <2>1
    <2>3. g[s] = 0 /\ \A v \in Servers \ {s} : g[v] = f[v]
        BY <1>2, <1>7, <2>1
    <2> QED
        BY <2>1, <2>2, <2>3, SumDrops
<1>10. \A v \in Servers : hand'[v] > 0 => First(task'[v], "store")
    <2>1. hand'[s] = 0 /\ \A v \in Servers \ {s} : hand'[v] = hand[v]
        BY <1>2, <1>7
    <2> QED
        BY <1>3, <2>1 DEF EventsFit, Workers
<1> QED
    BY <1>2, <1>5, <1>6, <1>8, <1>9, <1>10, LossFits

LEMMA BreakEvents ==
    ASSUME Typed, EventsFit, NEW w \in Workers, Break(w)
    PROVE  EventsFit'
<1>1. TasksWell /\ Servers \subseteq Workers
    BY DEF Typed, Workers
<1>2. /\ Trouble /\ UNCHANGED <<units, buffer, events>> /\ task' = [task EXCEPT ![w] = Idle]
      /\ hand' = IF w \in Servers THEN [hand EXCEPT ![w] = 0] ELSE hand
      /\ ~At(w, "buffer")
    BY DEF Break
<1>3. task'[w] = Idle /\ \A v \in Workers \ {w} : task'[v] = task[v]
    BY <1>1, <1>2, Unchanged
<1>4. ~First(task'[w], "buffer") /\ ~First(task[w], "buffer")
    BY <1>1, <1>2, <1>3, IdleNowhere, IdleIsEmpty
<1>5. Late' = Late
    <2>1. ASSUME NEW v \in Servers
          PROVE  /\ First(task'[v], "buffer") <=> First(task[v], "buffer")
                 /\ First(task[v], "buffer") => task'[v].cost = task[v].cost
        BY <1>1, <1>3, <1>4
    <2> QED
        BY <2>1, LateStays
<1>6. PICK b, l \in Nat : b = SumOf(buffer) /\ l = SumOf(Late)
    BY SumTypes
<1>7. SumOf(buffer') = b /\ SumOf(Late') = l /\ b <= b /\ l <= l
    BY <1>2, <1>5, <1>6
<1>8. hand \in [Servers -> Nat]
    BY DEF Typed, Tables
<1>9. SumOf(hand') \in Nat /\ SumOf(hand') <= SumOf(hand)
    <2>1. CASE w \in Servers
        <3>1. PICK f, g : f = hand /\ g = hand'
            OBVIOUS
        <3>2. f \in [Servers -> Nat] /\ g \in [Servers -> Nat]
            BY <1>2, <1>8, <2>1, <3>1
        <3>3. g[w] = 0 /\ \A v \in Servers \ {w} : g[v] = f[v]
            BY <1>2, <1>8, <2>1, <3>1
        <3> QED
            BY <2>1, <3>1, <3>2, <3>3, SumDrops
    <2>2. CASE w \notin Servers
        <3>1. PICK h \in Nat : h = SumOf(hand)
            BY SumTypes
        <3>2. SumOf(hand') = h /\ h <= h
            BY <1>2, <2>2, <3>1
        <3> QED
            BY <3>1, <3>2
    <2> QED
        BY <2>1, <2>2
<1>10. ASSUME NEW v \in Servers, hand'[v] > 0
       PROVE  First(task'[v], "store")
    <2>1. v # w /\ hand'[v] = hand[v]
        BY <1>2, <1>8, <1>10
    <2> QED
        BY <1>1, <1>3, <1>10, <2>1 DEF EventsFit
<1>11. \A v \in Servers : hand'[v] > 0 => First(task'[v], "store")
    BY <1>10
<1> QED
    BY <1>2, <1>6, <1>7, <1>9, <1>11, LossFits

LEMMA NextEvents ==
    ASSUME Typed, EventsFit, Next
    PROVE  EventsFit'
<1>1. \/ \E w \in Workers : Turns(w)
      \/ \E w \in Workers : KeyStep(w)
      \/ \E s \in Servers : ServerStep(s)
      \/ \E w \in Workers : Break(w)
      \/ World
    BY NextCases DEF Typed
<1>2. CASE (\E w \in Workers : Turns(w)) \/ (\E w \in Workers : KeyStep(w))
    BY <1>2, QuietEvents
<1>3. CASE \E s \in Servers : ServerStep(s)
    BY <1>3, MintEvents, MeterEvents, BufferEvents, FlushEvents, StoreFits, DieEvents DEF ServerStep
<1>4. CASE \E w \in Workers : Break(w)
    BY <1>4, BreakEvents
<1>5. CASE World
    <2>1. task' = task
        BY <1>5, WorldTyped
    <2>2. UNCHANGED <<units, buffer, hand, events>> /\ Event
        BY <1>5 DEF World, Authorize, ExpireToken, SetSeat, SetGrant, GrantForm, NextMonth, usage
    <2>3. troubles' = troubles
        BY <2>2 DEF Event
    <2>4. Late' = Late
        BY <2>1, LateStays
    <2>5. \A s \in Servers : hand[s] > 0 => First(task'[s], "store")
        BY <2>1 DEF EventsFit
    <2> QED
        BY <2>2, <2>3, <2>4, <2>5, EventsStay
<1> QED
    BY <1>1, <1>2, <1>3, <1>4, <1>5

LEMMA InitEvents ==
    ASSUME Init
    PROVE  EventsFit
<1>1. Typed
    BY InitTyped
<1>2. /\ units = [a \in Accounts |-> [m \in 1..MaxMonths |-> 0]]
      /\ buffer = [s \in Servers |-> 0] /\ hand = [s \in Servers |-> 0] /\ events = 0
      /\ \A w \in Workers : task[w] = Idle
    BY DEF Init
<1>3. IsFiniteSet(Servers) /\ IsFiniteSet(Accounts) /\ IsFiniteSet(1..MaxMonths)
    BY <1>1, SumTypes
<1>4. SumOf(buffer) = 0 /\ SumOf(hand) = 0
    BY <1>2, <1>3, SumOfNothing
<1>5. SumOf(Late) = 0
    <2>1. PICK f : f = Late
        OBVIOUS
    <2>2. f \in [Servers -> Nat] /\ \A s \in Servers : f[s] = 0
        BY <1>1, <1>2, <2>1, SumTypes, IdleNowhere DEF Late, Workers
    <2> QED
        BY <1>3, <2>1, <2>2, SumOfNothing
<1>6. SumOf(Charged) = 0
    <2>1. PICK f : f = Charged
        OBVIOUS
    <2>2. ASSUME NEW a \in Accounts
          PROVE  f[a] = 0
        <3>1. PICK g : g = units[a]
            OBVIOUS
        <3>2. g \in [1..MaxMonths -> Nat] /\ \A m \in 1..MaxMonths : g[m] = 0
            BY <1>2, <3>1
        <3>3. SumOf(g) = 0
            BY <1>3, <3>2, SumOfNothing
        <3> QED
            BY <2>1, <3>1, <3>3 DEF Charged
    <2>3. f \in [Accounts -> Nat]
        BY <1>1, <2>1, SumTypes
    <2> QED
        BY <1>3, <2>1, <2>2, <2>3, SumOfNothing
<1>7. \A s \in Servers : ~(hand[s] > 0)
    BY <1>2
<1> QED
    BY <1>2, <1>4, <1>5, <1>6, <1>7 DEF EventsFit, Audited

\* The ledger of read units adds up, for every number of servers, quota and cost of a
\* read: the units counted in a month exceed the quota by less than one read for each
\* server, since the reads under way were admitted below it; and what was charged is, unit
\* for unit, in the table of events or in a server's memory on its way there, as long as no
\* transaction fails and no server dies (and never more than was charged, whatever fails).
THEOREM UsageAlwaysAddsUp == Spec => []UsageAddsUp
<1>1. Init => Typed /\ UnitsFit /\ EventsFit
    BY InitTyped, InitUnits, InitEvents
<1>2. Typed /\ UnitsFit /\ EventsFit /\ [Next]_vars => (Typed /\ UnitsFit /\ EventsFit)'
    <2>1. SUFFICES ASSUME Typed, UnitsFit, EventsFit, [Next]_vars
                   PROVE  Typed' /\ UnitsFit' /\ EventsFit'
        OBVIOUS
    <2>2. Typed'
        BY <2>1, NextTyped
    <2>3. CASE Next
        BY <2>1, <2>2, <2>3, NextUnits, NextEvents
    <2>4. CASE UNCHANGED vars
        <3>1. UNCHANGED <<units, buffer, hand, events, month, task, troubles>>
            BY <2>4 DEF vars, usage, count
        <3>2. UnitsFit'
            BY <2>1, <3>1 DEF UnitsFit, Charging, First
        <3>3. EventsFit'
            BY <2>1, <3>1 DEF EventsFit, Audited, Late, Charged, First
        <3> QED
            BY <2>2, <3>2, <3>3
    <2> QED
        BY <2>1, <2>3, <2>4
<1>3. Typed /\ UnitsFit => UnitsOvershoot
    BY DEF UnitsFit, UnitsOvershoot, Most, Dearest, Costs
<1>4. Typed /\ EventsFit => EventsFollowUnits
    <2>1. SUFFICES ASSUME Typed, EventsFit PROVE EventsFollowUnits
        OBVIOUS
    <2>2. \A s \in Servers : At(s, "buffer") <=> First(task[s], "buffer")
        BY <2>1, IdleIsEmpty DEF Typed, Workers
    <2>3. [s \in Servers |-> IF At(s, "buffer") THEN task[s].cost ELSE 0] = Late
        BY <2>2 DEF Late
    <2> QED
        BY <2>1, <2>3 DEF EventsFit, EventsFollowUnits, Audited, Charged
<1>5. Typed /\ UnitsFit /\ EventsFit => UsageAddsUp
    BY <1>3, <1>4 DEF UsageAddsUp
<1> QED
    BY <1>1, <1>2, <1>5, PTL DEF Spec
=====================
