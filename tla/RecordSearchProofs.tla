------------------------- MODULE RecordSearchProofs -------------------------
(***************************************************************************)
(* What a search answers, for any records, texts, votes, settings and      *)
(* modes, and whatever the writers and voters do between its reads.        *)
(*                                                                         *)
(* Two arguments carry the proofs.  The ranking is a strict order of the   *)
(* hits, whatever the votes, so what a cut or a group leaves out stands    *)
(* behind what it keeps.  And what a step has read of a record is still    *)
(* true of it while nobody touches the record, so the steps agree on the   *)
(* records that nobody touched.                                            *)
(***************************************************************************)
EXTENDS RecordSearch, FiniteSetTheorems, WellFoundedInduction, TLAPS

-----------------------------------------------------------------------------
(* The ranking.                                                            *)

\* The search s knows how relevant each record of S is.
Graded(s, S) == S \subseteq Records /\ \A r \in S : s.rel[r] \in Int

LEMMA Settings ==
    /\ RelMin \in Nat /\ Epsilon \in Nat /\ Delta \in Nat /\ QVerified \in Nat /\ QLean \in Nat
    /\ 2 * QVerified < Epsilon /\ 2 * QLean < Epsilon /\ 0 < RelMin
    /\ MaxCases \in Nat \ {0} /\ PerCase \in Nat \ {0}
BY SearchAssumption DEF RankingConfigValid

LEMMA AdjustmentIsSmall ==
    ASSUME NEW label
    PROVE  QAdjust(label) \in Int /\ QAdjust(label) <= QVerified /\ -QLean <= QAdjust(label)
<1>1. QAdjust(label) \in {QVerified, -QLean, 0}
    BY DEF QAdjust
<1> QED
    BY <1>1, Settings

LEMMA FinalScoreIsNumber ==
    ASSUME NEW s, NEW r, s.rel[r] \in Int
    PROVE  FinalScore(s, r) \in Int
<1>1. CASE IsWrong(s, r)
    BY <1>1, Settings DEF FinalScore, Least
<1>2. CASE ~IsWrong(s, r)
    BY <1>2, AdjustmentIsSmall DEF FinalScore
<1> QED
    BY <1>1, <1>2

\* Of two records that both are wrong, or both are not, the score decides, then the
\* age, then the id.
LEMMA AheadAmongEquals ==
    ASSUME NEW s, NEW a, NEW b, IsWrong(s, a) = IsWrong(s, b)
    PROVE  Ahead(s, a, b) <=>
               IF FinalScore(s, a) # FinalScore(s, b) THEN FinalScore(s, a) > FinalScore(s, b)
               ELSE IF Profile[a].created # Profile[b].created
                    THEN Profile[a].created > Profile[b].created
               ELSE a < b
BY DEF Ahead

LEMMA SoundIsAhead ==
    ASSUME NEW s, NEW a, NEW b, IsWrong(s, a) # IsWrong(s, b)
    PROVE  Ahead(s, a, b) <=> IsWrong(s, b)
BY DEF Ahead

LEMMA WrongIsBoolean == \A s, r : IsWrong(s, r) \in BOOLEAN
BY DEF IsWrong

LEMMA AheadTotal ==
    ASSUME NEW s, NEW S, Graded(s, S), NEW a \in S, NEW b \in S, a # b
    PROVE  (Ahead(s, a, b) \/ Ahead(s, b, a)) /\ ~(Ahead(s, a, b) /\ Ahead(s, b, a))
<1>1. /\ a \in Nat /\ b \in Nat /\ Profile[a].created \in Nat /\ Profile[b].created \in Nat
      /\ FinalScore(s, a) \in Int /\ FinalScore(s, b) \in Int
    BY SearchAssumption, FinalScoreIsNumber DEF Graded
<1>2. CASE IsWrong(s, a) # IsWrong(s, b)
    BY <1>2, SoundIsAhead, WrongIsBoolean, Zenon
<1>3. CASE IsWrong(s, a) = IsWrong(s, b)
    BY <1>1, <1>3, AheadAmongEquals
<1> QED
    BY <1>2, <1>3

LEMMA AheadTransitive ==
    ASSUME NEW s, NEW S, Graded(s, S), NEW a \in S, NEW b \in S, NEW c \in S,
           Ahead(s, a, b), Ahead(s, b, c)
    PROVE  Ahead(s, a, c)
<1>1. /\ a \in Nat /\ b \in Nat /\ c \in Nat
      /\ Profile[a].created \in Nat /\ Profile[b].created \in Nat /\ Profile[c].created \in Nat
      /\ FinalScore(s, a) \in Int /\ FinalScore(s, b) \in Int /\ FinalScore(s, c) \in Int
    BY SearchAssumption, FinalScoreIsNumber DEF Graded
<1>2. CASE IsWrong(s, a) = IsWrong(s, b) /\ IsWrong(s, b) = IsWrong(s, c)
    BY <1>1, <1>2, AheadAmongEquals
<1>3. CASE ~(IsWrong(s, a) = IsWrong(s, b) /\ IsWrong(s, b) = IsWrong(s, c))
    <2>1. ~IsWrong(s, a) /\ IsWrong(s, c)
        BY <1>3, SoundIsAhead, WrongIsBoolean
    <2> QED
        BY <2>1, SoundIsAhead
<1> QED
    BY <1>2, <1>3

LEMMA NotAheadOfItself ==
    ASSUME NEW s, NEW a \in Records, s.rel[a] \in Int
    PROVE  ~Ahead(s, a, a)
<1>1. a \in Nat /\ Profile[a].created \in Nat /\ FinalScore(s, a) \in Int
    BY SearchAssumption, FinalScoreIsNumber
<1> QED
    BY <1>1, AheadAmongEquals

\* What stands before r in S.
Before(s, S, r) == {x \in S : Ahead(s, x, r)}

LEMMA BeforeIsFinite ==
    ASSUME NEW s, NEW S, S \subseteq Records, NEW r
    PROVE  /\ IsFiniteSet(S) /\ Cardinality(S) \in Nat
           /\ IsFiniteSet(Before(s, S, r)) /\ Cardinality(Before(s, S, r)) \in Nat
<1>1. IsFiniteSet(S)
    BY SearchAssumption, FS_Subset
<1>2. IsFiniteSet(Before(s, S, r))
    BY <1>1, FS_Subset DEF Before
<1> QED
    BY <1>1, <1>2, FS_CardinalityType

LEMMA FirstIs == \A s, S, n : First(s, S, n) = {r \in S : Cardinality(Before(s, S, r)) < n}
BY DEF First, Before

\* Fewer stand before the one that stands ahead.
LEMMA BeforeGrows ==
    ASSUME NEW s, NEW S, Graded(s, S), NEW a \in S, NEW b \in S, Ahead(s, a, b)
    PROVE  Cardinality(Before(s, S, a)) < Cardinality(Before(s, S, b))
<1>1. Before(s, S, a) \subseteq Before(s, S, b)
    BY AheadTransitive DEF Before
<1>2. a \in Before(s, S, b) /\ a \notin Before(s, S, a)
    BY NotAheadOfItself DEF Before, Graded
<1>3. /\ IsFiniteSet(Before(s, S, b))
      /\ Cardinality(Before(s, S, a)) \in Nat /\ Cardinality(Before(s, S, b)) \in Nat
    BY BeforeIsFinite DEF Graded
<1>4. /\ Cardinality(Before(s, S, a)) <= Cardinality(Before(s, S, b))
      /\ Cardinality(Before(s, S, a)) # Cardinality(Before(s, S, b))
    BY <1>1, <1>2, <1>3, FS_Subset
<1> QED
    BY <1>3, <1>4

\* What a cut keeps stands ahead of what it leaves out.
LEMMA FirstStandAhead ==
    ASSUME NEW s, NEW S, Graded(s, S), NEW n \in Nat, NEW x \in First(s, S, n),
           NEW r \in S, r \notin First(s, S, n)
    PROVE  Ahead(s, x, r)
<1>1. x \in S /\ Cardinality(Before(s, S, x)) < n /\ ~(Cardinality(Before(s, S, r)) < n)
    BY FirstIs
<1>2. Cardinality(Before(s, S, x)) \in Nat /\ Cardinality(Before(s, S, r)) \in Nat
    BY BeforeIsFinite DEF Graded
<1>3. ~Ahead(s, r, x)
    BY <1>1, <1>2, BeforeGrows
<1> QED
    BY <1>1, <1>3, AheadTotal

\* Some record has none before it.
LEMMA SomeIsFirst ==
    ASSUME NEW s, NEW S, Graded(s, S), S # {}, NEW n \in Nat \ {0}
    PROVE  First(s, S, n) # {}
<1> DEFINE T == {Before(s, S, r) : r \in S}
<1>1. T \subseteq FiniteSubsetsOf(S)
    BY BeforeIsFinite DEF FiniteSubsetsOf, Before, Graded
<1>2. PICK M \in T : \A U \in T : ~(<<U, M>> \in StrictSubsetOrdering(S))
    <2>1. T # {}
        OBVIOUS
    <2>2. IsWellFoundedOn(StrictSubsetOrdering(S), FiniteSubsetsOf(S))
        BY FS_StrictSubsetOrderingWellFounded
    <2> HIDE DEF T
    <2> QED
        BY <1>1, <2>1, <2>2, WFMin
<1>3. PICK r \in S : M = Before(s, S, r)
    BY <1>2
<1>4. ASSUME NEW x \in M PROVE FALSE
    <2>1. x \in S /\ Ahead(s, x, r)
        BY <1>3, <1>4 DEF Before
    <2>2. Before(s, S, x) \subseteq M
        BY <1>3, <2>1, AheadTransitive DEF Before
    <2>3. x \notin Before(s, S, x)
        BY <2>1, NotAheadOfItself DEF Before, Graded
    <2>4. Before(s, S, x) \subseteq S /\ M \subseteq S
        BY <1>3 DEF Before
    <2> QED
        BY <1>2, <1>4, <2>1, <2>2, <2>3, <2>4 DEF StrictSubsetOrdering
<1>5. Cardinality(Before(s, S, r)) = 0
    BY <1>3, <1>4, FS_EmptySet
<1> QED
    BY <1>5, FirstIs

\* A cut that leaves something out is full.
LEMMA FirstIsFull ==
    ASSUME NEW s, NEW S, Graded(s, S), NEW n \in Nat, NEW r \in S, r \notin First(s, S, n)
    PROVE  Cardinality(First(s, S, n)) = n
<1> DEFINE N == Cardinality(S)
           Rank == [x \in S |-> Cardinality(Before(s, S, x))]
           F == First(s, S, n)
<1>1. IsFiniteSet(S) /\ N \in Nat /\ \A x \in S : Rank[x] \in Nat
    BY BeforeIsFinite DEF Graded
<1>2. \A x \in S : Rank[x] < N
    <2> SUFFICES ASSUME NEW x \in S PROVE Rank[x] < N
        OBVIOUS
    <2>1. Before(s, S, x) \subseteq S /\ x \notin Before(s, S, x)
        BY NotAheadOfItself DEF Before, Graded
    <2>2. Rank[x] = Cardinality(Before(s, S, x))
        OBVIOUS
    <2>3. Rank[x] <= N /\ Rank[x] # N
        BY <1>1, <2>1, <2>2, FS_Subset
    <2> QED
        BY <1>1, <2>3
<1>3. \A x, y \in S : x # y => Rank[x] # Rank[y]
    BY <1>1, AheadTotal, BeforeGrows
<1>4. Rank \in [S -> 0..(N - 1)]
    BY <1>1, <1>2
<1> HIDE DEF Rank
<1>5. Rank \in Injection(S, 0..(N - 1))
    BY <1>3, <1>4 DEF Injection, IsInjective
<1>6. IsFiniteSet(0..(N - 1)) /\ Cardinality(0..(N - 1)) = N
    <2> HIDE DEF N
    <2>1. 0 \in Int /\ N - 1 \in Int
        BY <1>1
    <2>2. /\ IsFiniteSet(0..(N - 1))
          /\ Cardinality(0..(N - 1)) = IF 0 > N - 1 THEN 0 ELSE (N - 1) - 0 + 1
        BY <2>1, FS_Interval
    <2> QED
        BY <1>1, <2>2
<1>7. Rank \in Surjection(S, 0..(N - 1))
    BY <1>5, <1>6, FS_Injection
<1>8. F = {x \in S : Rank[x] < n} /\ ~(Rank[r] < n)
    BY FirstIs DEF Rank
<1>9. n < N
    BY <1>1, <1>2, <1>8
<1> DEFINE G == [x \in F |-> Rank[x]]
<1>10. G \in Bijection(F, 0..(n - 1))
    <2> HIDE DEF F
    <2>1. G \in [F -> 0..(n - 1)]
        BY <1>1, <1>8
    <2>2. \A x, y \in F : x # y => G[x] # G[y]
        BY <1>3, <1>8
    <2>3. \A k \in 0..(n - 1) : \E x \in F : G[x] = k
        <3> SUFFICES ASSUME NEW k \in 0..(n - 1) PROVE \E x \in F : G[x] = k
            OBVIOUS
        <3>1. k \in 0..(N - 1)
            BY <1>1, <1>9
        <3>2. PICK x \in S : Rank[x] = k
            BY <1>7, <3>1 DEF Surjection
        <3>3. x \in F
            BY <1>8, <3>2
        <3> QED
            BY <3>2, <3>3
    <2> HIDE DEF G
    <2> QED
        BY <2>1, <2>2, <2>3 DEF Bijection, Injection, IsInjective, Surjection
<1>11. IsFiniteSet(0..(n - 1)) /\ Cardinality(0..(n - 1)) = n
    BY FS_Interval
<1>12. IsFiniteSet(F)
    BY <1>1, <1>8, FS_Subset
<1>13. ExistsBijection(F, 0..(n - 1))
    BY <1>10 DEF ExistsBijection
<1> HIDE DEF F, G
<1> QED
    BY <1>11, <1>12, <1>13, FS_Bijection DEF F

-----------------------------------------------------------------------------
(* Scores.                                                                 *)

\* Functions of some records.
Partial(T) == UNION {[S -> T] : S \in SUBSET Records}

LEMMA PartialIs ==
    ASSUME NEW T, NEW f
    PROVE  f \in Partial(T) <=> DOMAIN f \subseteq Records /\ f \in [DOMAIN f -> T]
BY DEF Partial

LEMMA PartialFunction ==
    ASSUME NEW T, NEW S, S \subseteq Records, NEW f \in [S -> T]
    PROVE  f \in Partial(T)
BY DEF Partial

LEMMA EmptyIsPartial ==
    ASSUME NEW T
    PROVE  /\ Empty \in Partial(T) /\ DOMAIN Empty = {}
           /\ \A f \in Partial(T) : DOMAIN f = {} => f = Empty
BY DEF Partial, Empty

LEMMA OneIsNumber == One \in Nat /\ 0..One \subseteq Nat /\ \A n \in 0..One : n >= n
<1>1. One \in Nat
    BY DEF One
<1> QED
    BY <1>1

\* A part of a whole.
LEMMA Share ==
    ASSUME NEW x \in Nat, NEW m \in Nat, x <= m, m # 0
    PROVE  (x * One) \div m \in 0..One
<1> DEFINE q == (x * One) \div m
<1>1. x * One \in Nat /\ m > 0
    BY DEF One
<1>2. q \in Int /\ m * q <= x * One /\ x * One < m * (q + 1)
    BY <1>1
<1> HIDE DEF q
<1>3. ASSUME q < 0 PROVE FALSE
    <2>1. q + 1 <= 0
        BY <1>2, <1>3
    <2>2. m * (q + 1) <= 0
        BY <1>1, <1>2, <2>1
    <2> QED
        BY <1>1, <1>2, <2>2
<1>4. ASSUME q > One PROVE FALSE
    <2>1. q >= One + 1 /\ One \in Nat
        BY <1>2, <1>4 DEF One
    <2>2. m * q >= m * (One + 1)
        BY <1>1, <1>2, <2>1
    <2>3. m * (One + 1) = m * One + m /\ x * One <= m * One
        BY <1>1 DEF One
    <2>4. PICK a \in Int, b \in Int, c \in Int, d \in Int :
              a = m * q /\ b = m * One /\ c = m * (One + 1) /\ d = x * One
        BY <1>1, <1>2 DEF One
    <2>5. a <= d /\ a >= c /\ c = b + m /\ d <= b
        BY <1>2, <2>2, <2>3, <2>4
    <2>6. a \in Int /\ b \in Int /\ c \in Int /\ d \in Int /\ m \in Int /\ m > 0
        BY <1>1, <2>4
    <2> QED
        BY <2>5, <2>6
<1> QED
    BY <1>2, <1>3, <1>4 DEF q, One

LEMMA LargestIsOne ==
    ASSUME NEW f \in Partial(Nat), f # Empty
    PROVE  Largest(f) \in Nat /\ \A r \in DOMAIN f : f[r] <= Largest(f)
<1> DEFINE D == DOMAIN f
           T == {{x \in D : f[x] > f[r]} : r \in D}
<1>1. D # {} /\ D \subseteq Records /\ f \in [D -> Nat] /\ IsFiniteSet(D)
    BY EmptyIsPartial, PartialIs, SearchAssumption, FS_Subset
<1>2. T \subseteq FiniteSubsetsOf(D)
    BY <1>1, FS_Subset DEF FiniteSubsetsOf
<1>3. PICK M \in T : \A U \in T : ~(<<U, M>> \in StrictSubsetOrdering(D))
    <2>1. T # {}
        BY <1>1
    <2>2. IsWellFoundedOn(StrictSubsetOrdering(D), FiniteSubsetsOf(D))
        BY FS_StrictSubsetOrderingWellFounded
    <2> HIDE DEF T, D
    <2> QED
        BY <1>2, <2>1, <2>2, WFMin
<1>4. PICK r \in D : M = {x \in D : f[x] > f[r]}
    BY <1>3
<1>5. ASSUME NEW y \in D, f[y] > f[r] PROVE FALSE
    <2>1. f[r] \in Nat /\ f[y] \in Nat
        BY <1>1
    <2>2. {x \in D : f[x] > f[y]} \subseteq M
        BY <1>1, <1>4, <1>5, <2>1
    <2>3. y \in M /\ y \notin {x \in D : f[x] > f[y]}
        BY <1>4, <1>5, <2>1
    <2>4. PICK U \in T : U = {x \in D : f[x] > f[y]}
        OBVIOUS
    <2>5. U \subseteq D /\ M \subseteq D /\ U \subseteq M /\ U # M
        BY <1>4, <2>2, <2>3, <2>4
    <2>6. ~(<<U, M>> \in StrictSubsetOrdering(D))
        BY <1>3, <2>4
    <2> HIDE DEF T, D
    <2> QED
        BY <2>5, <2>6 DEF StrictSubsetOrdering
<1>6. \E m \in {f[x] : x \in D} : \A x \in D : f[x] <= m
    BY <1>1, <1>5
<1> QED
    BY <1>1, <1>6 DEF Largest

LEMMA NormalizedIsPartial ==
    ASSUME NEW f \in Partial(Nat)
    PROVE  DOMAIN Normalized(f) = DOMAIN f /\ Normalized(f) \in Partial(0..One)
<1>1. f \in [DOMAIN f -> Nat] /\ DOMAIN f \subseteq Records
    BY PartialIs
<1>2. CASE f = Empty
    BY <1>2, EmptyIsPartial DEF Normalized
<1>3. CASE f # Empty /\ Largest(f) = 0
    <2>1. \A r \in DOMAIN f : f[r] \in 0..One
        BY <1>1, <1>3, LargestIsOne DEF One
    <2>2. Normalized(f) = f
        BY <1>3 DEF Normalized
    <2> QED
        BY <1>1, <2>1, <2>2, PartialIs
<1>4. CASE f # Empty /\ Largest(f) # 0
    <2>1. Normalized(f) = [r \in DOMAIN f |-> (f[r] * One) \div Largest(f)]
        BY <1>4 DEF Normalized
    <2>2. \A r \in DOMAIN f : (f[r] * One) \div Largest(f) \in 0..One
        BY <1>1, <1>4, LargestIsOne, Share
    <2> QED
        BY <1>1, <2>1, <2>2, PartialIs
<1> QED
    BY <1>2, <1>3, <1>4

LEMMA FusedIsPartial ==
    ASSUME NEW fts \in Partial(Nat), NEW vec \in Partial(0..One)
    PROVE  /\ Fused(fts, vec) \in Partial(0..One)
           /\ DOMAIN Fused(fts, vec) = DOMAIN fts \cup DOMAIN vec
           /\ \A r \in DOMAIN vec : vec[r] # 0 => Fused(fts, vec)[r] >= vec[r]
<1> DEFINE norm == Normalized(fts)
           F(r) == IF r \in DOMAIN norm THEN norm[r] ELSE 0
           V(r) == IF r \in DOMAIN vec THEN vec[r] ELSE 0
           G(r) == IF V(r) = 0 THEN F(r) \div 2 ELSE Most(V(r), (4 * F(r) + 6 * V(r)) \div 10)
<1>1. norm \in [DOMAIN norm -> 0..One] /\ vec \in [DOMAIN vec -> 0..One]
      /\ DOMAIN fts \cup DOMAIN vec \subseteq Records
    BY NormalizedIsPartial, PartialIs
<1> HIDE DEF norm
<1>2. \A r : F(r) \in 0..One /\ V(r) \in 0..One
    <2>1. 0 \in 0..One
        BY DEF One
    <2>2. \A r : F(r) \in 0..One
        BY <1>1, <2>1
    <2>3. \A r : V(r) \in 0..One
        BY <1>1, <2>1
    <2> QED
        BY <2>2, <2>3
<1>3. ASSUME NEW m \in 0..One, NEW n \in 0..One
      PROVE  /\ m \div 2 \in 0..One
             /\ Most(n, (4 * m + 6 * n) \div 10) \in 0..One
             /\ Most(n, (4 * m + 6 * n) \div 10) >= n
    <2> DEFINE mean == (4 * m + 6 * n) \div 10
    <2>1. m \div 2 \in 0..One
        BY SMTT(60) DEF One
    <2>2. mean \in 0..One
        BY SMTT(60) DEF One
    <2> HIDE DEF mean
    <2>3. Most(n, mean) \in 0..One /\ Most(n, mean) >= n
        BY <2>2 DEF Most, One
    <2> QED
        BY <2>1, <2>3 DEF mean
<1>4. Fused(fts, vec) = [r \in DOMAIN fts \cup DOMAIN vec |-> G(r)]
    BY DEF Fused, norm
<1>5. \A r : G(r) \in 0..One /\ (V(r) # 0 => G(r) >= V(r))
    <2> HIDE DEF F, V
    <2> QED
        BY <1>2, <1>3
<1> HIDE DEF G
<1>6. Fused(fts, vec) \in [DOMAIN fts \cup DOMAIN vec -> 0..One]
    BY <1>4, <1>5
<1> QED
    BY <1>1, <1>4, <1>5, <1>6, PartialFunction DEF V

LEMMA FactorIsNumber ==
    ASSUME NEW t
    PROVE  Factor(t) \in Nat
<1> DEFINE Times(x, m, w) == IF m \in Scores[t].shares THEN (x * w) \div 100 ELSE x
<1>1. \A x \in Nat : (x * 110) \div 100 \in Nat /\ (x * 115) \div 100 \in Nat
                     /\ (x * 50) \div 100 \in Nat
    OBVIOUS
<1>2. \A x \in Nat : \A m : /\ Times(x, m, 110) \in Nat /\ Times(x, m, 115) \in Nat
                            /\ Times(x, m, 50) \in Nat
    BY <1>1
<1>3. One \in Nat
    BY DEF One
<1> DEFINE task      == Times(One, "task_type", 110)
           product   == Times(task, "product", 115)
           component == Times(product, "component", 110)
           tags      == Times(component, "tags", 110)
           applies   == Times(tags, "applicable_if", 110)
<1>4. Factor(t) = Times(applies, "not_applicable_if", 50)
    BY DEF Factor
<1> HIDE DEF Times
<1>5. task \in Nat
    BY <1>2, <1>3
<1>6. product \in Nat
    BY <1>2, <1>5
<1>7. component \in Nat
    BY <1>2, <1>6
<1>8. tags \in Nat
    BY <1>2, <1>7
<1>9. applies \in Nat
    BY <1>2, <1>8
<1> QED
    BY <1>2, <1>4, <1>9

\* A boost keeps the order, and makes nothing of nothing.
LEMMA BoostKeepsOrder ==
    ASSUME NEW m \in Nat, NEW n \in Nat, NEW f \in Nat
    PROVE  /\ Boosted(n, f) \in 0..One
           /\ m <= n => Boosted(m, f) <= Boosted(n, f)
           /\ Boosted(0, f) = 0
<1>1. m * f \in Nat /\ n * f \in Nat /\ 0 * f = 0
    OBVIOUS
<1>2. m <= n => m * f <= n * f
    OBVIOUS
<1>3. \A x, y \in Nat : /\ x \div 10000 \in Nat /\ 0 \div 10000 = 0
                        /\ x <= y => x \div 10000 <= y \div 10000
    OBVIOUS
<1>4. PICK x \in Nat, y \in Nat, z \in Nat : x = m * f /\ y = n * f /\ z = 0 * f
    BY <1>1
<1>5. /\ Boosted(m, f) = Least(10000, x \div 10000)
      /\ Boosted(n, f) = Least(10000, y \div 10000)
      /\ Boosted(0, f) = Least(10000, 0 \div 10000)
    BY <1>1, <1>4 DEF Boosted, One
<1>6. m <= n => x <= y
    BY <1>2, <1>4
<1>7. x \in Nat /\ y \in Nat
    BY <1>4
<1>8. PICK u \in Nat, v \in Nat : u = x \div 10000 /\ v = y \div 10000 /\ (x <= y => u <= v)
    BY <1>3, <1>7
<1>9. u \in Nat /\ v \in Nat /\ 0 \div 10000 = 0
    BY <1>8
<1>10. /\ Least(10000, v) \in 0..10000 /\ Least(10000, 0) = 0
       /\ u <= v => Least(10000, u) <= Least(10000, v)
    BY <1>9 DEF Least
<1>11. Boosted(m, f) = Least(10000, u) /\ Boosted(n, f) = Least(10000, v)
       /\ Boosted(0, f) = Least(10000, 0)
    BY <1>5, <1>8, <1>9
<1> QED
    BY <1>6, <1>8, <1>10, <1>11 DEF One

-----------------------------------------------------------------------------
(* The invariant.                                                          *)

\* A search looks for what is relevant, judges it, and answers.
Seeking   == {"idle", "candidates", "lexical", "fulltext", "ann", "list", "scan"}
Judging   == {"boost", "superseded", "votes"}
Answering == {"rows", "attach", "lineage", "done"}

Search ==
    [pc : Seeking \cup Judging \cup Answering, caller : Callers, pool : SUBSET Records,
     fts : Partial(Nat), rel : Partial(0..One), sunk : SUBSET Records,
     tally : Partial(Tallies), fetched : SUBSET Records, hits : SUBSET Records,
     unread : SUBSET (Records \X Records), warned : SUBSET (Records \X Records),
     peers : SUBSET (Records \X Records), answer : SUBSET Records, missed : SUBSET Records,
     opened : SUBSET (Records \X BOOLEAN)]

WriterOK ==
    /\ writer \in [step : {"idle", "index", "vector", "links", "unvector", "unindex"},
                   rec : Nat, links : BOOLEAN]
    /\ writer.step # "idle" => writer.rec \in Records

VoterOK ==
    /\ voter \in [step : {"idle", "cast"}, rec : Nat, by : Callers, vote : {1, -1, 0}]
    /\ voter.step # "idle" => voter.rec \in Records

TablesOK ==
    /\ rows \in [Records -> Row]
    /\ index \in [Records -> Row]
    /\ vectors \in [Records -> Row]
    /\ links \subseteq Records \X Records
    /\ ballots \in [Records -> [Callers -> {1, -1, 0}]]
    /\ WriterOK /\ VoterOK
    /\ left \in [changes : Nat, faults : Nat]

ServerOK ==
    /\ mode \in Modes /\ hide \in BOOLEAN
    /\ touched \subseteq Records /\ lagged \subseteq Records

\* What a search has not come to is empty.
Unfilled ==
    /\ search.pc \in Seeking => search.rel = Empty
    /\ search.pc \in Seeking \cup Judging => search.tally = Empty
    /\ search.pc \in Seeking \cup Judging \cup {"rows"} => search.fetched = {} /\ search.hits = {}
    /\ search.pc \notin {"lineage", "done"} => search.unread = {} /\ search.warned = {}
    /\ search.pc # "done" => search.answer = {} /\ search.peers = {} /\ search.opened = {}

\* The hits are what the ranking makes of the rows, and the answer of the hits.
Ranked ==
    /\ search.pc \in Answering => DOMAIN search.tally = DOMAIN search.rel
    /\ search.fetched \subseteq DOMAIN search.rel
    /\ search.hits = Hits(search, search.fetched)
    /\ Done => search.answer = Answer(search) /\ search.unread = {}

\* What was read of the rows holds of those that nobody touched.
Shown ==
    /\ \A r \in search.fetched \ touched : /\ Visible(rows[r], r, search.caller)
                                           /\ <<r, FALSE>> \notin search.opened
    /\ \A p \in search.peers : p[2] \notin touched =>
           /\ rows[p[2]].status # "buffered"
           /\ Profile[p[2]].library \in Readable[search.caller]

Warned ==
    search.pc \in {"lineage", "done"} =>
        \A r \in search.hits : \A t \in Profile[r].cites \ touched :
            rows[t].status # "active" => <<r, t>> \in search.warned \cup search.unread

\* So does what was read of the supersessions and of the votes.
Judged ==
    /\ search.pc \in {"votes"} \cup Answering =>
           \A r \in DOMAIN search.rel :
               Settled(r) => (r \in search.sunk <=> SupersededNow(r))
    /\ search.pc \in Answering =>
           \A r \in DOMAIN search.rel \ touched : search.tally[r] = Tally(r)

\* The search tables follow what nobody touches, where they did when the search began.
Current ==
    search.pc # "idle" =>
        \A r \in Records \ (lagged \cup touched) :
            index[r] = rows[r] /\ (mode # "lexical" => vectors[r] = rows[r])

\* A record that a search must not lose.
Sought(r) ==
    /\ r \in Records \ (lagged \cup touched)
    /\ Visible(rows[r], r, search.caller)
    /\ OwnRelevance(r) >= RelMin

OwnScore(r) == IF mode = "lexical" THEN Scores[rows[r].text].lexical
               ELSE Scores[rows[r].text].similarity

\* Each step hands it to the next.  A search with vectors falls back on words only when
\* there is no such record.
Kept ==
    /\ search.pc \in {"fulltext", "ann", "list", "scan"} => mode # "lexical"
    /\ \A r \in Records \ search.missed : Sought(r) =>
           /\ search.pc \in {"candidates", "lexical"} => mode = "lexical"
           /\ search.pc \in {"lexical", "scan"} => r \in search.pool
           /\ search.pc \in Judging \cup Answering => r \in DOMAIN search.rel
           /\ search.pc = "boost" => search.rel[r] >= OwnScore(r)
           /\ search.pc \in {"attach", "lineage", "done"} => r \in search.fetched

Types     == TablesOK /\ ServerOK /\ search \in Search
SearchInv == Types /\ Unfilled /\ Ranked /\ Shown /\ Warned /\ Judged /\ Current /\ Kept

-----------------------------------------------------------------------------
(* What a search keeps while others work, and from step to step.           *)

\* The ranking looks at the scores, the votes and the supersessions that were read.
LEMMA SameRanking ==
    ASSUME NEW s, NEW t, s.rel = t.rel, s.tally = t.tally, s.sunk = t.sunk
    PROVE  /\ \A r : IsWrong(s, r) = IsWrong(t, r)
           /\ \A a, b : Ahead(s, a, b) = Ahead(t, a, b)
           /\ \A S, n : First(s, S, n) = First(t, S, n)
<1>1. \A r : IsWrong(s, r) = IsWrong(t, r) /\ FinalScore(s, r) = FinalScore(t, r)
    BY DEF IsWrong, FinalScore
<1>2. \A a, b : Ahead(s, a, b) = Ahead(t, a, b)
    BY <1>1 DEF Ahead
<1>3. \A S, n : First(s, S, n) = First(t, S, n)
    BY <1>2 DEF First
<1> QED
    BY <1>1, <1>2, <1>3

LEMMA SameAnswer ==
    ASSUME NEW s, NEW t, s.rel = t.rel, s.tally = t.tally, s.sunk = t.sunk, s.hits = t.hits
    PROVE  Answer(s) = Answer(t)
<1> DEFINE Heads(x) == UNION {First(x, InCase(x.hits, Profile[r].case), 1) : r \in x.hits}
           Cases(x) == First(x, {r \in Heads(x) : Profile[r].case # NoCase}, MaxCases)
           Some(x)  == {Profile[r].case : r \in Cases(x)} \cup {NoCase}
<1>1. \A S, n : First(s, S, n) = First(t, S, n)
    BY SameRanking
<1>2. Heads(s) = Heads(t)
    BY <1>1
<1>3. Cases(s) = Cases(t)
    BY <1>1, <1>2
<1>4. Some(s) = Some(t)
    BY <1>3
<1>5. \A x : Answer(x) = UNION {First(x, InCase(x.hits, k), PerCase) : k \in Some(x)}
    BY DEF Answer
<1> HIDE DEF Some
<1> QED
    BY <1>1, <1>4, <1>5

LEMMA UntouchedRanking ==
    ASSUME search' = search, hide' = hide
    PROVE  (Unfilled => Unfilled') /\ (Ranked => Ranked')
<1>1. Unfilled => Unfilled'
    BY DEF Unfilled
<1>2. Hits(search, search.fetched)' = Hits(search, search.fetched)
    BY DEF Hits, First, Ahead, FinalScore, IsWrong
<1>3. Answer(search)' = Answer(search)
    BY DEF Answer, First, Ahead, FinalScore, IsWrong, InCase
<1> QED
    BY <1>1, <1>2, <1>3 DEF Ranked, Done

\* Nothing makes no hits, and no hits no answer.
LEMMA NothingIsAnswered ==
    /\ \A s : Hits(s, {}) = {}
    /\ \A s : s.hits = {} => Answer(s) = {}
<1>1. \A s, n : First(s, {}, n) = {}
    BY DEF First
<1>2. ASSUME NEW s PROVE Hits(s, {}) = {}
    BY <1>1 DEF Hits
<1>3. ASSUME NEW s, s.hits = {} PROVE Answer(s) = {}
    <2>1. \A k : InCase(s.hits, k) = {}
        BY <1>3 DEF InCase
    <2> QED
        BY <1>1, <1>3, <2>1 DEF Answer
<1> QED
    BY <1>2, <1>3

\* The others change nothing that the search has read of a record they do not touch.
LEMMA OthersKeep ==
    ASSUME SearchInv, Types', UNCHANGED <<server, search, lagged>>, links \subseteq links',
           search.pc # "idle" =>
               /\ touched \subseteq touched'
               /\ \A r \in Records \ touched' :
                      /\ rows'[r] = rows[r] /\ ballots'[r] = ballots[r]
                      /\ index'[r] = index[r] \/ index'[r] = rows[r]
                      /\ vectors'[r] = vectors[r] \/ vectors'[r] = rows[r]
                      /\ \A s \in Records : <<s, r>> \in links' => <<s, r>> \in links
    PROVE  SearchInv'
<1>1. CASE search.pc = "idle"
    <2>1. search' = search /\ search.fetched = {} /\ search.peers = {} /\ hide' = hide
        BY <1>1 DEF SearchInv, Unfilled, Seeking, server
    <2>2. Unfilled' /\ Ranked'
        BY <2>1, UntouchedRanking DEF SearchInv
    <2>3. Shown' /\ Warned' /\ Judged' /\ Current' /\ Kept'
        BY <1>1, <2>1 DEF Shown, Warned, Judged, Current, Kept, Judging, Answering
    <2> QED
        BY <2>2, <2>3 DEF SearchInv
<1>2. CASE search.pc # "idle"
    <2>1. /\ search' = search /\ hide' = hide /\ mode' = mode /\ lagged' = lagged
          /\ touched \subseteq touched'
          /\ search \in Search
        BY <1>2 DEF SearchInv, Types, server
    <2>2. \A r \in Records \ touched' :
              /\ r \notin touched /\ rows'[r] = rows[r] /\ Tally(r)' = Tally(r)
              /\ index'[r] = index[r] \/ index'[r] = rows[r]
              /\ vectors'[r] = vectors[r] \/ vectors'[r] = rows[r]
              /\ \A s \in Records : <<s, r>> \in links' <=> <<s, r>> \in links
        BY <1>2, <2>1 DEF Tally
    <2>3. ASSUME NEW r \in Records, Settled(r)'
          PROVE  Settled(r) /\ (SupersededNow(r)' <=> SupersededNow(r))
        <3>1. /\ r \in Records \ touched'
              /\ \A s \in Records : <<s, r>> \in links' => s \in Records \ touched'
            BY <2>3 DEF Settled, Untouched
        <3>2. \A s \in Records : <<s, r>> \in links' <=> <<s, r>> \in links
            BY <2>2, <3>1
        <3>3. Settled(r)
            BY <2>1, <3>1, <3>2 DEF Settled, Untouched
        <3>4. SupersededNow(r)' <=> SupersededNow(r)
            BY <2>1, <2>2, <3>1, <3>2 DEF SupersededNow
        <3> QED
            BY <3>3, <3>4
    <2>4. search.fetched \subseteq Records /\ DOMAIN search.rel \subseteq Records
          /\ search.peers \subseteq Records \X Records
        BY <2>1, PartialIs DEF Search
    <2>5. Unfilled' /\ Ranked'
        BY <2>1, UntouchedRanking DEF SearchInv
    <2>6. Shown'
        <3>1. \A r \in search.fetched \ touched' :
                  Visible(rows[r], r, search.caller)' /\ <<r, FALSE>> \notin search.opened
            BY <2>1, <2>2, <2>4 DEF SearchInv, Shown, Visible
        <3>2. \A p \in search.peers : p[2] \notin touched' =>
                  /\ rows'[p[2]].status # "buffered"
                  /\ Profile[p[2]].library \in Readable[search.caller]
            <4> SUFFICES ASSUME NEW p \in search.peers, p[2] \notin touched'
                         PROVE  /\ rows'[p[2]].status # "buffered"
                                /\ Profile[p[2]].library \in Readable[search.caller]
                OBVIOUS
            <4>1. p[2] \in Records
                BY <2>4
            <4> QED
                BY <2>2, <4>1 DEF SearchInv, Shown
        <3> QED
            BY <2>1, <3>1, <3>2 DEF Shown
    <2>7. Warned'
        <3>1. \A r \in Records : Profile[r].cites \subseteq Records
            BY SearchAssumption
        <3>2. search.hits \subseteq Records
            BY <2>1 DEF Search
        <3> QED
            BY <2>1, <2>2, <3>1, <3>2 DEF SearchInv, Warned
    <2>8. Judged'
        BY <2>1, <2>2, <2>3, <2>4 DEF SearchInv, Judged
    <2>9. Current'
        BY <1>2, <2>1, <2>2 DEF SearchInv, Current
    <2>10. \A r \in Records : Sought(r)' => Sought(r) /\ OwnScore(r)' = OwnScore(r)
        BY <2>1, <2>2 DEF Sought, Visible, OwnRelevance, OwnScore
    <2>11. Kept'
        BY <2>1, <2>10 DEF SearchInv, Kept
    <2> QED
        BY <2>5, <2>6, <2>7, <2>8, <2>9, <2>11 DEF SearchInv
<1> QED
    BY <1>1, <1>2

\* A step of the search changes nothing but the search.
Steady == /\ UNCHANGED <<tables, server, writer, voter, touched, lagged>>
          /\ left' \in [changes : Nat, faults : Nat]

LEMMA QuietIsSteady == Types /\ Quiet => Steady
BY DEF Types, TablesOK, Quiet, Steady

LEMMA FaultIsSteady ==
    ASSUME Types, Fault, UNCHANGED <<tables, server, writer, voter, touched, lagged>>
    PROVE  Steady
<1>1. left \in [changes : Nat, faults : Nat] /\ left.faults > 0
    BY DEF Types, TablesOK, Fault
<1>2. left' = [left EXCEPT !.faults = @ - 1]
    BY DEF Fault
<1>3. left' \in [changes : Nat, faults : Nat]
    BY <1>1, <1>2
<1> QED
    BY <1>3 DEF Steady

LEMMA SteadyTypes ==
    ASSUME Types, Steady, search' \in Search
    PROVE  Types'
BY DEF Types, TablesOK, ServerOK, WriterOK, VoterOK, Steady, tables, server

\* What is true of the records is true of them afterwards.
LEMMA SteadyRecords ==
    ASSUME Steady, NEW t, search' = t, t.caller = search.caller
    PROVE  /\ hide' = hide /\ mode' = mode /\ touched' = touched /\ lagged' = lagged
           /\ rows' = rows /\ index' = index /\ vectors' = vectors
           /\ \A r : /\ Settled(r)' <=> Settled(r)
                     /\ SupersededNow(r)' <=> SupersededNow(r)
                     /\ Tally(r)' = Tally(r)
                     /\ Sought(r)' <=> Sought(r)
                     /\ OwnScore(r)' = OwnScore(r)
<1>1. /\ hide' = hide /\ mode' = mode /\ touched' = touched /\ lagged' = lagged
      /\ rows' = rows /\ index' = index /\ vectors' = vectors /\ links' = links
      /\ ballots' = ballots /\ search'.caller = search.caller
    BY DEF Steady, tables, server
<1>2. ASSUME NEW r
      PROVE  /\ Settled(r)' <=> Settled(r)
             /\ SupersededNow(r)' <=> SupersededNow(r)
             /\ Tally(r)' = Tally(r)
    BY <1>1 DEF Settled, Untouched, SupersededNow, Tally
<1>3. ASSUME NEW r
      PROVE  /\ Sought(r)' <=> Sought(r)
             /\ OwnScore(r)' = OwnScore(r)
    BY <1>1 DEF Sought, Visible, OwnRelevance, OwnScore
<1> QED
    BY <1>1, <1>2, <1>3

-----------------------------------------------------------------------------
(* The steps that look for records.                                        *)

\* Two searches that have found the same, one of which may be a step further.
Alike(s, t) ==
    /\ s.caller = t.caller /\ s.rel = t.rel /\ s.sunk = t.sunk /\ s.tally = t.tally
    /\ s.fetched = t.fetched /\ s.hits = t.hits /\ s.unread = t.unread
    /\ s.warned = t.warned /\ s.peers = t.peers /\ s.answer = t.answer
    /\ s.opened = t.opened

Hunting == Seeking \ {"idle"}

\* While it looks for records a search has nothing to show yet.
LEMMA NothingYet ==
    ASSUME SearchInv, search.pc \in Seeking \cup Judging
    PROVE  /\ search.tally = Empty /\ search.fetched = {} /\ search.hits = {}
           /\ search.unread = {} /\ search.warned = {} /\ search.peers = {}
           /\ search.answer = {} /\ search.opened = {}
           /\ search.pc \in Seeking => search.rel = Empty
BY DEF SearchInv, Unfilled, Seeking, Judging

LEMMA LooksOn ==
    ASSUME SearchInv, Steady, search.pc \in Hunting,
           NEW t \in Search, search' = t, Alike(t, search), t.pc \in Hunting,
           t.pc \in {"fulltext", "ann", "list", "scan"} => mode # "lexical",
           \A r \in Records \ t.missed : Sought(r) =>
               /\ t.pc \in {"candidates", "lexical"} => mode = "lexical"
               /\ t.pc \in {"lexical", "scan"} => r \in t.pool
    PROVE  SearchInv'
<1>1. /\ t.rel = Empty /\ t.tally = Empty /\ t.fetched = {} /\ t.hits = {} /\ t.unread = {}
      /\ t.warned = {} /\ t.peers = {} /\ t.answer = {} /\ t.opened = {}
      /\ t.caller = search.caller
    BY NothingYet DEF Alike, Hunting
<1>2. t.pc \in Seeking /\ t.pc # "idle" /\ t.pc \notin Judging \cup Answering
    BY DEF Hunting, Seeking, Judging, Answering
<1>3. Types'
    BY SteadyTypes DEF SearchInv
<1>4. Unfilled'
    BY <1>1, <1>2 DEF Unfilled, Answering, Seeking
<1>5. Ranked'
    <2>1. Hits(search, search.fetched)' = {}
        BY <1>1 DEF Hits, First
    <2> QED
        BY <1>1, <1>2, <2>1 DEF Ranked, Done, Answering
<1>6. Shown' /\ Warned' /\ Judged'
    BY <1>1, <1>2 DEF Shown, Warned, Judged, Answering, Seeking
<1>7. Current'
    BY <1>1, SteadyRecords DEF SearchInv, Current, Hunting
<1>8. Kept'
    BY <1>1, <1>2, SteadyRecords DEF Kept, Answering, Seeking, Judging
<1> QED
    BY <1>3, <1>4, <1>5, <1>6, <1>7, <1>8 DEF SearchInv

\* The search has its scores.
LEMMA ScoredIs ==
    ASSUME NEW s \in Search, Alike(s, search), NEW rel \in Partial(0..One)
    PROVE  \E t \in Search :
               /\ t = Scored(s, rel) /\ t.caller = search.caller /\ t.sunk = search.sunk
               /\ t.tally = search.tally /\ t.fetched = search.fetched /\ t.hits = search.hits
               /\ t.unread = search.unread /\ t.warned = search.warned
               /\ t.peers = search.peers /\ t.answer = search.answer
               /\ t.opened = search.opened /\ t.missed = s.missed
               /\ rel = Empty => t.pc = "done" /\ t.rel = search.rel
               /\ rel # Empty => t.pc = "boost" /\ t.rel = rel
<1>1. Empty \in Partial(Nat) /\ {} \in SUBSET Records
    BY EmptyIsPartial
<1>2. CASE rel = Empty
    <2>1. Scored(s, rel) = [s EXCEPT !.pc = "done", !.pool = {}, !.fts = Empty]
        BY <1>2 DEF Scored
    <2>2. [s EXCEPT !.pc = "done", !.pool = {}, !.fts = Empty] \in Search
        BY <1>1 DEF Search, Answering
    <2> QED
        BY <1>2, <2>1, <2>2 DEF Search, Alike
<1>3. CASE rel # Empty
    <2>1. Scored(s, rel) = [s EXCEPT !.pc = "boost", !.rel = rel, !.pool = {}, !.fts = Empty]
        BY <1>3 DEF Scored
    <2>2. [s EXCEPT !.pc = "boost", !.rel = rel, !.pool = {}, !.fts = Empty] \in Search
        BY <1>1 DEF Search, Judging
    <2> QED
        BY <1>3, <2>1, <2>2 DEF Search, Alike
<1> QED
    BY <1>2, <1>3

LEMMA IsScored ==
    ASSUME SearchInv, Steady, search.pc \in Hunting,
           NEW s \in Search, Alike(s, search), NEW rel \in Partial(0..One),
           search' = Scored(s, rel),
           \A r \in Records \ s.missed : Sought(r) =>
               r \in DOMAIN rel /\ rel[r] >= OwnScore(r)
    PROVE  SearchInv'
<1>1. PICK t \in Search :
          /\ search' = t /\ t.caller = search.caller /\ t.tally = search.tally
          /\ t.fetched = search.fetched /\ t.hits = search.hits
          /\ t.unread = search.unread /\ t.warned = search.warned
          /\ t.peers = search.peers /\ t.answer = search.answer
          /\ t.opened = search.opened /\ t.missed = s.missed
          /\ rel = Empty => t.pc = "done" /\ t.rel = search.rel
          /\ rel # Empty => t.pc = "boost" /\ t.rel = rel
    BY ScoredIs
<1>2. /\ t.tally = Empty /\ t.fetched = {} /\ t.hits = {} /\ t.unread = {}
      /\ t.warned = {} /\ t.peers = {} /\ t.answer = {} /\ t.opened = {}
      /\ t.rel = rel /\ t.pc \in {"boost", "done"} /\ (t.pc = "done" => rel = Empty)
    BY <1>1, NothingYet DEF Hunting
<1>3. Types'
    BY <1>1, SteadyTypes DEF SearchInv
<1>4. Unfilled'
    BY <1>1, <1>2 DEF Unfilled, Judging, Seeking
<1>5. Ranked'
    <2>1. Hits(search, search.fetched)' = {}
        BY <1>1, <1>2 DEF Hits, First
    <2>2. Answer(search)' = {}
        <3>1. Answer(t) = {}
            BY <1>2, NothingIsAnswered
        <3> QED
            BY <1>1, <3>1
    <2> QED
        BY <1>1, <1>2, <2>1, <2>2 DEF Ranked, Done, Answering
<1>6. Shown' /\ Warned' /\ Judged'
    BY <1>1, <1>2, EmptyIsPartial DEF Shown, Warned, Judged, Answering
<1>7. Current'
    BY <1>1, SteadyRecords DEF SearchInv, Current, Hunting
<1>8. Kept'
    <2>1. \A r : (Sought(r)' <=> Sought(r)) /\ OwnScore(r)' = OwnScore(r)
        BY <1>1, SteadyRecords
    <2>2. DOMAIN Empty = {}
        BY EmptyIsPartial
    <2> QED
        BY <1>1, <1>2, <2>1, <2>2 DEF Kept
<1> QED
    BY <1>3, <1>4, <1>5, <1>6, <1>7, <1>8 DEF SearchInv

\* What is sought is worth something.
LEMMA SoughtIsWorth ==
    ASSUME SearchInv, NEW r \in Records, Sought(r)
    PROVE  /\ OwnScore(r) \in 0..One /\ OwnScore(r) # 0
           /\ rows[r] \in Row /\ rows[r].status # "gone"
           /\ OwnRelevance(r) = Boosted(OwnScore(r), Factor(rows[r].text))
<1>1. rows[r] \in Row /\ rows[r].text \in Texts
    BY DEF SearchInv, Types, TablesOK, Row
<1>2. OwnScore(r) \in 0..One
    BY <1>1, SearchAssumption DEF OwnScore
<1>3. OwnRelevance(r) = Boosted(OwnScore(r), Factor(rows[r].text))
    BY DEF OwnRelevance, OwnScore
<1>4. OwnScore(r) # 0
    <2>1. Boosted(0, Factor(rows[r].text)) = 0
        BY FactorIsNumber, BoostKeepsOrder
    <2> QED
        BY <1>3, <2>1, Settings DEF Sought
<1> QED
    BY <1>1, <1>2, <1>3, <1>4 DEF Sought, Visible

LEMMA JoinsVectors ==
    ASSUME SearchInv, Steady, search.pc \in {"ann", "list", "scan"},
           NEW s \in Search, Alike(s, search), s.fts = search.fts,
           NEW vec \in Partial(0..One), search' = WithVectors(s, vec),
           \A r \in Records \ s.missed : Sought(r) =>
               r \in DOMAIN vec /\ vec[r] = Scores[rows[r].text].similarity
    PROVE  SearchInv'
<1>1. search.pc \in Hunting /\ mode \in {"hybrid", "vector"}
    BY DEF Hunting, Seeking, SearchInv, Kept, Types, ServerOK, Modes
<1>2. \A r \in Records : Sought(r) =>
          /\ OwnScore(r) = Scores[rows[r].text].similarity /\ OwnScore(r) # 0
          /\ OwnScore(r) >= OwnScore(r)
    BY <1>1, OneIsNumber, SoughtIsWorth DEF OwnScore
<1>3. CASE mode = "hybrid"
    <2> DEFINE rel == Fused(s.fts, vec)
    <2>1. /\ rel \in Partial(0..One) /\ DOMAIN vec \subseteq DOMAIN rel
          /\ \A r \in DOMAIN vec : vec[r] # 0 => rel[r] >= vec[r]
        BY FusedIsPartial DEF Search
    <2>2. search' = Scored(s, rel)
        BY <1>3 DEF WithVectors
    <2> HIDE DEF rel
    <2>3. \A r \in Records \ s.missed : Sought(r) =>
              r \in DOMAIN rel /\ rel[r] >= OwnScore(r)
        BY <1>2, <2>1
    <2> QED
        BY <1>1, <2>1, <2>2, <2>3, IsScored
<1>4. CASE mode = "vector" /\ vec # Empty
    <2>1. search' = Scored(s, vec)
        BY <1>4 DEF WithVectors
    <2>2. \A r \in Records \ s.missed : Sought(r) =>
              r \in DOMAIN vec /\ vec[r] >= OwnScore(r)
        BY <1>2
    <2> QED
        BY <1>1, <2>1, <2>2, IsScored
<1>5. CASE mode = "vector" /\ vec = Empty
    <2>1. search' = [s EXCEPT !.pc = "candidates", !.pool = {}]
        BY <1>5 DEF WithVectors
    <2>2. PICK t \in Search : /\ search' = t /\ t.pc = "candidates" /\ Alike(t, s)
                              /\ t.missed = s.missed
        BY <2>1 DEF Search, Seeking, Alike
    <2>3. Alike(t, search) /\ t.pc \in Hunting
        BY <2>2 DEF Alike, Hunting, Seeking
    <2>4. \A r \in Records \ t.missed : ~Sought(r)
        BY <1>5, <2>2, EmptyIsPartial
    <2> QED
        BY <1>1, <2>2, <2>3, <2>4, LooksOn
<1> QED
    BY <1>1, <1>3, <1>4, <1>5

\* What a query that is cut may return.
LEMMA CutIsPart ==
    ASSUME NEW S, NEW n, NEW P \in Cuts(S, n)
    PROVE  P \subseteq S
BY DEF Cuts

LEMMA TopCutIsPart ==
    ASSUME NEW f, NEW n, NEW P \in TopCuts(f, n)
    PROVE  P \subseteq DOMAIN f
BY DEF TopCuts, Cuts

LEMMA KeepIs ==
    ASSUME NEW T, NEW S, S \subseteq Records, NEW f \in [S -> T], NEW P, P \subseteq S
    PROVE  /\ Keep(f, P) \in Partial(T) /\ DOMAIN Keep(f, P) = P
           /\ \A r \in P : Keep(f, P)[r] = f[r]
<1>1. Keep(f, P) \in [P -> T]
    BY DEF Keep
<1> QED
    BY <1>1, PartialFunction DEF Keep

\* What is sought is in the search tables as it is in the record.
LEMMA SoughtIsIndexed ==
    ASSUME SearchInv, search.pc # "idle", NEW r \in Records, Sought(r)
    PROVE  /\ index[r] = rows[r] /\ (mode # "lexical" => vectors[r] = rows[r])
           /\ Visible(rows[r], r, search.caller)
           /\ mode = "lexical" => Scores[rows[r].text].lexical > 0
           /\ mode # "lexical" => Scores[rows[r].text].similarity > 0
           /\ rows[r].status # "gone"
<1>1. OwnScore(r) \in 0..One /\ OwnScore(r) # 0 /\ rows[r].status # "gone"
    BY SoughtIsWorth
<1>2. OwnScore(r) > 0
    BY <1>1, OneIsNumber
<1> QED
    BY <1>1, <1>2 DEF SearchInv, Current, Sought, OwnScore

LEMMA FindCandidatesKeeps ==
    ASSUME SearchInv, FindCandidates
    PROVE  SearchInv'
<1> DEFINE found == {r \in Records : /\ Indexed(r)
                                     /\ Visible(index[r], r, search.caller)
                                     /\ Scores[index[r].text].lexical > 0}
<1>1. search.pc = "candidates" /\ Steady /\ search \in Search
    BY QuietIsSteady DEF FindCandidates, SearchInv, Types
<1>2. PICK P \in Cuts(found, PoolLimit) :
          search' = [search EXCEPT !.pc = "lexical", !.pool = P,
                                   !.missed = @ \cup (found \ P)]
    BY DEF FindCandidates
<1>3. P \subseteq found /\ found \subseteq Records
    BY CutIsPart
<1> HIDE DEF found
<1>4. PICK t \in Search : /\ search' = t /\ t.pc = "lexical" /\ t.pool = P /\ Alike(t, search)
                          /\ t.missed = search.missed \cup (found \ P)
    <2>1. PICK q \in SUBSET Records : q = search.missed \cup (found \ P)
        BY <1>1, <1>3 DEF Search
    <2>2. search' = [search EXCEPT !.pc = "lexical", !.pool = P, !.missed = q]
        BY <1>2, <2>1
    <2>3. P \in SUBSET Records /\ "lexical" \in Seeking
        BY <1>3 DEF Seeking
    <2>4. search' \in Search
        BY <1>1, <2>2, <2>3 DEF Search
    <2> QED
        BY <1>1, <2>1, <2>2, <2>4 DEF Search, Alike
<1>5. ASSUME NEW r \in Records \ t.missed, Sought(r)
      PROVE  mode = "lexical" /\ r \in P
    <2>1. mode = "lexical"
        BY <1>1, <1>4, <1>5 DEF SearchInv, Kept
    <2>2. r \in found
        BY <1>1, <2>1, <1>5, SoughtIsIndexed DEF Indexed, found
    <2> QED
        BY <1>4, <1>5, <2>1, <2>2
<1>6. search.pc \in Hunting /\ t.pc \in Hunting
    BY <1>1, <1>4 DEF Hunting, Seeking
<1> QED
    BY <1>1, <1>4, <1>5, <1>6, LooksOn

LEMMA ScoreCandidatesKeeps ==
    ASSUME SearchInv, ScoreCandidates
    PROVE  SearchInv'
<1> DEFINE found == {r \in Fetched(search.pool, search.caller) : Scores[rows[r].text].lexical > 0}
           rel   == [r \in found |-> Scores[rows[r].text].lexical]
<1>1. search.pc = "lexical" /\ Steady /\ search \in Search /\ rows \in [Records -> Row]
    BY QuietIsSteady DEF ScoreCandidates, SearchInv, Types, TablesOK
<1>2. search' = Scored(search, rel)
    BY DEF ScoreCandidates
<1>3. found \subseteq Records
    BY <1>1 DEF Fetched, Search
<1>4. rel \in [found -> 0..One]
    BY <1>1, <1>3, SearchAssumption DEF Row
<1>5. rel \in Partial(0..One)
    BY <1>3, <1>4, PartialFunction
<1>6. ASSUME NEW r \in Records \ search.missed, Sought(r)
      PROVE  r \in DOMAIN rel /\ rel[r] >= OwnScore(r)
    <2>1. mode = "lexical" /\ r \in search.pool
        BY <1>1, <1>6 DEF SearchInv, Kept
    <2>2. r \in found
        BY <1>1, <1>6, <2>1, SoughtIsIndexed DEF Fetched
    <2>3. rel[r] = OwnScore(r)
        BY <2>1, <2>2 DEF OwnScore
    <2>4. rel[r] \in Int
        BY <1>4, <2>2, OneIsNumber
    <2>5. r \in DOMAIN rel
        BY <2>2
    <2> HIDE DEF rel
    <2> QED
        BY <2>3, <2>4, <2>5
<1>7. search.pc \in Hunting /\ Alike(search, search)
    BY <1>1 DEF Hunting, Seeking, Alike
<1> HIDE DEF rel
<1> QED
    BY <1>1, <1>2, <1>5, <1>6, <1>7, IsScored

\* The search notes what a query did not give it.
Noting(P, found) == [search EXCEPT !.missed = @ \cup (found \ P)]

LEMMA NotesCut ==
    ASSUME SearchInv, NEW P, NEW found, found \subseteq Records
    PROVE  /\ Noting(P, found) \in Search /\ Alike(Noting(P, found), search)
           /\ Noting(P, found).fts = search.fts
           /\ Noting(P, found).missed = search.missed \cup (found \ P)
<1>1. search \in Search
    BY DEF SearchInv, Types
<1>2. PICK q \in SUBSET Records : q = search.missed \cup (found \ P)
    BY <1>1 DEF Search
<1>3. Noting(P, found) = [search EXCEPT !.missed = q]
    BY <1>2 DEF Noting
<1>4. [search EXCEPT !.missed = q] \in Search
    BY <1>1 DEF Search
<1>5. Alike([search EXCEPT !.missed = q], search)
    BY <1>1 DEF Search, Alike
<1> QED
    BY <1>1, <1>2, <1>3, <1>4, <1>5 DEF Search

LEMMA ReadFulltextKeeps ==
    ASSUME SearchInv, ReadFulltext
    PROVE  SearchInv'
<1> DEFINE found == {r \in Records : /\ Indexed(r)
                                     /\ Visible(index[r], r, search.caller)
                                     /\ Scores[index[r].text].fulltext > 0}
           f     == [r \in found |-> Scores[index[r].text].fulltext]
<1>1. search.pc = "fulltext" /\ Steady /\ search \in Search /\ index \in [Records -> Row]
    BY QuietIsSteady DEF ReadFulltext, SearchInv, Types, TablesOK
<1>2. PICK P \in TopCuts(f, PoolLimit) :
          search' = [search EXCEPT !.pc = "ann", !.fts = Keep(f, P)]
    BY DEF ReadFulltext
<1>3. f \in [found -> Nat] /\ found \subseteq Records
    BY <1>1, SearchAssumption DEF Row
<1>4. Keep(f, P) \in Partial(Nat)
    BY <1>2, <1>3, TopCutIsPart, KeepIs
<1> HIDE DEF found, f
<1>5. PICK t \in Search : search' = t /\ t.pc = "ann" /\ Alike(t, search)
    <2>1. search' \in Search
        BY <1>1, <1>2, <1>4 DEF Search, Seeking
    <2> QED
        BY <1>1, <1>2, <2>1 DEF Search, Alike
<1>6. search.pc \in Hunting /\ t.pc \in Hunting /\ mode # "lexical"
    BY <1>1, <1>5 DEF Hunting, Seeking, SearchInv, Kept
<1> QED
    BY <1>1, <1>5, <1>6, LooksOn

LEMMA FaultsKeep ==
    ASSUME SearchInv, FulltextFails \/ NeighboursFail \/ EmbedderFails
    PROVE  SearchInv'
<1>1. search \in Search /\ Steady
    BY FaultIsSteady DEF FulltextFails, NeighboursFail, EmbedderFails, SearchInv, Types
<1>2. CASE FulltextFails
    <2>1. PICK t \in Search : search' = t /\ t.pc = "ann" /\ Alike(t, search)
        <3>1. search' = [search EXCEPT !.pc = "ann"]
            BY <1>2 DEF FulltextFails
        <3>2. search' \in Search
            BY <1>1, <3>1 DEF Search, Seeking
        <3> QED
            BY <1>1, <3>1, <3>2 DEF Search, Alike
    <2>2. search.pc \in Hunting /\ t.pc \in Hunting /\ mode # "lexical"
        BY <1>2, <2>1 DEF FulltextFails, Hunting, Seeking, SearchInv, Kept
    <2> QED
        BY <1>1, <2>1, <2>2, LooksOn
<1>3. CASE NeighboursFail
    <2>1. PICK t \in Search : search' = t /\ t.pc = "list" /\ Alike(t, search)
        <3>1. search' = [search EXCEPT !.pc = "list"]
            BY <1>3 DEF NeighboursFail
        <3>2. search' \in Search
            BY <1>1, <3>1 DEF Search, Seeking
        <3> QED
            BY <1>1, <3>1, <3>2 DEF Search, Alike
    <2>2. search.pc \in Hunting /\ t.pc \in Hunting /\ mode # "lexical"
        BY <1>3, <2>1 DEF NeighboursFail, Hunting, Seeking, SearchInv, Kept
    <2> QED
        BY <1>1, <2>1, <2>2, LooksOn
<1>4. CASE EmbedderFails
    <2>1. PICK s \in Search : /\ s = [search EXCEPT !.missed = Records] /\ Alike(s, search)
                              /\ s.fts = search.fts /\ s.missed = Records
        <3>1. [search EXCEPT !.missed = Records] \in Search
            BY <1>1 DEF Search
        <3> QED
            BY <1>1, <3>1 DEF Search, Alike
    <2>2. search' = WithVectors(s, Empty) /\ search.pc \in {"ann", "list", "scan"}
        BY <1>4, <2>1 DEF EmbedderFails
    <2> QED
        BY <1>1, <2>1, <2>2, EmptyIsPartial, JoinsVectors
<1> QED
    BY <1>2, <1>3, <1>4

LEMMA ReadNeighboursKeeps ==
    ASSUME SearchInv, ReadNeighbours
    PROVE  SearchInv'
<1> DEFINE near == {r \in Records : /\ Embedded(r)
                                    /\ Visible(vectors[r], r, search.caller)
                                    /\ Scores[vectors[r].text].similarity > 0}
<1>1. search.pc = "ann" /\ Steady /\ vectors \in [Records -> Row]
    BY QuietIsSteady DEF ReadNeighbours, SearchInv, Types, TablesOK
<1>2. PICK P \in SUBSET near :
          search' = WithVectors([search EXCEPT !.missed = @ \cup (near \ P)],
                                [r \in P |-> Scores[vectors[r].text].similarity])
    BY DEF ReadNeighbours
<1> DEFINE f == [r \in P |-> Scores[vectors[r].text].similarity]
<1>3. P \subseteq Records /\ near \subseteq Records
    OBVIOUS
<1>4. f \in [P -> 0..One]
    BY <1>1, <1>3, SearchAssumption DEF Row
<1>5. f \in Partial(0..One)
    BY <1>3, <1>4, PartialFunction
<1> HIDE DEF near
<1>6. PICK s \in Search :
          /\ s = [search EXCEPT !.missed = @ \cup (near \ P)]
          /\ Alike(s, search) /\ s.fts = search.fts
          /\ s.missed = search.missed \cup (near \ P)
    <2>1. [search EXCEPT !.missed = @ \cup (near \ P)] = Noting(P, near)
        BY DEF Noting
    <2> QED
        BY <1>3, <2>1, NotesCut
<1>7. ASSUME NEW r \in Records \ s.missed, Sought(r)
      PROVE  /\ r \in DOMAIN f
             /\ f[r] = Scores[rows[r].text].similarity
    <2>1. mode # "lexical"
        BY <1>1 DEF SearchInv, Kept
    <2>2. r \in near /\ vectors[r] = rows[r]
        BY <1>1, <1>7, <2>1, SoughtIsIndexed DEF Embedded, near
    <2>3. r \in P
        BY <1>6, <1>7, <2>2
    <2> QED
        BY <2>2, <2>3
<1>8. search' = WithVectors(s, f)
    BY <1>2, <1>6
<1> HIDE DEF f
<1> QED
    BY <1>1, <1>5, <1>6, <1>7, <1>8, JoinsVectors

LEMMA ListNewestKeeps ==
    ASSUME SearchInv, ListNewest
    PROVE  SearchInv'
<1> DEFINE found == {r \in Records : Visible(rows[r], r, search.caller)}
           f     == [r \in found |-> Profile[r].created]
<1>1. search.pc = "list" /\ Steady /\ search \in Search
    BY QuietIsSteady DEF ListNewest, SearchInv, Types
<1>2. PICK P \in TopCuts(f, ScanLimit) :
          search' = LET s == [search EXCEPT !.missed = @ \cup (found \ P)]
                    IN  IF P = {} THEN WithVectors(s, Empty)
                        ELSE [s EXCEPT !.pc = "scan", !.pool = P]
    BY DEF ListNewest
<1>3. P \subseteq Records /\ found \subseteq Records
    BY <1>2, TopCutIsPart
<1> HIDE DEF found, f
<1>4. PICK s \in Search :
          /\ s = [search EXCEPT !.missed = @ \cup (found \ P)]
          /\ Alike(s, search) /\ s.fts = search.fts
          /\ s.missed = search.missed \cup (found \ P)
    <2>1. [search EXCEPT !.missed = @ \cup (found \ P)] = Noting(P, found)
        BY DEF Noting
    <2> QED
        BY <1>3, <2>1, NotesCut
<1>5. search' = IF P = {} THEN WithVectors(s, Empty) ELSE [s EXCEPT !.pc = "scan", !.pool = P]
    BY <1>2, <1>4
<1>6. ASSUME NEW r \in Records \ s.missed, Sought(r)
      PROVE  r \in P
    <2>1. r \in found
        BY <1>6 DEF Sought, found
    <2> QED
        BY <1>4, <1>6, <2>1
<1>7. CASE P = {}
    BY <1>1, <1>4, <1>5, <1>6, <1>7, EmptyIsPartial, JoinsVectors
<1>8. CASE P # {}
    <2>1. PICK t \in Search : /\ search' = t /\ t.pc = "scan" /\ t.pool = P /\ Alike(t, s)
                              /\ t.missed = s.missed
        <3>1. search' = [s EXCEPT !.pc = "scan", !.pool = P]
            BY <1>5, <1>8
        <3>2. search' \in Search
            BY <1>3, <3>1 DEF Search, Seeking
        <3> QED
            BY <3>1, <3>2 DEF Search, Alike
    <2>2. Alike(t, search) /\ t.pc \in Hunting /\ search.pc \in Hunting /\ mode # "lexical"
        BY <1>1, <1>4, <2>1 DEF Alike, Hunting, Seeking, SearchInv, Kept
    <2> QED
        BY <1>1, <1>6, <2>1, <2>2, LooksOn
<1> QED
    BY <1>7, <1>8

LEMMA ScanVectorsKeeps ==
    ASSUME SearchInv, ScanVectors
    PROVE  SearchInv'
<1> DEFINE found == {r \in search.pool : Embedded(r)}
           f     == [r \in found |-> Scores[vectors[r].text].similarity]
<1>1. search.pc = "scan" /\ Steady /\ vectors \in [Records -> Row] /\ search \in Search
    BY QuietIsSteady DEF ScanVectors, SearchInv, Types, TablesOK
<1>2. PICK P \in TopCuts(f, PoolLimit) :
          search' = WithVectors([search EXCEPT !.missed = @ \cup (found \ P)], Keep(f, P))
    BY DEF ScanVectors
<1>3. f \in [found -> 0..One] /\ found \subseteq Records
    BY <1>1, SearchAssumption DEF Row, Search
<1>4. P \subseteq found
    BY <1>2, TopCutIsPart
<1> HIDE DEF found, f
<1>5. /\ Keep(f, P) \in Partial(0..One) /\ DOMAIN Keep(f, P) = P
      /\ \A r \in P : Keep(f, P)[r] = f[r]
    <2>1. PICK T : T = 0..One
        OBVIOUS
    <2>2. f \in [found -> T]
        BY <1>3, <2>1
    <2>3. /\ Keep(f, P) \in Partial(T) /\ DOMAIN Keep(f, P) = P
          /\ \A r \in P : Keep(f, P)[r] = f[r]
        BY <1>3, <1>4, <2>2, KeepIs
    <2> QED
        BY <2>1, <2>3
<1>6. PICK s \in Search :
          /\ s = [search EXCEPT !.missed = @ \cup (found \ P)]
          /\ Alike(s, search) /\ s.fts = search.fts
          /\ s.missed = search.missed \cup (found \ P)
    <2>1. [search EXCEPT !.missed = @ \cup (found \ P)] = Noting(P, found)
        BY DEF Noting
    <2> QED
        BY <1>3, <2>1, NotesCut
<1>7. ASSUME NEW r \in Records \ s.missed, Sought(r)
      PROVE  /\ r \in DOMAIN Keep(f, P)
             /\ Keep(f, P)[r] = Scores[rows[r].text].similarity
    <2>1. mode # "lexical" /\ r \in search.pool
        BY <1>1, <1>6, <1>7 DEF SearchInv, Kept
    <2>2. r \in found /\ vectors[r] = rows[r]
        BY <1>1, <1>7, <2>1, SoughtIsIndexed DEF Embedded, found
    <2>3. f[r] = Scores[rows[r].text].similarity
        BY <2>2 DEF f
    <2> QED
        BY <1>5, <1>6, <1>7, <2>2, <2>3
<1> QED
    BY <1>1, <1>2, <1>5, <1>6, <1>7, JoinsVectors

-----------------------------------------------------------------------------
(* The steps that judge what was found.                                    *)

LEMMA JudgesOn ==
    ASSUME SearchInv, Steady, search.pc \in Judging, NEW t \in Search, search' = t,
           t.caller = search.caller, t.missed = search.missed,
           t.fetched = {}, t.hits = {}, t.unread = {}, t.warned = {}, t.peers = {},
           t.answer = {}, t.opened = {},
           t.pc \in {"superseded", "votes", "rows", "done"},
           t.pc \in Judging => t.tally = Empty,
           t.pc \in Answering => DOMAIN t.tally = DOMAIN t.rel,
           t.pc = "done" => DOMAIN t.rel = {},
           t.pc \in {"votes", "rows"} =>
               \A r \in DOMAIN t.rel : Settled(r) => (r \in t.sunk <=> SupersededNow(r)),
           t.pc = "rows" => \A r \in DOMAIN t.rel : t.tally[r] = Tally(r),
           \A r \in Records \ t.missed : Sought(r) => r \in DOMAIN t.rel
    PROVE  SearchInv'
<1>1. Types'
    BY SteadyTypes DEF SearchInv
<1>2. Unfilled'
    BY DEF Unfilled, Seeking, Judging, Answering
<1>3. Ranked'
    <2>1. Hits(search, search.fetched)' = {}
        BY DEF Hits, First
    <2>2. Answer(search)' = {}
        <3>1. Answer(t) = {}
            BY NothingIsAnswered
        <3> QED
            BY <3>1
    <2> QED
        BY <2>1, <2>2 DEF Ranked, Done
<1>4. Shown' /\ Warned'
    BY DEF Shown, Warned
<1>5. Judged'
    BY SteadyRecords DEF Judged, Answering
<1>6. Current'
    BY SteadyRecords DEF SearchInv, Current, Judging
<1>7. Kept'
    <2>1. /\ t.pc \notin {"fulltext", "ann", "list", "scan", "candidates", "lexical", "boost"}
          /\ t.pc \in {"attach", "lineage", "done"} => DOMAIN t.rel = {}
        OBVIOUS
    <2>2. \A r : Sought(r)' <=> Sought(r)
        BY SteadyRecords
    <2> QED
        BY <2>1, <2>2 DEF Kept
<1> QED
    BY <1>1, <1>2, <1>3, <1>4, <1>5, <1>6, <1>7 DEF SearchInv

LEMMA BoostAndGateKeeps ==
    ASSUME SearchInv, BoostAndGate
    PROVE  SearchInv'
<1> DEFINE seen == Fetched(DOMAIN search.rel, search.caller)
           F(r) == IF r \in seen THEN Factor(rows[r].text) ELSE One
           B(r) == Boosted(search.rel[r], F(r))
           kept == {r \in DOMAIN search.rel : B(r) >= RelMin}
           rel  == [r \in kept |-> B(r)]
<1>1. search.pc = "boost" /\ Steady /\ search \in Search
    BY QuietIsSteady DEF BoostAndGate, SearchInv, Types
<1>2. search' = [search EXCEPT !.rel = rel,
                               !.pc = IF kept = {} THEN "done" ELSE "superseded"]
    BY DEF BoostAndGate
<1>3. /\ search.rel \in [DOMAIN search.rel -> 0..One] /\ DOMAIN search.rel \subseteq Records
      /\ search.tally = Empty /\ DOMAIN Empty = {}
    BY <1>1, NothingYet, PartialIs, EmptyIsPartial DEF Search, Judging
<1>4. \A r : F(r) \in Nat
    BY FactorIsNumber, OneIsNumber
<1>5. \A r \in DOMAIN search.rel : search.rel[r] \in Nat
    BY <1>3, OneIsNumber
<1>6. \A r \in DOMAIN search.rel : B(r) \in 0..One
    <2> HIDE DEF F
    <2> QED
        BY <1>4, <1>5, BoostKeepsOrder
<1>7. ASSUME NEW r \in Records \ search.missed, Sought(r)
      PROVE  r \in kept
    <2>1. r \in DOMAIN search.rel /\ search.rel[r] >= OwnScore(r)
        BY <1>1, <1>7 DEF SearchInv, Kept, Judging
    <2>2. F(r) = Factor(rows[r].text)
        BY <1>7, <2>1 DEF Fetched, Sought
    <2>3. /\ OwnScore(r) \in Nat /\ search.rel[r] \in Nat /\ F(r) \in Nat
          /\ OwnRelevance(r) = Boosted(OwnScore(r), F(r)) /\ OwnRelevance(r) >= RelMin
        BY <1>4, <1>5, <1>7, <2>1, <2>2, SoughtIsWorth, OneIsNumber DEF Sought
    <2> HIDE DEF F
    <2>4. Boosted(OwnScore(r), F(r)) <= B(r) /\ B(r) \in 0..One
          /\ Boosted(OwnScore(r), F(r)) \in 0..One
        BY <2>1, <2>3, BoostKeepsOrder
    <2>5. B(r) \in Int /\ Boosted(OwnScore(r), F(r)) \in Int /\ RelMin \in Int
        BY <2>4, OneIsNumber, Settings
    <2> HIDE DEF B
    <2>6. B(r) >= RelMin
        BY <2>3, <2>4, <2>5
    <2> QED
        BY <2>1, <2>6
<1>8. kept \subseteq DOMAIN search.rel /\ rel \in [kept -> 0..One] /\ DOMAIN rel = kept
    <2> HIDE DEF B
    <2> QED
        BY <1>6
<1> HIDE DEF kept, rel, B, F, seen
<1>9. rel \in Partial(0..One)
    BY <1>3, <1>8, PartialFunction
<1>10. PICK t \in Search :
          /\ search' = t /\ t.caller = search.caller /\ t.missed = search.missed
          /\ t.fetched = {} /\ t.hits = {} /\ t.unread = {} /\ t.warned = {} /\ t.peers = {}
          /\ t.answer = {} /\ t.opened = {} /\ t.tally = Empty /\ t.rel = rel
          /\ t.pc = IF kept = {} THEN "done" ELSE "superseded"
    <2>1. search' \in Search
        BY <1>1, <1>2, <1>9 DEF Search, Judging, Answering
    <2>2. search.pc \in Seeking \cup Judging
        BY <1>1 DEF Judging
    <2> QED
        BY <1>1, <1>2, <2>1, <2>2, NothingYet DEF Search
<1>11. search.pc \in Judging /\ (t.pc = "done" <=> kept = {})
       /\ t.pc \in {"superseded", "done"} /\ (t.pc \in Answering => t.pc = "done")
    BY <1>1, <1>10 DEF Judging, Answering
<1> QED
    BY <1>1, <1>3, <1>7, <1>8, <1>10, <1>11, JudgesOn

LEMMA ReadSupersededKeeps ==
    ASSUME SearchInv, ReadSuperseded
    PROVE  SearchInv'
<1> DEFINE S == Superseded(DOMAIN search.rel, search.caller)
<1>1. search.pc = "superseded" /\ Steady /\ search \in Search
    BY QuietIsSteady DEF ReadSuperseded, SearchInv, Types
<1>2. search' = [search EXCEPT !.pc = "votes", !.sunk = S]
    BY DEF ReadSuperseded
<1>3. DOMAIN search.rel \subseteq Records
    BY <1>1, PartialIs DEF Search
<1>4. S \subseteq Records /\ \A r \in DOMAIN search.rel : r \in S <=> SupersededNow(r)
    BY <1>3 DEF Superseded, SupersededNow
<1> HIDE DEF S
<1>5. PICK t \in Search :
          /\ search' = t /\ t.caller = search.caller /\ t.missed = search.missed
          /\ t.fetched = {} /\ t.hits = {} /\ t.unread = {} /\ t.warned = {} /\ t.peers = {}
          /\ t.answer = {} /\ t.opened = {} /\ t.tally = Empty /\ t.rel = search.rel
          /\ t.pc = "votes" /\ t.sunk = S
    <2>1. search' \in Search
        BY <1>1, <1>2, <1>4 DEF Search, Judging
    <2>2. search.pc \in Seeking \cup Judging
        BY <1>1 DEF Judging
    <2> QED
        BY <1>1, <1>2, <2>1, <2>2, NothingYet DEF Search
<1>6. search.pc \in Judging /\ t.pc \notin Answering
    BY <1>1, <1>5 DEF Judging, Answering
<1>7. \A r \in Records \ search.missed : Sought(r) => r \in DOMAIN search.rel
    BY <1>6 DEF SearchInv, Kept
<1> QED
    BY <1>1, <1>4, <1>5, <1>6, <1>7, JudgesOn

LEMMA TallyIsNumbers == \A r \in Records : Tally(r) \in Tallies
<1> SUFFICES ASSUME NEW r \in Records PROVE Tally(r) \in Tallies
    OBVIOUS
<1>1. \A v : IsFiniteSet({c \in Callers : ballots[r][c] = v})
    BY SearchAssumption, FS_Subset
<1>2. \A v : Cardinality({c \in Callers : ballots[r][c] = v}) \in Nat
    BY <1>1, FS_CardinalityType
<1>3. Profile[r].ups \in Nat /\ Profile[r].downs \in Nat
    BY SearchAssumption
<1>4. PICK m \in Nat, n \in Nat : /\ m = Cardinality({c \in Callers : ballots[r][c] = 1})
                                   /\ n = Cardinality({c \in Callers : ballots[r][c] = -1})
    BY <1>2
<1>5. Tally(r) = [up |-> Profile[r].ups + m, down |-> Profile[r].downs + n]
    BY <1>4 DEF Tally
<1> QED
    BY <1>3, <1>5 DEF Tallies

LEMMA ReadVotesKeeps ==
    ASSUME SearchInv, ReadVotes
    PROVE  SearchInv'
<1> DEFINE T == [r \in DOMAIN search.rel |-> Tally(r)]
<1>1. search.pc = "votes" /\ Steady /\ search \in Search
    BY QuietIsSteady DEF ReadVotes, SearchInv, Types
<1>2. search' = [search EXCEPT !.pc = "rows", !.tally = T]
    BY DEF ReadVotes
<1>3. DOMAIN search.rel \subseteq Records
    BY <1>1, PartialIs DEF Search
<1>4. /\ T \in Partial(Tallies) /\ DOMAIN T = DOMAIN search.rel
      /\ \A r \in DOMAIN search.rel : T[r] = Tally(r)
    BY <1>3, TallyIsNumbers, PartialFunction
<1> HIDE DEF T
<1>5. PICK t \in Search :
          /\ search' = t /\ t.caller = search.caller /\ t.missed = search.missed
          /\ t.fetched = {} /\ t.hits = {} /\ t.unread = {} /\ t.warned = {} /\ t.peers = {}
          /\ t.answer = {} /\ t.opened = {} /\ t.tally = T /\ t.rel = search.rel
          /\ t.pc = "rows" /\ t.sunk = search.sunk
    <2>1. search' \in Search
        BY <1>1, <1>2, <1>4 DEF Search, Answering
    <2>2. search.pc \in Seeking \cup Judging
        BY <1>1 DEF Judging
    <2> QED
        BY <1>1, <1>2, <2>1, <2>2, NothingYet DEF Search
<1>6. search.pc \in Judging /\ t.pc \notin Judging
    BY <1>1, <1>5 DEF Judging
<1>7. /\ \A r \in Records \ search.missed : Sought(r) => r \in DOMAIN search.rel
      /\ \A r \in DOMAIN search.rel : Settled(r) => (r \in search.sunk <=> SupersededNow(r))
    BY <1>1, <1>6 DEF SearchInv, Kept, Judged
<1> QED
    BY <1>1, <1>4, <1>5, <1>6, <1>7, JudgesOn

-----------------------------------------------------------------------------
(* The steps that answer.                                                  *)

LEMMA FirstIsPart == \A s, S, n : First(s, S, n) \subseteq S
BY DEF First

LEMMA HitsArePart == \A s, S : Hits(s, S) \subseteq S
BY FirstIsPart DEF Hits

LEMMA AnswerIsPart ==
    ASSUME NEW s
    PROVE  Answer(s) \subseteq s.hits
<1>1. \A k, n : First(s, InCase(s.hits, k), n) \subseteq s.hits
    BY FirstIsPart DEF InCase
<1> QED
    BY <1>1 DEF Answer

LEMMA SameHits ==
    ASSUME NEW s, NEW t, s.rel = t.rel, s.tally = t.tally, s.sunk = t.sunk
    PROVE  \A S : Hits(s, S) = Hits(t, S)
BY SameRanking DEF Hits

LEMMA AnswersOn ==
    ASSUME SearchInv, Steady, search.pc \in Answering, NEW t \in Search, search' = t,
           t.caller = search.caller, t.missed = search.missed, t.rel = search.rel,
           t.tally = search.tally, t.sunk = search.sunk,
           t.pc \in {"attach", "lineage", "done"},
           t.fetched \subseteq DOMAIN t.rel, t.hits = Hits(search, t.fetched),
           \A r \in t.fetched \ touched : /\ Visible(rows[r], r, search.caller)
                                          /\ <<r, FALSE>> \notin t.opened,
           \A p \in t.peers : p[2] \notin touched =>
               /\ rows[p[2]].status # "buffered"
               /\ Profile[p[2]].library \in Readable[search.caller],
           t.pc = "attach" => t.unread = {} /\ t.warned = {},
           t.pc = "done" => t.unread = {} /\ t.answer = Answer(t),
           t.pc # "done" => t.answer = {} /\ t.peers = {} /\ t.opened = {},
           t.pc \in {"lineage", "done"} =>
               \A r \in t.hits : \A x \in Profile[r].cites \ touched :
                   rows[x].status # "active" => <<r, x>> \in t.warned \cup t.unread,
           \A r \in Records \ t.missed : Sought(r) => r \in t.fetched
    PROVE  SearchInv'
<1>1. Types'
    BY SteadyTypes DEF SearchInv
<1>2. Unfilled'
    BY DEF Unfilled, Seeking, Judging
<1>3. /\ hide' = hide /\ mode' = mode /\ touched' = touched /\ lagged' = lagged
      /\ rows' = rows /\ index' = index /\ vectors' = vectors
      /\ \A r : /\ Settled(r)' <=> Settled(r)
                /\ SupersededNow(r)' <=> SupersededNow(r)
                /\ Tally(r)' = Tally(r)
                /\ Sought(r)' <=> Sought(r)
    BY SteadyRecords
<1>4. Ranked'
    <2>1. Hits(search, search.fetched)' = Hits(t, t.fetched)
        BY <1>3 DEF Hits, First, Ahead, FinalScore, IsWrong
    <2>2. Hits(search, t.fetched) = Hits(t, t.fetched)
        BY SameHits
    <2>3. Answer(search)' = Answer(t)
        OBVIOUS
    <2>4. DOMAIN t.tally = DOMAIN t.rel
        BY DEF SearchInv, Ranked
    <2> QED
        BY <2>1, <2>2, <2>3, <2>4 DEF Ranked, Done
<1>5. Shown'
    BY <1>3 DEF Shown
<1>6. Warned'
    BY <1>3 DEF Warned
<1>7. Judged'
    BY <1>3 DEF SearchInv, Judged, Answering
<1>8. Current'
    BY <1>3 DEF SearchInv, Current, Answering
<1>9. Kept'
    <2>1. \A r \in Records \ search.missed : Sought(r) => r \in DOMAIN search.rel
        BY DEF SearchInv, Kept
    <2>2. t.pc \notin {"fulltext", "ann", "list", "scan", "candidates", "lexical", "boost"}
        OBVIOUS
    <2> QED
        BY <1>3, <2>1, <2>2 DEF Kept
<1> QED
    BY <1>1, <1>2, <1>4, <1>5, <1>6, <1>7, <1>8, <1>9 DEF SearchInv

LEMMA FetchAndRankKeeps ==
    ASSUME SearchInv, FetchAndRank
    PROVE  SearchInv'
<1> DEFINE fetched == Fetched(DOMAIN search.rel, search.caller)
           hits    == Hits(search, fetched)
<1>1. search.pc = "rows" /\ Steady /\ search \in Search
    BY QuietIsSteady DEF FetchAndRank, SearchInv, Types
<1>2. search' = [search EXCEPT !.fetched = fetched, !.hits = hits,
                               !.pc = IF hits = {} THEN "done" ELSE "attach"]
    BY DEF FetchAndRank
<1>3. /\ fetched \subseteq DOMAIN search.rel /\ DOMAIN search.rel \subseteq Records
      /\ \A r \in fetched : Visible(rows[r], r, search.caller)
    BY <1>1, PartialIs DEF Fetched, Search
<1>4. hits \subseteq fetched
    BY HitsArePart
<1>5. \A r \in Records \ search.missed : Sought(r) => r \in fetched
    <2>1. \A r \in Records \ search.missed : Sought(r) => r \in DOMAIN search.rel
        BY <1>1 DEF SearchInv, Kept, Answering
    <2> QED
        BY <2>1 DEF Fetched, Sought, Visible
<1>6. /\ search.unread = {} /\ search.warned = {} /\ search.peers = {}
      /\ search.answer = {} /\ search.opened = {}
    BY <1>1 DEF SearchInv, Unfilled
<1>7. hits = Hits(search, fetched)
    OBVIOUS
<1> HIDE DEF fetched, hits
<1>8. PICK t \in Search :
          /\ search' = t /\ t.caller = search.caller /\ t.missed = search.missed
          /\ t.rel = search.rel /\ t.tally = search.tally /\ t.sunk = search.sunk
          /\ t.fetched = fetched /\ t.hits = hits /\ t.unread = {} /\ t.warned = {}
          /\ t.peers = {} /\ t.answer = {} /\ t.opened = {}
          /\ t.pc = IF hits = {} THEN "done" ELSE "attach"
    <2>1. search' \in Search
        BY <1>1, <1>2, <1>3, <1>4 DEF Search, Answering
    <2> QED
        BY <1>1, <1>2, <1>6, <2>1 DEF Search
<1>9. /\ search.pc \in Answering /\ t.pc \in {"attach", "done"} /\ t.pc # "lineage"
      /\ t.pc = "done" => t.hits = {} /\ t.answer = Answer(t)
    BY <1>1, <1>8, NothingIsAnswered DEF Answering
<1> QED
    BY <1>1, <1>3, <1>5, <1>7, <1>8, <1>9, AnswersOn

LEMMA AttachFeedbackKeeps ==
    ASSUME SearchInv, AttachFeedback
    PROVE  SearchInv'
<1> DEFINE U == {p \in Records \X Records : /\ p[1] \in search.hits
                                            /\ p[2] \in Profile[p[1]].cites}
<1>1. search.pc = "attach" /\ Steady /\ search \in Search
    BY QuietIsSteady DEF AttachFeedback, SearchInv, Types
<1>2. search' = [search EXCEPT !.pc = "lineage", !.unread = U]
    BY DEF AttachFeedback
<1>3. /\ U \subseteq Records \X Records
      /\ \A r \in search.hits : \A x \in Profile[r].cites : <<r, x>> \in U
    <2>1. search.hits \subseteq Records /\ \A r \in Records : Profile[r].cites \subseteq Records
        BY <1>1, SearchAssumption DEF Search
    <2> QED
        BY <2>1
<1> HIDE DEF U
<1>4. PICK t \in Search :
          /\ search' = t /\ t.caller = search.caller /\ t.missed = search.missed
          /\ t.rel = search.rel /\ t.tally = search.tally /\ t.sunk = search.sunk
          /\ t.fetched = search.fetched /\ t.hits = search.hits /\ t.unread = U
          /\ t.peers = {} /\ t.answer = {} /\ t.opened = {} /\ t.pc = "lineage"
    <2>1. search' \in Search
        BY <1>1, <1>2, <1>3 DEF Search, Answering
    <2>2. search.answer = {} /\ search.peers = {} /\ search.opened = {}
        BY <1>1 DEF SearchInv, Unfilled
    <2> QED
        BY <1>1, <1>2, <2>1, <2>2 DEF Search
<1>5. search.fetched \subseteq DOMAIN search.rel /\ search.hits = Hits(search, search.fetched)
    BY DEF SearchInv, Ranked
<1>6. \A r \in search.fetched \ touched : Visible(rows[r], r, search.caller)
    BY DEF SearchInv, Shown
<1>7. \A r \in Records \ search.missed : Sought(r) => r \in search.fetched
    BY <1>1 DEF SearchInv, Kept
<1>8. search.pc \in Answering
    BY <1>1 DEF Answering
<1> QED
    BY <1>1, <1>3, <1>4, <1>5, <1>6, <1>7, <1>8, AnswersOn

LEMMA CheckSourceKeeps ==
    ASSUME SearchInv, NEW p \in Records \X Records, CheckSource(p)
    PROVE  SearchInv'
<1>1. search.pc = "lineage" /\ Steady /\ search \in Search
    BY QuietIsSteady DEF CheckSource, SearchInv, Types
<1> DEFINE U == search.unread \ {p}
           W == IF Broken(p[2]) THEN search.warned \cup {p} ELSE search.warned
<1>2. search' = [search EXCEPT !.unread = U, !.warned = W]
    BY <1>1 DEF CheckSource, Search
<1>3. U \subseteq Records \X Records /\ W \subseteq Records \X Records
    BY <1>1 DEF Search
<1>4. \A r \in search.hits : \A x \in Profile[r].cites \ touched :
          rows[x].status # "active" => <<r, x>> \in W \cup U
    <2> SUFFICES ASSUME NEW r \in search.hits, NEW x \in Profile[r].cites \ touched,
                        rows[x].status # "active"
                 PROVE  <<r, x>> \in W \cup U
        OBVIOUS
    <2>1. <<r, x>> \in search.warned \cup search.unread
        BY <1>1 DEF SearchInv, Warned
    <2>2. CASE p = <<r, x>>
        BY <2>2 DEF Broken
    <2>3. CASE p # <<r, x>>
        BY <2>1, <2>3
    <2> QED
        BY <2>2, <2>3
<1> HIDE DEF U, W
<1>5. PICK t \in Search :
          /\ search' = t /\ t.caller = search.caller /\ t.missed = search.missed
          /\ t.rel = search.rel /\ t.tally = search.tally /\ t.sunk = search.sunk
          /\ t.fetched = search.fetched /\ t.hits = search.hits /\ t.unread = U
          /\ t.warned = W
          /\ t.peers = {} /\ t.answer = {} /\ t.opened = {} /\ t.pc = "lineage"
    <2>1. search' \in Search
        BY <1>1, <1>2, <1>3 DEF Search
    <2>2. search.answer = {} /\ search.peers = {} /\ search.opened = {}
        BY <1>1 DEF SearchInv, Unfilled
    <2> QED
        BY <1>1, <1>2, <2>1, <2>2 DEF Search
<1>6. search.fetched \subseteq DOMAIN search.rel /\ search.hits = Hits(search, search.fetched)
    BY DEF SearchInv, Ranked
<1>7. \A r \in search.fetched \ touched : Visible(rows[r], r, search.caller)
    BY DEF SearchInv, Shown
<1>8. \A r \in Records \ search.missed : Sought(r) => r \in search.fetched
    BY <1>1 DEF SearchInv, Kept
<1>9. search.pc \in Answering
    BY <1>1 DEF Answering
<1> QED
    BY <1>1, <1>4, <1>5, <1>6, <1>7, <1>8, <1>9, AnswersOn

LEMMA ReadRelationsKeeps ==
    ASSUME SearchInv, ReadRelations
    PROVE  SearchInv'
<1> DEFINE named(a, b) == /\ a \in search.hits
                          /\ Profile[b].library \in Readable[search.caller]
                          /\ rows[b].status \notin {"buffered", "gone"}
           N == {p \in Records \X Records : /\ p \in links \/ <<p[2], p[1]>> \in links
                                            /\ named(p[1], p[2])}
<1>1. search.pc = "lineage" /\ search.unread = {} /\ Steady /\ search \in Search
    BY QuietIsSteady DEF ReadRelations, SearchInv, Types
<1>2. search' = [search EXCEPT !.peers = N, !.answer = Answer(search), !.pc = "done"]
    BY DEF ReadRelations
<1>3. /\ N \subseteq Records \X Records
      /\ \A p \in N : /\ rows[p[2]].status # "buffered"
                      /\ Profile[p[2]].library \in Readable[search.caller]
    OBVIOUS
<1> HIDE DEF N
<1>4. Answer(search) \subseteq Records
    BY <1>1, AnswerIsPart DEF Search
<1>5. PICK t \in Search :
          /\ search' = t /\ t.caller = search.caller /\ t.missed = search.missed
          /\ t.rel = search.rel /\ t.tally = search.tally /\ t.sunk = search.sunk
          /\ t.fetched = search.fetched /\ t.hits = search.hits /\ t.unread = {}
          /\ t.warned = search.warned /\ t.peers = N /\ t.answer = Answer(search)
          /\ t.opened = {} /\ t.pc = "done"
    <2>1. search' \in Search
        BY <1>1, <1>2, <1>3, <1>4 DEF Search, Answering
    <2>2. search.opened = {}
        BY <1>1 DEF SearchInv, Unfilled
    <2> QED
        BY <1>1, <1>2, <2>1, <2>2 DEF Search
<1>6. t.answer = Answer(t)
    BY <1>5, SameAnswer
<1>7. search.fetched \subseteq DOMAIN search.rel /\ search.hits = Hits(search, search.fetched)
    BY DEF SearchInv, Ranked
<1>8. \A r \in search.fetched \ touched : Visible(rows[r], r, search.caller)
    BY DEF SearchInv, Shown
<1>9. \A r \in Records \ search.missed : Sought(r) => r \in search.fetched
    BY <1>1 DEF SearchInv, Kept
<1>10. \A r \in search.hits : \A x \in Profile[r].cites \ touched :
           rows[x].status # "active" => <<r, x>> \in search.warned \cup {}
    BY <1>1 DEF SearchInv, Warned
<1>11. search.pc \in Answering
    BY <1>1 DEF Answering
<1> QED
    BY <1>1, <1>3, <1>5, <1>6, <1>7, <1>8, <1>9, <1>10, <1>11, AnswersOn

\* What a search shows, its tools and the page show too.
LEMMA OpensKeeps ==
    ASSUME SearchInv, NEW r \in Records, Locate(r) \/ OpenCase(r) \/ OpenPage(r)
    PROVE  SearchInv'
<1>1. PICK found \in BOOLEAN : /\ Opens(r, found)
                               /\ Visible(rows[r], r, search.caller) => found = TRUE
    <2>1. RecordVisible(r, search.caller) \in BOOLEAN /\ CanReadRecord(r, search.caller) \in BOOLEAN
        BY DEF RecordVisible, CanReadRecord
    <2>2. Visible(rows[r], r, search.caller) => RecordVisible(r, search.caller)
        BY DEF Visible, RecordVisible
    <2>3. Visible(rows[r], r, search.caller) /\ search.caller # Anonymous =>
              CanReadRecord(r, search.caller)
        BY DEF Visible, CanReadRecord
    <2> QED
        BY <2>1, <2>2, <2>3 DEF Locate, OpenCase, OpenPage
<1>2. search.pc = "done" /\ Steady /\ search \in Search
    BY <1>1, QuietIsSteady DEF Opens, SearchInv, Types
<1>3. PICK t \in Search :
          /\ search' = t /\ t.caller = search.caller /\ t.missed = search.missed
          /\ t.rel = search.rel /\ t.tally = search.tally /\ t.sunk = search.sunk
          /\ t.fetched = search.fetched /\ t.hits = search.hits /\ t.unread = search.unread
          /\ t.warned = search.warned /\ t.peers = search.peers /\ t.answer = search.answer
          /\ t.opened = {<<r, found>>} /\ t.pc = "done"
    <2>1. search' = [search EXCEPT !.opened = {<<r, found>>}]
        BY <1>1 DEF Opens
    <2>2. search' \in Search
        BY <1>2, <2>1 DEF Search
    <2> QED
        BY <1>2, <2>1, <2>2 DEF Search
<1>4. t.answer = Answer(t) /\ t.unread = {}
    BY <1>2, <1>3, SameAnswer DEF SearchInv, Ranked, Done
<1>5. search.fetched \subseteq DOMAIN search.rel /\ search.hits = Hits(search, search.fetched)
    BY DEF SearchInv, Ranked
<1>6. \A x \in search.fetched \ touched : /\ Visible(rows[x], x, search.caller)
                                          /\ <<x, FALSE>> \notin {<<r, found>>}
    <2>1. \A x \in search.fetched \ touched : Visible(rows[x], x, search.caller)
        BY DEF SearchInv, Shown
    <2> QED
        BY <1>1, <2>1
<1>7. \A p \in search.peers : p[2] \notin touched =>
          /\ rows[p[2]].status # "buffered"
          /\ Profile[p[2]].library \in Readable[search.caller]
    BY DEF SearchInv, Shown
<1>8. \A x \in Records \ search.missed : Sought(x) => x \in search.fetched
    BY <1>2 DEF SearchInv, Kept
<1>9. \A x \in search.hits : \A y \in Profile[x].cites \ touched :
          rows[y].status # "active" => <<x, y>> \in search.warned \cup search.unread
    BY <1>2 DEF SearchInv, Warned
<1>10. search.pc \in Answering
    BY <1>2 DEF Answering
<1> QED
    BY <1>2, <1>3, <1>4, <1>5, <1>6, <1>7, <1>8, <1>9, <1>10, AnswersOn

\* A search that has found nothing yet.
Fresh(t) ==
    /\ t \in Search
    /\ t.rel = Empty /\ t.tally = Empty
    /\ t.fetched = {} /\ t.hits = {} /\ t.unread = {} /\ t.warned = {}
    /\ t.peers = {} /\ t.answer = {} /\ t.opened = {}

LEMMA NoSearchIsFresh == Fresh(NoSearch) /\ NoSearch.pc = "idle"
<1>1. Empty \in Partial(Nat) /\ Empty \in Partial(0..One) /\ Empty \in Partial(Tallies)
    BY EmptyIsPartial
<1>2. Anonymous \in Callers
    BY SearchAssumption
<1>3. NoSearch \in Search
    BY <1>1, <1>2 DEF NoSearch, Search, Seeking
<1> QED
    BY <1>3 DEF NoSearch, Fresh

LEMMA FirstIsFresh ==
    ASSUME NEW c \in Callers, NEW pc \in Seeking, NEW t,
           t = [NoSearch EXCEPT !.pc = pc, !.caller = c]
    PROVE  Fresh(t) /\ t.pc = pc
<1>1. PICK n \in Search : n = NoSearch
    BY NoSearchIsFresh DEF Fresh
<1>2. t = [n EXCEPT !.pc = pc, !.caller = c]
    BY <1>1
<1>3. t \in Search
    BY <1>2 DEF Search
<1>4. Fresh(n)
    BY <1>1, NoSearchIsFresh
<1> QED
    BY <1>2, <1>3, <1>4 DEF Search, Fresh

LEMMA BeginsOrEnds ==
    ASSUME SearchInv, UNCHANGED <<tables, server, writer, voter, left>>,
           NEW t, NEW pc \in Seeking, search' = t, Fresh(t), t.pc = pc,
           pc \notin {"lexical", "ann", "scan"},
           pc = "candidates" => mode = "lexical",
           pc \in {"fulltext", "list"} => mode # "lexical",
           touched' = {}, lagged' \subseteq Records, pc # "idle" => lagged' = Behind
    PROVE  SearchInv'
<1>1. /\ t \in Search /\ t.rel = Empty /\ t.tally = Empty
      /\ t.fetched = {} /\ t.hits = {} /\ t.unread = {} /\ t.warned = {}
      /\ t.peers = {} /\ t.answer = {} /\ t.opened = {}
    BY DEF Fresh
<1>2. /\ rows' = rows /\ index' = index /\ vectors' = vectors /\ mode' = mode
      /\ links' = links /\ ballots' = ballots /\ hide' = hide
    BY DEF tables, server
<1>3. Types'
    BY <1>1, <1>2 DEF SearchInv, Types, TablesOK, ServerOK, WriterOK, VoterOK
<1>4. Unfilled'
    BY <1>1 DEF Unfilled
<1>5. pc \notin Judging \cup Answering
    BY DEF Seeking, Judging, Answering
<1>6. Ranked'
    <2>1. Hits(search, search.fetched)' = {}
        BY <1>1 DEF Hits, First
    <2> QED
        BY <1>1, <1>5, <2>1 DEF Ranked, Done, Answering
<1>7. Shown' /\ Warned' /\ Judged'
    BY <1>1, <1>5 DEF Shown, Warned, Judged, Answering, Judging
<1>8. Current'
    BY <1>1, <1>2 DEF Current, Behind
<1>9. Kept'
    BY <1>1, <1>2, <1>5 DEF Kept, Judging, Answering
<1> QED
    BY <1>3, <1>4, <1>6, <1>7, <1>8, <1>9 DEF SearchInv

LEMMA SearchBeginsKeeps ==
    ASSUME SearchInv, NEW c \in Callers, SearchBegins(c)
    PROVE  SearchInv'
<1>1. mode \in {"lexical", "hybrid", "vector"}
    BY DEF SearchInv, Types, ServerOK, Modes
<1>2. /\ mode = "lexical" => FirstStep = "candidates"
      /\ mode = "hybrid" => FirstStep = "fulltext"
      /\ mode = "vector" => FirstStep = "list"
    BY DEF FirstStep
<1>3. Behind \subseteq Records /\ FirstStep \in Seeking
    BY <1>1, <1>2 DEF Behind, Seeking
<1>4. PICK t : t = [NoSearch EXCEPT !.pc = FirstStep, !.caller = c]
    OBVIOUS
<1>5. Fresh(t) /\ t.pc = FirstStep /\ search' = t
    BY <1>3, <1>4, FirstIsFresh DEF SearchBegins
<1> QED
    BY <1>1, <1>2, <1>3, <1>5, BeginsOrEnds DEF SearchBegins

LEMMA SearchEndsKeeps ==
    ASSUME SearchInv, SearchEnds
    PROVE  SearchInv'
<1>1. "idle" \in Seeking
    BY DEF Seeking
<1>2. PICK t : t = NoSearch
    OBVIOUS
<1>3. Fresh(t) /\ t.pc = "idle"
    BY <1>2, NoSearchIsFresh
<1> QED
    BY <1>1, <1>2, <1>3, BeginsOrEnds DEF SearchEnds

-----------------------------------------------------------------------------
(* The others.                                                             *)

LEMMA TouchIs ==
    ASSUME Types, NEW S, S \subseteq Records, Touch(S)
    PROVE  /\ touched' \subseteq Records
           /\ search.pc # "idle" => touched' = touched \cup S
BY DEF Touch, Types, ServerOK

LEMMA OthersTypes ==
    ASSUME Types, UNCHANGED <<server, search, lagged>>, touched' \subseteq Records, TablesOK'
    PROVE  Types'
BY DEF Types, ServerOK, server

\* A record changes, and its copies later.
LEMMA ChangesKeep ==
    ASSUME SearchInv, NEW r \in Records, NEW row \in Row, NEW step \in {"index", "unvector"},
           NEW linked \in BOOLEAN, Changes(r, row, step, linked)
    PROVE  SearchInv'
<1>1. /\ left' = [left EXCEPT !.changes = @ - 1] /\ left.changes > 0
      /\ rows' = [rows EXCEPT ![r] = row]
      /\ writer' = [step |-> step, rec |-> r, links |-> linked]
      /\ Touch({r})
      /\ UNCHANGED <<index, vectors, links, ballots, server, voter, search, lagged>>
    BY DEF Changes
<1>2. Types /\ TablesOK
    BY DEF SearchInv, Types
<1>3. touched' \subseteq Records /\ (search.pc # "idle" => touched' = touched \cup {r})
    BY <1>1, <1>2, TouchIs
<1>4. TablesOK'
    <2>1. writer' \in [step : {"idle", "index", "vector", "links", "unvector", "unindex"},
                       rec : Nat, links : BOOLEAN] /\ writer'.rec \in Records
        BY <1>1, SearchAssumption
    <2>2. rows' \in [Records -> Row]
        BY <1>1, <1>2 DEF TablesOK
    <2>3. left' \in [changes : Nat, faults : Nat]
        BY <1>1, <1>2 DEF TablesOK
    <2> QED
        BY <1>1, <1>2, <2>1, <2>2, <2>3 DEF TablesOK, WriterOK, VoterOK
<1>5. Types'
    BY <1>1, <1>2, <1>3, <1>4, OthersTypes
<1>6. \A x \in Records \ {r} : rows'[x] = rows[x]
    BY <1>1, <1>2 DEF TablesOK
<1> QED
    BY <1>1, <1>3, <1>5, <1>6, OthersKeep

LEMMA WriterKeeps ==
    ASSUME SearchInv, NEW r \in Records,
           Publish(r) \/ Trash(r) \/ Restore(r) \/ Erase(r) \/ \E x \in Texts : Edit(r, x)
    PROVE  SearchInv'
<1>1. rows[r] \in Row
    BY DEF SearchInv, Types, TablesOK
<1>2. \A x \in Statuses : [rows[r] EXCEPT !.status = x] \in Row
    BY <1>1 DEF Row
<1>3. \A x \in Texts : [rows[r] EXCEPT !.text = x] \in Row
    BY <1>1 DEF Row
<1>4. CASE Publish(r)
    BY <1>2, <1>4, ChangesKeep DEF Publish, Statuses
<1>5. CASE Trash(r)
    BY <1>2, <1>5, ChangesKeep DEF Trash, Statuses
<1>6. CASE Restore(r)
    BY <1>2, <1>6, ChangesKeep DEF Restore, Statuses
<1>7. CASE Erase(r)
    BY <1>2, <1>7, ChangesKeep DEF Erase, Statuses
<1>8. CASE \E x \in Texts : Edit(r, x)
    BY <1>3, <1>8, ChangesKeep DEF Edit
<1> QED
    BY <1>4, <1>5, <1>6, <1>7, <1>8

LEMMA NoWriterFits ==
    NoWriter \in [step : {"idle", "index", "vector", "links", "unvector", "unindex"},
                  rec : Nat, links : BOOLEAN] /\ NoWriter.step = "idle"
BY DEF NoWriter

\* The writer's next step.
LEMMA NextStepFits ==
    ASSUME WriterOK, writer.step # "idle",
           NEW step \in {"vector", "links", "unindex"}
    PROVE  /\ [writer EXCEPT !.step = step]
                  \in [step : {"idle", "index", "vector", "links", "unvector", "unindex"},
                       rec : Nat, links : BOOLEAN]
           /\ [writer EXCEPT !.step = step].rec \in Records
BY DEF WriterOK

LEMMA AfterCopiesFits ==
    ASSUME WriterOK, writer.step # "idle", writer' = AfterCopies
    PROVE  WriterOK'
<1>1. CASE writer.links
    BY <1>1, NextStepFits DEF AfterCopies, WriterOK
<1>2. CASE ~writer.links
    BY <1>2, NoWriterFits DEF AfterCopies, WriterOK
<1> QED
    BY <1>1, <1>2

LEMMA SyncsKeep ==
    ASSUME SearchInv, SyncIndex \/ SyncVector \/ RemoveVector \/ RemoveIndex
    PROVE  SearchInv'
<1>1. Types /\ TablesOK /\ WriterOK /\ writer.rec \in Records /\ writer.step # "idle"
    BY DEF SearchInv, Types, TablesOK, WriterOK, SyncIndex, SyncVector, RemoveVector, RemoveIndex
<1>2. /\ UNCHANGED <<rows, links, ballots, server, voter, search, touched, lagged, left>>
      /\ index' = index \/ index' = [index EXCEPT ![writer.rec] = rows[writer.rec]]
      /\ vectors' = vectors \/ vectors' = [vectors EXCEPT ![writer.rec] = rows[writer.rec]]
    BY DEF SyncIndex, SyncVector, RemoveVector, RemoveIndex
<1>3. WriterOK'
    <2>1. CASE SyncIndex
        BY <1>1, <2>1, AfterCopiesFits, NextStepFits DEF SyncIndex, WriterOK
    <2>2. CASE SyncVector
        BY <1>1, <2>2, AfterCopiesFits DEF SyncVector
    <2>3. CASE RemoveVector
        BY <1>1, <2>3, NextStepFits DEF RemoveVector, WriterOK
    <2>4. CASE RemoveIndex
        BY <2>4, NoWriterFits DEF RemoveIndex, WriterOK
    <2> QED
        BY <2>1, <2>2, <2>3, <2>4
<1>4. /\ index \in [Records -> Row] /\ vectors \in [Records -> Row]
      /\ index' \in [Records -> Row] /\ vectors' \in [Records -> Row]
    BY <1>1, <1>2 DEF TablesOK
<1>5. TablesOK'
    BY <1>1, <1>2, <1>3, <1>4 DEF TablesOK, VoterOK
<1>6. Types'
    BY <1>1, <1>2, <1>5, OthersTypes DEF Types, ServerOK
<1>7. \A x \in Records : /\ index'[x] = index[x] \/ index'[x] = rows[x]
                         /\ vectors'[x] = vectors[x] \/ vectors'[x] = rows[x]
    BY <1>1, <1>2, <1>4
<1> QED
    BY <1>2, <1>6, <1>7, OthersKeep

LEMMA InsertLinksKeeps ==
    ASSUME SearchInv, InsertLinks
    PROVE  SearchInv'
<1> DEFINE cited == Profile[writer.rec].cites
<1>1. Types /\ TablesOK /\ WriterOK /\ writer.rec \in Records
    BY DEF SearchInv, Types, TablesOK, WriterOK, InsertLinks
<1>2. /\ UNCHANGED <<rows, index, vectors, ballots, server, voter, search, lagged, left>>
      /\ links' = links \cup {<<writer.rec, x>> : x \in cited}
      /\ Touch(cited) /\ writer' = NoWriter
    BY DEF InsertLinks
<1>3. cited \subseteq Records
    BY <1>1, SearchAssumption
<1> HIDE DEF cited
<1>4. touched' \subseteq Records /\ (search.pc # "idle" => touched' = touched \cup cited)
    BY <1>1, <1>2, <1>3, TouchIs
<1>5. links' \subseteq Records \X Records
    BY <1>1, <1>2, <1>3 DEF TablesOK
<1>6. TablesOK'
    BY <1>1, <1>2, <1>5, NoWriterFits DEF TablesOK, WriterOK, VoterOK
<1>7. Types'
    BY <1>1, <1>2, <1>4, <1>6, OthersTypes
<1>8. \A x \in Records \ cited : \A s \in Records : <<s, x>> \in links' => <<s, x>> \in links
    BY <1>2
<1> QED
    BY <1>2, <1>4, <1>7, <1>8, OthersKeep

LEMMA WriterFailsKeeps ==
    ASSUME SearchInv, WriterFails
    PROVE  SearchInv'
<1>1. Types /\ TablesOK /\ touched \subseteq Records
    BY DEF SearchInv, Types, ServerOK
<1>2. /\ UNCHANGED <<tables, server, voter, search, touched, lagged>> /\ writer' = NoWriter
      /\ left.faults > 0 /\ left' = [left EXCEPT !.faults = @ - 1]
    BY DEF WriterFails, Fault
<1>3. left' \in [changes : Nat, faults : Nat]
    BY <1>1, <1>2 DEF TablesOK
<1>4. /\ rows' = rows /\ index' = index /\ vectors' = vectors /\ links' = links
      /\ ballots' = ballots
    BY <1>2 DEF tables
<1>5. TablesOK'
    BY <1>1, <1>2, <1>3, <1>4, NoWriterFits DEF TablesOK, WriterOK, VoterOK
<1>6. Types'
    BY <1>1, <1>2, <1>5, OthersTypes
<1> QED
    BY <1>2, <1>4, <1>6, OthersKeep

LEMMA VotesKeep ==
    ASSUME SearchInv, NEW c \in Callers, NEW r \in Records, NEW v \in {1, -1, 0},
           VoteChecked(c, r, v) \/ PortalVoteChecked(c, r, v)
    PROVE  SearchInv'
<1>1. Types /\ TablesOK /\ touched \subseteq Records
    BY DEF SearchInv, Types, ServerOK
<1>2. /\ UNCHANGED <<tables, server, writer, search, touched, lagged>>
      /\ voter' = [step |-> "cast", rec |-> r, by |-> c, vote |-> v]
      /\ left.changes > 0 /\ left' = [left EXCEPT !.changes = @ - 1]
    BY DEF PortalVoteChecked, VoteChecked
<1>3. left' \in [changes : Nat, faults : Nat]
    BY <1>1, <1>2 DEF TablesOK
<1>4. /\ rows' = rows /\ index' = index /\ vectors' = vectors /\ links' = links
      /\ ballots' = ballots
    BY <1>2 DEF tables
<1>5. VoterOK'
    BY <1>2, SearchAssumption DEF VoterOK
<1>6. TablesOK'
    BY <1>1, <1>2, <1>3, <1>4, <1>5 DEF TablesOK, WriterOK
<1>7. Types'
    BY <1>1, <1>2, <1>6, OthersTypes
<1> QED
    BY <1>2, <1>4, <1>7, OthersKeep

LEMMA VoteCastKeeps ==
    ASSUME SearchInv, VoteCast
    PROVE  SearchInv'
<1>1. Types /\ TablesOK /\ VoterOK /\ voter.rec \in Records /\ voter.by \in Callers
      /\ voter.vote \in {1, -1, 0}
    BY DEF SearchInv, Types, TablesOK, VoterOK, VoteCast
<1>2. /\ UNCHANGED <<rows, index, vectors, links, server, writer, search, lagged, left>>
      /\ ballots' = [ballots EXCEPT ![voter.rec][voter.by] = voter.vote]
      /\ Touch({voter.rec}) /\ voter' = NoVoter
    BY DEF VoteCast
<1>3. touched' \subseteq Records /\ (search.pc # "idle" => touched' = touched \cup {voter.rec})
    BY <1>1, <1>2, TouchIs
<1>4. /\ ballots' \in [Records -> [Callers -> {1, -1, 0}]]
      /\ \A x \in Records \ {voter.rec} : ballots'[x] = ballots[x]
    BY <1>1, <1>2 DEF TablesOK
<1>5. VoterOK'
    BY <1>2, SearchAssumption DEF VoterOK, NoVoter
<1>6. TablesOK'
    BY <1>1, <1>2, <1>4, <1>5 DEF TablesOK, WriterOK
<1>7. Types'
    BY <1>1, <1>2, <1>3, <1>6, OthersTypes
<1> QED
    BY <1>2, <1>3, <1>4, <1>7, OthersKeep

LEMMA InitKeeps == Init => SearchInv
<1> SUFFICES ASSUME Init PROVE SearchInv
    OBVIOUS
<1>1. Anonymous \in Callers /\ "idle" \in Seeking /\ FirstRows \in [Records -> Row]
    BY SearchAssumption DEF Seeking
<1>2. PICK t : t = NoSearch
    OBVIOUS
<1>3. /\ search = t /\ t \in Search /\ t.pc = "idle" /\ t.rel = Empty /\ t.tally = Empty
      /\ t.fetched = {} /\ t.hits = {} /\ t.unread = {} /\ t.warned = {}
      /\ t.peers = {} /\ t.answer = {} /\ t.opened = {}
    BY <1>2, NoSearchIsFresh DEF Init, Fresh
<1>4. vectors \in [Records -> Row]
    <2>1. \A r \in Records : [FirstRows[r] EXCEPT !.status = "gone"] \in Row
        BY <1>1 DEF Row, Statuses
    <2>2. [r \in Records |-> [FirstRows[r] EXCEPT !.status = "gone"]] \in [Records -> Row]
        BY <2>1
    <2> QED
        BY <1>1, <2>2 DEF Init
<1>5. /\ writer = NoWriter /\ voter = NoVoter /\ rows = FirstRows /\ index = FirstRows
      /\ links = FirstLinks /\ ballots = [r \in Records |-> [c \in Callers |-> 0]]
      /\ left = [changes |-> MaxChanges, faults |-> MaxFaults]
      /\ mode \in Modes /\ hide \in BOOLEAN /\ touched = {} /\ lagged = {}
    BY SearchAssumption DEF Init
<1>6. MaxChanges \in Nat /\ MaxFaults \in Nat
    BY SearchAssumption
<1>7. VoterOK /\ WriterOK
    BY <1>1, <1>5, NoWriterFits DEF VoterOK, WriterOK, NoVoter
<1>8. Types
    BY <1>1, <1>3, <1>4, <1>5, <1>6, <1>7, SearchAssumption DEF Types, TablesOK, ServerOK
<1>9. Unfilled
    BY <1>3 DEF Unfilled
<1>10. Ranked
    BY <1>3, NothingIsAnswered DEF Ranked, Done, Answering
<1>11. Shown /\ Warned /\ Judged /\ Current /\ Kept
    BY <1>3 DEF Shown, Warned, Judged, Current, Kept, Judging, Answering
<1> QED
    BY <1>8, <1>9, <1>10, <1>11 DEF SearchInv

LEMMA StutterKeeps == SearchInv /\ UNCHANGED vars => SearchInv'
<1> SUFFICES ASSUME SearchInv, UNCHANGED vars PROVE SearchInv'
    OBVIOUS
<1>1. /\ UNCHANGED <<rows, index, vectors, links, ballots, server, writer, voter, search,
                     touched, lagged, left>>
    BY DEF vars, tables
<1>2. Types'
    BY <1>1 DEF SearchInv, Types, TablesOK, ServerOK, WriterOK, VoterOK, server
<1> QED
    BY <1>1, <1>2, OthersKeep

LEMMA NextKeeps == SearchInv /\ [Next]_vars => SearchInv'
<1> SUFFICES ASSUME SearchInv, [Next]_vars PROVE SearchInv'
    OBVIOUS
<1>1. CASE SearchSteps
    BY <1>1, FindCandidatesKeeps, ScoreCandidatesKeeps, ReadFulltextKeeps, FaultsKeep,
       ReadNeighboursKeeps, ListNewestKeeps, ScanVectorsKeeps, BoostAndGateKeeps,
       ReadSupersededKeeps, ReadVotesKeeps, FetchAndRankKeeps, AttachFeedbackKeeps,
       CheckSourceKeeps, ReadRelationsKeeps
       DEF SearchSteps
<1>2. CASE (\E c \in Callers : SearchBegins(c)) \/ SearchEnds
    BY <1>2, SearchBeginsKeeps, SearchEndsKeeps
<1>3. ASSUME NEW r \in Records,
             \/ Locate(r) \/ OpenCase(r) \/ OpenPage(r)
             \/ Publish(r) \/ Trash(r) \/ Restore(r) \/ Erase(r)
             \/ \E t \in Texts : Edit(r, t)
             \/ \E c \in Callers, v \in {1, -1, 0} :
                    VoteChecked(c, r, v) \/ PortalVoteChecked(c, r, v)
      PROVE  SearchInv'
    BY <1>3, OpensKeeps, WriterKeeps, VotesKeep
<1>4. CASE SyncIndex \/ SyncVector \/ InsertLinks \/ RemoveVector \/ RemoveIndex
           \/ WriterFails \/ VoteCast
    BY <1>4, SyncsKeep, InsertLinksKeeps, WriterFailsKeeps, VoteCastKeeps
<1>5. CASE UNCHANGED vars
    BY <1>5, StutterKeeps
<1> QED
    BY <1>1, <1>2, <1>3, <1>4, <1>5 DEF Next

LEMMA SearchInvHolds == Spec => []SearchInv
<1> QED
    BY InitKeeps, NextKeeps, PTL DEF Spec

-----------------------------------------------------------------------------
(* What the invariant says of an answer.                                   *)

\* The ranking orders all that was fetched, and what is shown was fetched.
LEMMA ShownWasFetched ==
    ASSUME SearchInv
    PROVE  /\ search.hits \subseteq search.fetched
           /\ Graded(search, search.fetched)
           /\ Limit \in Nat
           /\ Done => search.answer \subseteq search.hits
<1>1. search \in Search /\ search.fetched \subseteq DOMAIN search.rel
    BY DEF SearchInv, Types, Ranked
<1>2. search.rel \in [DOMAIN search.rel -> 0..One]
    BY <1>1, PartialIs DEF Search
<1>3. Graded(search, search.fetched)
    BY <1>1, <1>2, OneIsNumber DEF Graded, Search
<1>4. search.hits \subseteq search.fetched
    BY HitsArePart DEF SearchInv, Ranked
<1>5. Done => search.answer \subseteq search.hits
    BY AnswerIsPart DEF SearchInv, Ranked
<1>6. Limit \in Nat
    BY Settings DEF Limit
<1> QED
    BY <1>3, <1>4, <1>5, <1>6

\* What the search has read makes wrong what is wrong now.
LEMMA WrongIsSeen ==
    ASSUME SearchInv, Done, NEW r \in search.fetched, Settled(r)
    PROVE  IsWrong(search, r) <=> WrongNow(r)
<1>1. r \in DOMAIN search.rel /\ r \notin touched
    BY DEF SearchInv, Ranked, Settled, Untouched
<1>2. search.pc \in Answering
    BY DEF Done, Answering
<1>3. (r \in search.sunk <=> SupersededNow(r)) /\ search.tally[r] = Tally(r)
    BY <1>1, <1>2 DEF SearchInv, Judged
<1> DEFINE wrong == UpperAtMost(Tally(r).up, Tally(r).up + Tally(r).down, TFloor)
<1>4. IsWrong(search, r) <=> (r \in search.sunk \/ wrong)
    BY <1>3 DEF IsWrong, Label
<1> QED
    BY <1>3, <1>4 DEF WrongNow

\* What a hit was chosen from.
LEMMA HitsAreFirst ==
    ASSUME SearchInv
    PROVE  \E S \in SUBSET search.fetched :
               /\ S = {r \in search.fetched : hide => ~IsWrong(search, r)}
               /\ search.hits = First(search, S, Limit) /\ Graded(search, S)
BY ShownWasFetched DEF SearchInv, Ranked, Hits, Graded

LEMMA NothingSoundIsMissed == SearchInv => NothingSoundMissed
<1> SUFFICES ASSUME SearchInv, Done, NEW r \in Records \ (lagged \cup search.missed),
                    Settled(r), Visible(rows[r], r, search.caller), ~WrongNow(r),
                    OwnRelevance(r) >= RelMin, r \notin search.hits
             PROVE  /\ r \in search.fetched
                    /\ Cardinality(search.hits) = Limit
                    /\ \A x \in search.hits : Ahead(search, x, r)
    BY DEF NothingSoundMissed
<1>1. Sought(r)
    BY DEF Sought, Settled, Untouched
<1>2. r \in search.fetched
    BY <1>1 DEF SearchInv, Kept, Done
<1>3. ~IsWrong(search, r)
    BY <1>2, WrongIsSeen
<1>4. PICK S \in SUBSET search.fetched :
          /\ S = {x \in search.fetched : hide => ~IsWrong(search, x)}
          /\ search.hits = First(search, S, Limit) /\ Graded(search, S)
    BY HitsAreFirst
<1>5. r \in S /\ Limit \in Nat
    BY <1>2, <1>3, <1>4, ShownWasFetched
<1>6. Cardinality(First(search, S, Limit)) = Limit
    BY <1>4, <1>5, FirstIsFull
<1>7. \A x \in First(search, S, Limit) : Ahead(search, x, r)
    BY <1>4, <1>5, FirstStandAhead
<1> QED
    BY <1>2, <1>4, <1>6, <1>7

\* The best of a case stands ahead of the others of the case.
LEMMA HeadIsAhead ==
    ASSUME NEW s, NEW S, Graded(s, S), NEW h \in First(s, S, 1), NEW r \in S, r # h
    PROVE  Ahead(s, h, r)
<1>1. h \in S /\ Cardinality(Before(s, S, h)) < 1
    BY FirstIs
<1>2. Cardinality(Before(s, S, h)) \in Nat /\ Cardinality(Before(s, S, r)) \in Nat
    BY BeforeIsFinite DEF Graded
<1>3. ~Ahead(s, r, h)
    BY <1>1, <1>2, BeforeGrows
<1> QED
    BY <1>1, <1>3, AheadTotal

LEMMA FirstGrows ==
    ASSUME NEW s, NEW S, S \subseteq Records, NEW n \in Nat \ {0}
    PROVE  First(s, S, 1) \subseteq First(s, S, n)
<1>1. \A r \in S : Cardinality(Before(s, S, r)) \in Nat
    BY BeforeIsFinite
<1> QED
    BY <1>1, FirstIs

LEMMA BestIsAnswered == SearchInv => BestHitIsAnswered
<1> SUFFICES ASSUME SearchInv, Done, NEW r \in search.hits \ search.answer
             PROVE  /\ \E x \in search.answer : Ahead(search, x, r)
                    /\ \A x \in search.answer :
                           Profile[x].case = Profile[r].case => Ahead(search, x, r)
    BY DEF BestHitIsAnswered
<1> DEFINE C(k)  == InCase(search.hits, k)
           heads == UNION {First(search, C(Profile[x].case), 1) : x \in search.hits}
           named == {x \in heads : Profile[x].case # NoCase}
           first == First(search, named, MaxCases)
           some  == {Profile[x].case : x \in first} \cup {NoCase}
           kase  == Profile[r].case
<1>1. search.answer = UNION {First(search, C(k), PerCase) : k \in some}
    BY DEF SearchInv, Ranked, Answer
<1>2. /\ search.hits \subseteq Records
      /\ Graded(search, search.hits) /\ \A k : Graded(search, C(k))
    BY ShownWasFetched DEF Graded, InCase
<1>3. \A k : \A n : First(search, C(k), n) \subseteq C(k)
    BY FirstIsPart
<1>4. \A k : \A x \in C(k) : x \in search.hits /\ Profile[x].case = k
    BY DEF InCase
<1>5. heads \subseteq search.hits
    BY <1>3, <1>4
<1>6. Graded(search, named)
    BY <1>2, <1>5 DEF Graded
<1>7. r \in search.hits /\ r \in C(kase)
    BY DEF InCase
<1>8. 1 \in Nat \ {0} /\ MaxCases \in Nat \ {0} /\ PerCase \in Nat \ {0}
    BY Settings
<1>9. first \subseteq named
    BY FirstIsPart
<1> HIDE DEF C
<1>10. CASE kase \in some
    <2>1. r \notin First(search, C(kase), PerCase)
        BY <1>1, <1>10
    <2>2. \A x \in First(search, C(kase), PerCase) : x \in search.answer /\ Ahead(search, x, r)
        BY <1>1, <1>2, <1>7, <1>8, <1>10, <2>1, FirstStandAhead
    <2>3. First(search, C(kase), PerCase) # {}
        BY <1>2, <1>7, <1>8, SomeIsFirst
    <2>4. ASSUME NEW x \in search.answer, Profile[x].case = kase
          PROVE  x \in First(search, C(kase), PerCase)
        BY <1>1, <1>3, <1>4, <2>4
    <2> QED
        BY <2>2, <2>3, <2>4
<1>11. CASE kase \notin some
    <2>1. PICK h \in First(search, C(kase), 1) : TRUE
        BY <1>2, <1>7, <1>8, SomeIsFirst
    <2>2. h \in heads /\ Profile[h].case = kase
        BY <1>3, <1>4, <1>7, <2>1
    <2>3. h \in named /\ h \notin first
        BY <1>11, <2>2
    <2>4. PICK y \in first : TRUE
        BY <1>6, <1>8, <2>3, SomeIsFirst, ZenonT(30)
    <2>5. Ahead(search, y, h)
        BY <1>6, <1>8, <2>3, <2>4, FirstStandAhead
    <2>6. h = r \/ Ahead(search, h, r)
        BY <1>2, <1>7, <2>1, HeadIsAhead
    <2>7. y \in search.hits /\ h \in search.hits
        BY <1>5, <1>9, <2>2, <2>4
    <2>8. Ahead(search, y, r)
        BY <1>2, <1>7, <2>5, <2>6, <2>7, AheadTransitive
    <2>9. y \in search.answer
        <3>1. PICK x \in search.hits : y \in First(search, C(Profile[x].case), 1)
            BY <1>9, <2>4
        <3>2. Profile[y].case = Profile[x].case /\ Profile[y].case \in some
            BY <1>3, <1>4, <2>4, <3>1
        <3>3. C(Profile[x].case) \subseteq Records
            BY <1>2, <1>4
        <3>4. y \in First(search, C(Profile[x].case), PerCase)
            BY <1>8, <3>1, <3>3, FirstGrows
        <3> HIDE DEF some
        <3> QED
            BY <1>1, <3>2, <3>4
    <2>10. ASSUME NEW x \in search.answer, Profile[x].case = kase
           PROVE  FALSE
        BY <1>1, <1>3, <1>4, <1>11, <2>10, SMTT(60)
    <2> QED
        BY <2>8, <2>9, <2>10
<1> QED
    BY <1>10, <1>11

LEMMA GapStands == SearchInv => RelevanceGapStands
<1> SUFFICES ASSUME SearchInv, NEW a \in search.fetched, NEW b \in search.hits,
                    ~IsWrong(search, a), search.rel[a] >= search.rel[b] + Epsilon
             PROVE  a \in search.hits /\ Ahead(search, a, b)
    BY DEF RelevanceGapStands
<1>1. PICK S \in SUBSET search.fetched :
          /\ S = {x \in search.fetched : hide => ~IsWrong(search, x)}
          /\ search.hits = First(search, S, Limit) /\ Graded(search, S)
    BY HitsAreFirst
<1>2. a \in S /\ b \in S /\ Limit \in Nat
    BY <1>1, FirstIsPart, ShownWasFetched
<1>3. /\ a \in Nat /\ b \in Nat /\ a \in Records /\ b \in Records
      /\ search.rel[a] \in Int /\ search.rel[b] \in Int
    BY <1>1, <1>2, SearchAssumption DEF Graded
<1>4. Ahead(search, a, b)
    <2>1. CASE IsWrong(search, b)
        BY <2>1, SoundIsAhead, WrongIsBoolean
    <2>2. CASE ~IsWrong(search, b)
        <3>1. PICK p \in Int, q \in Int :
                  /\ FinalScore(search, a) = search.rel[a] + p /\ -QLean <= p
                  /\ FinalScore(search, b) = search.rel[b] + q /\ q <= QVerified
            BY <2>2, AdjustmentIsSmall DEF FinalScore
        <3>2. FinalScore(search, a) > FinalScore(search, b)
              /\ FinalScore(search, a) # FinalScore(search, b)
            BY <1>3, <3>1, Settings
        <3> QED
            BY <2>2, <3>2, AheadAmongEquals, WrongIsBoolean
    <2> QED
        BY <2>1, <2>2
<1>5. a \in search.hits
    <2> SUFFICES ASSUME a \notin search.hits PROVE FALSE
        OBVIOUS
    <2>1. Ahead(search, b, a) /\ a # b
        BY <1>1, <1>2, FirstStandAhead
    <2> QED
        BY <1>1, <1>2, <1>4, <2>1, AheadTotal
<1> QED
    BY <1>4, <1>5

LEMMA WrongOnesSink == SearchInv => WrongSinks
<1> SUFFICES ASSUME SearchInv, Done, NEW r \in search.hits, Settled(r), WrongNow(r)
             PROVE  /\ ~hide
                    /\ \A x \in search.hits : ~IsWrong(search, x) => Ahead(search, x, r)
    BY DEF WrongSinks
<1>1. r \in search.fetched /\ IsWrong(search, r)
    BY ShownWasFetched, WrongIsSeen
<1>2. ~hide
    BY <1>1, HitsAreFirst, FirstIsPart
<1>3. \A x \in search.hits : ~IsWrong(search, x) => Ahead(search, x, r)
    BY <1>1, SoundIsAhead, WrongIsBoolean
<1> QED
    BY <1>2, <1>3

LEMMA SourcesAreWarned == SearchInv => LineageIsWarned
<1> SUFFICES ASSUME SearchInv, Done, NEW r \in search.answer,
                    NEW t \in Profile[r].cites \cap Untouched, rows[t].status # "active"
             PROVE  <<r, t>> \in search.warned
    BY DEF LineageIsWarned
<1>1. r \in search.hits /\ t \notin touched
    BY ShownWasFetched DEF Untouched
<1>2. search.unread = {}
    BY DEF SearchInv, Ranked
<1>3. <<r, t>> \in search.warned \cup search.unread
    BY <1>1 DEF SearchInv, Warned, Done
<1> QED
    BY <1>2, <1>3

-----------------------------------------------------------------------------
(* The theorems.                                                           *)

\* Types, and what the steps of a search have filled when they end.
THEOREM SearchTypes == Spec => []TypeOK
<1>1. ASSUME SearchInv PROVE TypeOK
    <2>1. search \in Search /\ TablesOK /\ ServerOK
        BY <1>1 DEF SearchInv, Types
    <2>2. DOMAIN search = DOMAIN NoSearch
        BY <2>1 DEF Search, NoSearch
    <2>3. /\ IsPartial(search.fts, Nat) /\ IsPartial(search.rel, 0..One)
          /\ IsPartial(search.tally, Tallies)
        BY <2>1, PartialIs DEF Search, IsPartial
    <2>4. SearchTypeOK
        BY <2>1, <2>2, <2>3
           DEF SearchTypeOK, Search, Seeking, Judging, Answering
    <2> QED
        BY <2>1, <2>4 DEF TypeOK, TablesOK, ServerOK, WriterOK, VoterOK
<1> QED
    BY <1>1, SearchInvHolds, PTL

\* However far behind the search tables are, the caller of a search is shown no record
\* that was in the trash, or in the buffer of somebody else, all along
\* (_fetch_records_by_ids, get_record_relations).
THEOREM OnlyReadableIsShown == Spec => []ShownIsReadable
<1>1. ASSUME SearchInv PROVE ShownIsReadable
    <2>1. Done => search.answer \subseteq search.fetched
        BY <1>1, ShownWasFetched
    <2>2. search.peers \subseteq Records \X Records
        BY <1>1 DEF SearchInv, Types, Search
    <2> QED
        BY <1>1, <2>1, <2>2 DEF ShownIsReadable, SearchInv, Shown, Untouched
<1> QED
    BY <1>1, SearchInvHolds, PTL

\* A sound record that is relevant enough, that the tables knew and that nobody touched is
\* a hit unless the answer is full of records ranked before it, and grouping by cases
\* loses no hit to one ranked behind it (search_records, _context_payload).
THEOREM SoundHitsAreAnswered == Spec => []SoundHitsAnswered
<1>1. SearchInv => SoundHitsAnswered
    BY NothingSoundIsMissed, BestIsAnswered DEF SoundHitsAnswered
<1> QED
    BY <1>1, SearchInvHolds, PTL

\* Votes that leave a record standing never put it behind one that is less relevant by
\* epsilon, whatever settings validate_ranking_config lets through (score_one).
THEOREM GapAlwaysStands == Spec => []RelevanceGapStands
<1> QED
    BY GapStands, SearchInvHolds, PTL

\* A record that was clearly wrong all along is hidden, or stands behind every sound hit,
\* and a source that does not stand is warned of (correctness_label, lineage_warnings).
THEOREM DoubtsAreShown == Spec => []DoubtsShow
<1>1. SearchInv => DoubtsShow
    BY WrongOnesSink, SourcesAreWarned DEF DoubtsShow
<1> QED
    BY <1>1, SearchInvHolds, PTL

\* What a search shows its caller, ma3_locate_by_id, ma3_case and the record's page let
\* the caller open, while nobody touches it (_record_visible, can_read_record).
THEOREM AnswersAlwaysOpen == Spec => []AnswerOpens
<1>1. ASSUME SearchInv PROVE AnswerOpens
    <2>1. Done => search.answer \subseteq search.fetched
        BY <1>1, ShownWasFetched
    <2> QED
        BY <1>1, <2>1 DEF AnswerOpens, SearchInv, Shown, Untouched
<1> QED
    BY <1>1, SearchInvHolds, PTL
=============================================================================
