---------------------------- MODULE RecordSearch ----------------------------
(***************************************************************************)
(* A search, ma3_context of services/mcp_tool_service.py, from the pool of *)
(* candidates (storage/search.py) over the ranking (storage/ranking.py) to *)
(* the answer, while records are published, edited, trashed, restored and  *)
(* erased, and votes are cast.                                             *)
(*                                                                         *)
(* A search is ten or so transactions: the candidates come from the search *)
(* tables, which follow the records some transactions later, the votes,    *)
(* the supersessions and the rows from reads of their own.  Each read is   *)
(* one action here; one search, one writer and one voter interleave.  The  *)
(* publication of due records a search begins with is among the writer's   *)
(* (RecordLifecycle has it in full, and writers that overlap).             *)
(*                                                                         *)
(* Abstractions.  A text is a model value, Scores says how well it matches *)
(* the one query there is.  Scores are counted in ten-thousandths, rounded *)
(* down, votes and thresholds of votes in hundredths.  Drafts and invalid  *)
(* records are left out: no search reads them.  So is the server's own     *)
(* administrator, who opens every record.                                  *)
(***************************************************************************)
EXTENDS Integers, FiniteSets

CONSTANTS
    Records,       \* record ids: numbers stand for their order as strings
    Callers,       \* who searches and votes
    Anonymous,     \* the caller without a principal
    Readable,      \* [Callers -> the libraries the token reads]
    Maintained,    \* [Callers -> the libraries the token maintains]
    Profile,       \* what never changes of a record, see SearchAssumption
    NoCase,        \* SQL NULL in case_id
    Texts,
    Scores,        \* how a text matches the query, by each of the searches
    FirstRows,     \* the table records at first
    FirstLinks,    \* the table record_relations at first
    RelMin, Epsilon, Delta, QVerified, QLean,   \* settings.search_*
    TFloor, TMid, THigh,                        \* settings.search_t_*
    ZSquare,       \* the square of settings.search_wilson_z, in hundredths
    Configured,    \* what a server may be configured with: its mode, and hide
    PoolLimit,     \* max(limit * 4, 40)
    ScanLimit,     \* settings.vector_scan_limit
    MaxCases, PerCase,                          \* of the request
    MaxChanges,    \* bound of the changes and votes while the model runs
    MaxFaults      \* bound of the failures

One == 10000

Modes == {"lexical", "hybrid", "vector"}

Statuses == {"active", "buffered", "trashed", "gone"}
Row      == [status : Statuses, text : Texts]

\* The settings validate_ranking_config lets a server start with.
RankingConfigValid ==
    /\ 2 * QVerified < Epsilon /\ 2 * QLean < Epsilon /\ Epsilon < Delta
    /\ TFloor < TMid /\ TMid < THigh /\ THigh <= 100
    /\ 0 < RelMin /\ RelMin <= One

ASSUME SearchAssumption ==
    /\ Records \subseteq Nat
    /\ IsFiniteSet(Records) /\ IsFiniteSet(Callers)
    /\ Anonymous \in Callers
    /\ FirstRows \in [Records -> Row]
    /\ FirstLinks \subseteq Records \X Records
    /\ \A r \in Records : /\ Profile[r].author \in Callers \ {Anonymous}
                          /\ Profile[r].cites \subseteq Records
                          /\ Profile[r].supersedes \in BOOLEAN
                          /\ Profile[r].created \in Nat
                          /\ Profile[r].ups \in Nat
                          /\ Profile[r].downs \in Nat
    /\ \A r, s \in Records : Profile[r].case = Profile[s].case /\ Profile[r].case # NoCase
                             => Profile[r].library = Profile[s].library
    /\ \A t \in Texts : /\ Scores[t].lexical \in 0..One
                        /\ Scores[t].fulltext \in Nat
                        /\ Scores[t].similarity \in 0..One
    /\ {RelMin, Epsilon, Delta, QVerified, QLean, TFloor, TMid, THigh} \subseteq Nat
    /\ RankingConfigValid
    /\ ZSquare \in Nat
    /\ Configured \subseteq Modes \X BOOLEAN
    /\ {PoolLimit, ScanLimit, MaxCases, PerCase} \subseteq Nat \ {0}
    /\ MaxCases * PerCase <= PoolLimit
    /\ {MaxChanges, MaxFaults} \subseteq Nat

VARIABLES
    rows,     \* table records
    index,    \* table record_search_index
    vectors,  \* table record_embeddings
    links,    \* table record_relations: source and target
    ballots,  \* table record_feedback, without the ballots Profile counts
    mode,     \* what embeddings and database the server is configured with
    hide,     \* settings.search_hide_clearly_wrong
    writer,   \* the request that changes a record
    voter,    \* the request that votes
    search,   \* the search
    touched,  \* history: records changed or voted on since the search began
    lagged,   \* history: records the search tables were behind at that moment
    left      \* what remains of MaxChanges and MaxFaults

tables == <<rows, index, vectors, links, ballots>>
server == <<mode, hide>>
vars   == <<tables, server, writer, voter, search, touched, lagged, left>>

-----------------------------------------------------------------------------
(* Visibility.                                                             *)

\* The WHERE clause of every query of the search.
Visible(row, r, c) ==
    /\ Profile[r].library \in Readable[c]
    /\ \/ row.status = "active"
       \/ row.status = "buffered" /\ Profile[r].author = c

\* Mistake: the search tables have looked at the status already.
FetchedAnyStatus(S, c) == {r \in S : /\ rows[r].status # "gone"
                                     /\ Profile[r].library \in Readable[c]}

\* _fetch_records_by_ids: what the candidates S are by now.
Fetched(S, c) == {r \in S : Visible(rows[r], r, c)}

\* Mistake: a buffered record is its maintainer's, as a draft is.
RecordVisibleToMaintainer(r, c) ==
    /\ Profile[r].library \in Readable[c]
    /\ CASE rows[r].status = "active" -> TRUE
         [] rows[r].status = "gone"   -> FALSE
         [] OTHER -> Profile[r].library \in Maintained[c]

\* The condition of ma3_locate_by_id and ma3_case.
RecordVisible(r, c) ==
    /\ Profile[r].library \in Readable[c]
    /\ \/ rows[r].status = "active"
       \/ rows[r].status = "buffered" /\ Profile[r].author = c
       \/ rows[r].status = "trashed" /\ \/ Profile[r].library \in Maintained[c]
                                        \/ Profile[r].author = c

\* The condition of the record's page: a maintainer sees no trash there.
CanReadRecord(r, c) ==
    /\ c # Anonymous
    /\ Profile[r].library \in Readable[c]
    /\ \/ rows[r].status = "active"
       \/ rows[r].status \in {"buffered", "trashed"} /\ Profile[r].author = c

-----------------------------------------------------------------------------
(* Relevance.                                                              *)

Empty == [r \in {} |-> 0]

Keep(f, S) == [r \in S |-> f[r]]

Least(m, n) == IF m < n THEN m ELSE n
Most(m, n)  == IF m < n THEN n ELSE m

\* What a query that ends in LIMIT n without an order may return of S.
Cuts(S, n) == {P \in SUBSET S : Cardinality(P) = Least(Cardinality(S), n)}

\* The same under ORDER BY f DESC.
TopCuts(f, n) ==
    {P \in Cuts(DOMAIN f, n) : \A a \in P, b \in DOMAIN f \ P : f[a] >= f[b]}

Largest(f) == CHOOSE m \in {f[r] : r \in DOMAIN f} : \A r \in DOMAIN f : f[r] <= m

\* _normalize_scores
Normalized(f) ==
    IF f = Empty \/ Largest(f) = 0 THEN f
    ELSE [r \in DOMAIN f |-> (f[r] * One) \div Largest(f)]

\* The fusion of _hybrid_relevance: full text alone is worth half.
Fused(fts, vec) ==
    LET norm == Normalized(fts)
        F(r) == IF r \in DOMAIN norm THEN norm[r] ELSE 0
        V(r) == IF r \in DOMAIN vec THEN vec[r] ELSE 0
    IN  [r \in DOMAIN fts \cup DOMAIN vec |->
            IF V(r) = 0 THEN F(r) \div 2
            ELSE Most(V(r), (4 * F(r) + 6 * V(r)) \div 10)]

\* context_boost: what of the request's context the payload shares.
Factor(t) ==
    LET Times(x, m, w) == IF m \in Scores[t].shares THEN (x * w) \div 100 ELSE x
        task      == Times(One, "task_type", 110)
        product   == Times(task, "product", 115)
        component == Times(product, "component", 110)
        tags      == Times(component, "tags", 110)
        applies   == Times(tags, "applicable_if", 110)
    IN  Times(applies, "not_applicable_if", 50)

\* A score with its context factor, clamped to at most one.
Boosted(score, factor) == Least(One, (score * factor) \div One)

-----------------------------------------------------------------------------
(* Ranking: s is the search, whose rel, tally and sunk the reads filled.   *)

\* wilson_bounds without the square root: the bounds are where the share of
\* up-votes lies ZSquare away from t, so each comparison is one of squares.
Far(up, n, t) == 100 * (n * t - 100 * up) * (n * t - 100 * up)
Near(n, t)    == ZSquare * t * (100 - t) * n

UpperAtMost(up, n, t)  == n > 0 /\ 100 * up <= n * t /\ Far(up, n, t) >= Near(n, t)
UpperBelow(up, n, t)   == n > 0 /\ 100 * up < n * t /\ Far(up, n, t) > Near(n, t)
LowerAtLeast(up, n, t) == n > 0 /\ 100 * up >= n * t /\ Far(up, n, t) >= Near(n, t)

\* Mistake: the votes come before the supersession.
LabelByVotes(tally, superseded) ==
    LET n == tally.up + tally.down
    IN  CASE LowerAtLeast(tally.up, n, THigh) -> "verified"
          [] superseded \/ UpperAtMost(tally.up, n, TFloor) -> "clearly_wrong"
          [] UpperBelow(tally.up, n, TMid) -> "leaning_wrong"
          [] OTHER -> "unknown"

\* correctness_label
Label(tally, superseded) ==
    LET n == tally.up + tally.down
    IN  IF superseded \/ UpperAtMost(tally.up, n, TFloor) THEN "clearly_wrong"
        ELSE IF LowerAtLeast(tally.up, n, THigh) THEN "verified"
        ELSE IF UpperBelow(tally.up, n, TMid) THEN "leaning_wrong"
        ELSE "unknown"

IsWrong(s, r) == Label(s.tally[r], r \in s.sunk) = "clearly_wrong"

\* Mistake: a vote is worth as much as relevance can be close.
QOfVotes(label) ==
    CASE label = "verified"      -> Epsilon
      [] label = "leaning_wrong" -> -Epsilon
      [] OTHER                   -> 0

\* q_adjust
QAdjust(label) ==
    CASE label = "verified"      -> QVerified
      [] label = "leaning_wrong" -> -QLean
      [] OTHER                   -> 0

\* score_one: what is clearly wrong is capped below rel_min.
FinalScore(s, r) ==
    IF IsWrong(s, r) THEN Least(s.rel[r], RelMin - Delta)
    ELSE s.rel[r] + QAdjust(Label(s.tally[r], r \in s.sunk))

\* _sort_key: the newer record first (recency falls with age), then the id.
Ahead(s, a, b) ==
    IF IsWrong(s, a) # IsWrong(s, b) THEN IsWrong(s, b)
    ELSE IF FinalScore(s, a) # FinalScore(s, b) THEN FinalScore(s, a) > FinalScore(s, b)
    ELSE IF Profile[a].created # Profile[b].created
         THEN Profile[a].created > Profile[b].created
    ELSE a < b

\* The first n of S as the ranking orders it.
First(s, S, n) == {r \in S : Cardinality({x \in S : Ahead(s, x, r)}) < n}

Limit == MaxCases * PerCase

\* The end of search_records, over the rows S it could fetch.
Hits(s, S) == First(s, {r \in S : hide => ~IsWrong(s, r)}, Limit)

InCase(S, k) == {r \in S : Profile[r].case = k}

\* Mistake: the cases are numbered, not ranked.
AnswerByCase(s) ==
    LET cases == {Profile[r].case : r \in s.hits} \ {NoCase}
        some  == {k \in cases : Cardinality({j \in cases : j < k}) < MaxCases}
    IN  UNION {First(s, InCase(s.hits, k), PerCase) : k \in some \cup {NoCase}}

\* The grouping of _context_payload: a case stands where its best hit does.
Answer(s) ==
    LET heads == UNION {First(s, InCase(s.hits, Profile[r].case), 1) : r \in s.hits}
        first == First(s, {r \in heads : Profile[r].case # NoCase}, MaxCases)
        some  == {Profile[r].case : r \in first} \cup {NoCase}
    IN  UNION {First(s, InCase(s.hits, k), PerCase) : k \in some}

-----------------------------------------------------------------------------
(* The steps of a search.                                                  *)

NoSearch ==
    [pc |-> "idle", caller |-> Anonymous, pool |-> {}, fts |-> Empty,
     rel |-> Empty, sunk |-> {}, tally |-> Empty, fetched |-> {}, hits |-> {},
     unread |-> {}, warned |-> {}, peers |-> {}, answer |-> {},
     missed |-> {}, opened |-> {}]

\* A row that is not there keeps the status "gone".
Indexed(r)  == index[r].status # "gone"
Embedded(r) == vectors[r].status # "gone"

Behind == {r \in Records : \/ index[r] # rows[r]
                           \/ mode # "lexical" /\ vectors[r] # rows[r]}

FirstStep == CASE mode = "lexical" -> "candidates"
               [] mode = "hybrid"  -> "fulltext"
               [] mode = "vector"  -> "list"

Tally(r) ==
    [up   |-> Profile[r].ups   + Cardinality({c \in Callers : ballots[r][c] = 1}),
     down |-> Profile[r].downs + Cardinality({c \in Callers : ballots[r][c] = -1})]

Quiet == UNCHANGED <<tables, server, writer, voter, touched, lagged, left>>

\* Something outside the program fails, or a query does.
Fault == /\ left.faults > 0
               /\ left' = [left EXCEPT !.faults = @ - 1]

SearchBegins(c) ==
    /\ search.pc = "idle"
    /\ search' = [NoSearch EXCEPT !.pc = FirstStep, !.caller = c]
    /\ touched' = {}
    /\ lagged' = Behind
    /\ UNCHANGED <<tables, server, writer, voter, left>>

\* Nothing is relevant: search_records returns before it reads any more.
Scored(s, rel) ==
    IF rel = Empty THEN [s EXCEPT !.pc = "done", !.pool = {}, !.fts = Empty]
    ELSE [s EXCEPT !.pc = "boost", !.rel = rel, !.pool = {}, !.fts = Empty]

\* The rows whose search_text holds a word, in no order.
FindCandidates ==
    /\ search.pc = "candidates"
    /\ LET found == {r \in Records : /\ Indexed(r)
                                     /\ Visible(index[r], r, search.caller)
                                     /\ Scores[index[r].text].lexical > 0}
       IN  \E P \in Cuts(found, PoolLimit) :
               search' = [search EXCEPT !.pc = "lexical", !.pool = P,
                                        !.missed = @ \cup (found \ P)]
    /\ Quiet

\* They are scored by the text the record has by then.
ScoreCandidates ==
    /\ search.pc = "lexical"
    /\ LET found == {r \in Fetched(search.pool, search.caller) :
                       Scores[rows[r].text].lexical > 0}
       IN  search' = Scored(search, [r \in found |-> Scores[rows[r].text].lexical])
    /\ Quiet

ReadFulltext ==
    /\ search.pc = "fulltext"
    /\ LET found == {r \in Records : /\ Indexed(r)
                                     /\ Visible(index[r], r, search.caller)
                                     /\ Scores[index[r].text].fulltext > 0}
           f     == [r \in found |-> Scores[index[r].text].fulltext]
       IN  \E P \in TopCuts(f, PoolLimit) :
               search' = [search EXCEPT !.pc = "ann", !.fts = Keep(f, P)]
    /\ Quiet

\* Both forms of the query fail: the exception is swallowed.
FulltextFails ==
    /\ search.pc = "fulltext"
    /\ Fault
    /\ search' = [search EXCEPT !.pc = "ann"]
    /\ UNCHANGED <<tables, server, writer, voter, touched, lagged>>

\* What the vectors say is joined to what the full text said, if anything.
WithVectors(s, vec) ==
    IF mode = "hybrid" THEN Scored(s, Fused(s.fts, vec))
    ELSE IF vec = Empty THEN [s EXCEPT !.pc = "candidates", !.pool = {}]
    ELSE Scored(s, vec)

\* ann_vector_search, by status and author in the table of vectors.  The scan of
\* the HNSW index is approximate, and looks at the WHERE of what it has come upon
\* only: it may miss any record, with its places not even full.
ReadNeighbours ==
    /\ search.pc = "ann"
    /\ LET near == {r \in Records : /\ Embedded(r)
                                    /\ Visible(vectors[r], r, search.caller)
                                    /\ Scores[vectors[r].text].similarity > 0}
       IN  \E P \in SUBSET near :
               /\ Cardinality(P) <= PoolLimit
               /\ search' = WithVectors([search EXCEPT !.missed = @ \cup (near \ P)],
                                        [r \in P |-> Scores[vectors[r].text].similarity])
    /\ Quiet

\* pgvector is missing or fails: the vectors are scanned.
NeighboursFail ==
    /\ search.pc = "ann"
    /\ Fault
    /\ search' = [search EXCEPT !.pc = "list"]
    /\ UNCHANGED <<tables, server, writer, voter, touched, lagged>>

\* embed_text returns None: the search does without vectors.
EmbedderFails ==
    /\ search.pc \in {"ann", "list"}
    /\ Fault
    /\ search' = WithVectors([search EXCEPT !.missed = Records], Empty)
    /\ UNCHANGED <<tables, server, writer, voter, touched, lagged>>

\* _list_searchable_record_ids: the newest, up to the scan limit.
ListNewest ==
    /\ search.pc = "list"
    /\ LET found == {r \in Records : Visible(rows[r], r, search.caller)}
           f     == [r \in found |-> Profile[r].created]
       IN  \E P \in TopCuts(f, ScanLimit) :
               search' = LET s == [search EXCEPT !.missed = @ \cup (found \ P)]
                         IN  IF P = {} THEN WithVectors(s, Empty)
                             ELSE [s EXCEPT !.pc = "scan", !.pool = P]
    /\ Quiet

ScanVectors ==
    /\ search.pc = "scan"
    /\ LET found == {r \in search.pool : Embedded(r)}
           f     == [r \in found |-> Scores[vectors[r].text].similarity]
       IN  \E P \in TopCuts(f, PoolLimit) :
               search' = WithVectors([search EXCEPT !.missed = @ \cup (found \ P)],
                                     Keep(f, P))
    /\ Quiet

\* Payloads are read for the context; what is not visible now has none.
BoostAndGate ==
    /\ search.pc = "boost"
    /\ LET seen == Fetched(DOMAIN search.rel, search.caller)
           F(r) == IF r \in seen THEN Factor(rows[r].text) ELSE One
           B(r) == Boosted(search.rel[r], F(r))
           kept == {r \in DOMAIN search.rel : B(r) >= RelMin}
       IN  search' = [search EXCEPT !.rel = [r \in kept |-> B(r)],
                                    !.pc = IF kept = {} THEN "done" ELSE "superseded"]
    /\ Quiet

\* Mistake: a record that is in the trash still supersedes.
SupersededByAny(S, c) ==
    {t \in S : \E s \in Records : /\ <<s, t>> \in links
                                  /\ Profile[s].supersedes
                                  /\ Profile[s].library \in Readable[c]}

\* get_superseded_record_ids
Superseded(S, c) ==
    {t \in S : \E s \in Records : /\ <<s, t>> \in links
                                  /\ Profile[s].supersedes
                                  /\ rows[s].status = "active"
                                  /\ Profile[s].library \in Readable[c]}

ReadSuperseded ==
    /\ search.pc = "superseded"
    /\ search' = [search EXCEPT !.pc = "votes",
                                !.sunk = Superseded(DOMAIN search.rel, search.caller)]
    /\ Quiet

ReadVotes ==
    /\ search.pc = "votes"
    /\ search' = [search EXCEPT !.pc = "rows",
                                !.tally = [r \in DOMAIN search.rel |-> Tally(r)]]
    /\ Quiet

\* The rows are fetched, ranked, hidden and cut.
FetchAndRank ==
    /\ search.pc = "rows"
    /\ LET fetched == Fetched(DOMAIN search.rel, search.caller)
           hits    == Hits(search, fetched)
       IN  search' = [search EXCEPT !.fetched = fetched, !.hits = hits,
                                    !.pc = IF hits = {} THEN "done" ELSE "attach"]
    /\ Quiet

\* attach_feedback_to_records reads the votes again, for show.
AttachFeedback ==
    /\ search.pc = "attach"
    /\ search' = [search EXCEPT !.pc = "lineage",
                                !.unread = {p \in Records \X Records :
                                               /\ p[1] \in search.hits
                                               /\ p[2] \in Profile[p[1]].cites}]
    /\ Quiet

\* Mistake: only a record that is gone is warned of.
BrokenIfGone(t) == rows[t].status = "gone"

\* lineage_warnings says something of every source that is not active.
Broken(t) == rows[t].status # "active"

\* One get_record for each source of each hit.
CheckSource(p) ==
    /\ search.pc = "lineage"
    /\ p \in search.unread
    /\ search' = [search EXCEPT !.unread = @ \ {p},
                                !.warned = IF Broken(p[2]) THEN @ \cup {p} ELSE @]
    /\ Quiet

\* get_record_relations, and the answer is put together.
ReadRelations ==
    /\ search.pc = "lineage"
    /\ search.unread = {}
    /\ LET named(a, b) == /\ a \in search.hits
                          /\ Profile[b].library \in Readable[search.caller]
                          /\ rows[b].status \notin {"buffered", "gone"}
       IN  search' = [search EXCEPT
               !.peers = {p \in Records \X Records :
                             /\ p \in links \/ <<p[2], p[1]>> \in links
                             /\ named(p[1], p[2])},
               !.answer = Answer(search),
               !.pc = "done"]
    /\ Quiet

\* The caller opens a record of the answer.
Opens(r, found) ==
    /\ search.pc = "done"
    /\ r \in search.answer
    /\ search' = [search EXCEPT !.opened = {<<r, found>>}]
    /\ Quiet

\* ma3_locate_by_id
Locate(r) == Opens(r, RecordVisible(r, search.caller))

\* ma3_case leaves out the records of the case the caller may not see.  That the case
\* is in a library he reads is the same question, the record being of that library.
OpenCase(r) == /\ Profile[r].case # NoCase
               /\ Opens(r, RecordVisible(r, search.caller))

\* Its page, for whoever is signed in.
OpenPage(r) == /\ search.caller # Anonymous
               /\ Opens(r, CanReadRecord(r, search.caller))

SearchEnds ==
    /\ search.pc = "done"
    /\ search' = NoSearch
    /\ touched' = {}
    /\ lagged' = {}
    /\ UNCHANGED <<tables, server, writer, voter, left>>

-----------------------------------------------------------------------------
(* The requests that change what a search reads.                           *)

NoWriter == [step |-> "idle", rec |-> 0, links |-> FALSE]
NoVoter  == [step |-> "idle", rec |-> 0, by |-> Anonymous, vote |-> 0]

Touch(S) == touched' = IF search.pc = "idle" THEN {} ELSE touched \cup S

\* The UPDATE of the record, after which its copies are behind.
Changes(r, row, step, linked) ==
    /\ writer.step = "idle"
    /\ left.changes > 0
    /\ left' = [left EXCEPT !.changes = @ - 1]
    /\ rows' = [rows EXCEPT ![r] = row]
    /\ writer' = [step |-> step, rec |-> r, links |-> linked]
    /\ Touch({r})
    /\ UNCHANGED <<index, vectors, links, ballots, server, voter, search, lagged>>

Publish(r) ==
    /\ rows[r].status = "buffered"
    /\ Changes(r, [rows[r] EXCEPT !.status = "active"], "index", TRUE)

Edit(r, t) ==
    /\ rows[r].status = "buffered"
    /\ t # rows[r].text
    /\ Changes(r, [rows[r] EXCEPT !.text = t], "index", FALSE)

Trash(r) ==
    /\ rows[r].status \in {"active", "buffered"}
    /\ Changes(r, [rows[r] EXCEPT !.status = "trashed"], "index", FALSE)

Restore(r) ==
    /\ rows[r].status = "trashed"
    /\ Changes(r, [rows[r] EXCEPT !.status = "active"], "index", FALSE)

\* hard_delete_record: the copies go after the record.
Erase(r) ==
    /\ rows[r].status # "gone"
    /\ Changes(r, [rows[r] EXCEPT !.status = "gone"], "unvector", FALSE)

AfterCopies == IF writer.links THEN [writer EXCEPT !.step = "links"] ELSE NoWriter

SyncIndex ==
    /\ writer.step = "index"
    /\ index' = [index EXCEPT ![writer.rec] = rows[writer.rec]]
    /\ writer' = IF mode = "lexical" THEN AfterCopies ELSE [writer EXCEPT !.step = "vector"]
    /\ UNCHANGED <<rows, vectors, links, ballots, server, voter, search, touched,
                   lagged, left>>

SyncVector ==
    /\ writer.step = "vector"
    /\ vectors' = [vectors EXCEPT ![writer.rec] = rows[writer.rec]]
    /\ writer' = AfterCopies
    /\ UNCHANGED <<rows, index, links, ballots, server, voter, search, touched,
                   lagged, left>>

\* insert_record_relations, by whoever published.
InsertLinks ==
    /\ writer.step = "links"
    /\ LET cited == Profile[writer.rec].cites
       IN  /\ links' = links \cup {<<writer.rec, t>> : t \in cited}
           /\ Touch(cited)
    /\ writer' = NoWriter
    /\ UNCHANGED <<rows, index, vectors, ballots, server, voter, search, lagged, left>>

RemoveVector ==
    /\ writer.step = "unvector"
    /\ vectors' = [vectors EXCEPT ![writer.rec] = rows[writer.rec]]
    /\ writer' = [writer EXCEPT !.step = "unindex"]
    /\ UNCHANGED <<rows, index, links, ballots, server, voter, search, touched,
                   lagged, left>>

RemoveIndex ==
    /\ writer.step = "unindex"
    /\ index' = [index EXCEPT ![writer.rec] = rows[writer.rec]]
    /\ writer' = NoWriter
    /\ UNCHANGED <<rows, vectors, links, ballots, server, voter, search, touched,
                   lagged, left>>

\* A step fails or the writer's process dies: the copies stay behind.
WriterFails ==
    /\ writer.step # "idle"
    /\ Fault
    /\ writer' = NoWriter
    /\ UNCHANGED <<tables, server, voter, search, touched, lagged>>

\* apply_record_feedback looks at the record before it writes the ballot.
VoteChecked(c, r, v) ==
    /\ voter.step = "idle"
    /\ left.changes > 0
    /\ left' = [left EXCEPT !.changes = @ - 1]
    /\ c # Anonymous
    /\ rows[r].status \in {"active", "buffered"}
    /\ Profile[r].library \in Readable[c]
    /\ voter' = [step |-> "cast", rec |-> r, by |-> c, vote |-> v]
    /\ UNCHANGED <<tables, server, writer, search, touched, lagged>>

\* The button on the record's page, which is there for active records.
PortalVoteChecked(c, r, v) == rows[r].status = "active" /\ VoteChecked(c, r, v)

\* One row for each record and principal: a second vote replaces the first.
VoteCast ==
    /\ voter.step = "cast"
    /\ ballots' = [ballots EXCEPT ![voter.rec][voter.by] = voter.vote]
    /\ Touch({voter.rec})
    /\ voter' = NoVoter
    /\ UNCHANGED <<rows, index, vectors, links, server, writer, search, lagged, left>>

-----------------------------------------------------------------------------

Init ==
    /\ rows = FirstRows
    /\ index = FirstRows
    /\ \E s \in Configured : mode = s[1] /\ hide = s[2]
    /\ vectors = IF mode = "lexical"
                 THEN [r \in Records |-> [FirstRows[r] EXCEPT !.status = "gone"]]
                 ELSE FirstRows
    /\ links = FirstLinks
    /\ ballots = [r \in Records |-> [c \in Callers |-> 0]]
    /\ writer = NoWriter
    /\ voter = NoVoter
    /\ search = NoSearch
    /\ touched = {}
    /\ lagged = {}
    /\ left = [changes |-> MaxChanges, faults |-> MaxFaults]

SearchSteps ==
    \/ FindCandidates \/ ScoreCandidates
    \/ ReadFulltext \/ FulltextFails
    \/ ReadNeighbours \/ NeighboursFail \/ EmbedderFails
    \/ ListNewest \/ ScanVectors
    \/ BoostAndGate
    \/ ReadSuperseded \/ ReadVotes \/ FetchAndRank
    \/ AttachFeedback
    \/ \E p \in Records \X Records : CheckSource(p)
    \/ ReadRelations

Next ==
    \/ \E c \in Callers : SearchBegins(c)
    \/ SearchSteps
    \/ SearchEnds
    \/ \E r \in Records :
           \/ Locate(r) \/ OpenCase(r) \/ OpenPage(r)
           \/ Publish(r) \/ Trash(r) \/ Restore(r) \/ Erase(r)
           \/ \E t \in Texts : Edit(r, t)
           \/ \E c \in Callers, v \in {1, -1, 0} :
                  VoteChecked(c, r, v) \/ PortalVoteChecked(c, r, v)
    \/ SyncIndex \/ SyncVector \/ InsertLinks
    \/ RemoveVector \/ RemoveIndex \/ WriterFails
    \/ VoteCast

Spec == Init /\ [][Next]_vars

-----------------------------------------------------------------------------
(* Properties.                                                             *)

IsPartial(f, T) == DOMAIN f \subseteq Records /\ f \in [DOMAIN f -> T]

Tallies == [up : Nat, down : Nat]

SearchTypeOK ==
    /\ DOMAIN search = DOMAIN NoSearch
    /\ search.pc \in {"idle", "candidates", "lexical", "fulltext", "ann", "list",
                      "scan", "boost", "superseded", "votes", "rows", "attach",
                      "lineage", "done"}
    /\ search.caller \in Callers
    /\ IsPartial(search.fts, Nat)
    /\ IsPartial(search.rel, 0..One)
    /\ IsPartial(search.tally, Tallies)
    /\ {search.pool, search.sunk, search.fetched, search.hits, search.answer}
           \subseteq SUBSET Records
    /\ {search.unread, search.warned, search.peers} \subseteq SUBSET (Records \X Records)
    /\ search.missed \subseteq Records
    /\ search.opened \subseteq Records \X BOOLEAN

\* Types, and what the steps of a search have filled when they end.
TypeOK ==
    /\ rows \in [Records -> Row]
    /\ index \in [Records -> Row]
    /\ vectors \in [Records -> Row]
    /\ links \subseteq Records \X Records
    /\ ballots \in [Records -> [Callers -> {1, -1, 0}]]
    /\ mode \in Modes
    /\ hide \in BOOLEAN
    /\ writer \in [step : {"idle", "index", "vector", "links", "unvector", "unindex"},
                   rec : Nat, links : BOOLEAN]
    /\ writer.step # "idle" => writer.rec \in Records
    /\ voter \in [step : {"idle", "cast"}, rec : Nat, by : Callers, vote : {1, -1, 0}]
    /\ voter.step # "idle" => voter.rec \in Records
    /\ SearchTypeOK
    /\ touched \subseteq Records
    /\ lagged \subseteq Records
    /\ left \in [changes : Nat, faults : Nat]

Done == search.pc = "done"

Untouched == Records \ touched

\* A record that was in the trash, or in the buffer of somebody else, when
\* the search began and stayed there is not in the answer, however far
\* behind the search tables are; nor is a buffered record named as a source
\* or a follower of one that is (_fetch_records_by_ids, get_record_relations).
ShownIsReadable ==
    Done =>
        /\ \A r \in search.answer \cap Untouched : Visible(rows[r], r, search.caller)
        /\ \A p \in search.peers : p[2] \in Untouched =>
               /\ rows[p[2]].status # "buffered"
               /\ Profile[p[2]].library \in Readable[search.caller]

SupersededNow(r) ==
    \E s \in Records : /\ <<s, r>> \in links
                       /\ Profile[s].supersedes
                       /\ rows[s].status = "active"
                       /\ Profile[s].library \in Readable[search.caller]

\* Nothing that decides whether r is superseded changed during the search.
Settled(r) == /\ r \in Untouched
              /\ \A s \in Records : <<s, r>> \in links => s \in Untouched

WrongNow(r) ==
    \/ SupersededNow(r)
    \/ UpperAtMost(Tally(r).up, Tally(r).up + Tally(r).down, TFloor)

\* The relevance r has whatever else is in the pool.
OwnRelevance(r) ==
    Boosted(IF mode = "lexical" THEN Scores[rows[r].text].lexical
            ELSE Scores[rows[r].text].similarity,
            Factor(rows[r].text))

\* A record nobody touches, which the search tables know, the caller may read
\* and nothing makes wrong is among the hits when it is relevant enough,
\* unless as many hits as were asked for rank before it: what is hidden,
\* superseded only out of the caller's sight or in the trash takes no place
\* of it (search_records).  Exempt is what the reads of the candidates never gave
\* the search: a record that a LIMIT cut off, that the approximate scan of the
\* vectors missed, or all of them when there was no embedding of the query.
NothingSoundMissed ==
    Done =>
        \A r \in Records \ (lagged \cup search.missed) :
            /\ Settled(r)
            /\ Visible(rows[r], r, search.caller)
            /\ ~WrongNow(r)
            /\ OwnRelevance(r) >= RelMin
            => \/ r \in search.hits
               \/ /\ r \in search.fetched
                  /\ Cardinality(search.hits) = Limit
                  /\ \A x \in search.hits : Ahead(search, x, r)

\* However the votes fall, a record they leave standing is neither cut nor
\* placed behind another that is less relevant by epsilon (ranking.py: "keeps
\* it from flipping a relevance gap of epsilon").
RelevanceGapStands ==
    Done => \A a \in search.fetched, b \in search.hits :
        /\ ~IsWrong(search, a)
        /\ search.rel[a] >= search.rel[b] + Epsilon
        => a \in search.hits /\ Ahead(search, a, b)

\* A record that was clearly wrong all along, by its votes or because one the
\* caller may read supersedes it, is not a hit, or where such records are not
\* hidden stands behind every hit that is sound, whatever its up-votes
\* (correctness_label, get_superseded_record_ids).
WrongSinks ==
    Done => \A r \in search.hits :
        Settled(r) /\ WrongNow(r) =>
            /\ ~hide
            /\ \A x \in search.hits : ~IsWrong(search, x) => Ahead(search, x, r)

\* An answer warns of every source of its records that was not active when
\* the search began and was left so: trashed, erased or not yet public
\* (lineage_warnings).
LineageIsWarned ==
    Done => \A r \in search.answer : \A t \in Profile[r].cites \cap Untouched :
        rows[t].status # "active" => <<r, t>> \in search.warned

\* Grouping by cases drops no hit for one that ranks behind it in the same
\* case, and never the best of all (_context_payload).
BestHitIsAnswered ==
    Done => \A r \in search.hits \ search.answer :
        /\ \E x \in search.answer : Ahead(search, x, r)
        /\ \A x \in search.answer : Profile[x].case = Profile[r].case => Ahead(search, x, r)

\* What a search answered and nobody touched, its caller can open, with the
\* tool and on the page, each of which has a condition of its own
\* (_record_visible, can_read_record).
AnswerOpens ==
    Done => \A r \in search.answer \cap Untouched : <<r, FALSE>> \notin search.opened

\* No sound record is lost between the candidates and the answer: neither in the
\* ranking nor in the grouping by cases.
SoundHitsAnswered == NothingSoundMissed /\ BestHitIsAnswered

\* What speaks against a record shows in the answer: in the place of a wrong record,
\* and in a warning for a source that does not stand.
DoubtsShow == WrongSinks /\ LineageIsWarned

=============================================================================
