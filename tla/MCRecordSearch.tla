--------------------------- MODULE MCRecordSearch ---------------------------
(* Three records for the search of RecordSearch.tla: 1 is trusted, 2 waits  *)
(* in its author's buffer, 3 is in a library of the team, supersedes 1 and  *)
(* is one down-vote from being clearly wrong.                               *)
EXTENDS RecordSearch, TLC

MCReadable   == [c \in Callers |-> IF c = "member" THEN {"pub", "team"} ELSE {"pub"}]
MCMaintained == [c \in Callers |-> IF c = "member" THEN {"team"} ELSE {}]

MCProfile ==
    1 :> [library |-> "pub", author |-> "author", case |-> 1, cites |-> {},
          supersedes |-> FALSE, created |-> 1, ups |-> 8, downs |-> 0] @@
    2 :> [library |-> "pub", author |-> "author", case |-> 1, cites |-> {1},
          supersedes |-> FALSE, created |-> 3, ups |-> 0, downs |-> 0] @@
    3 :> [library |-> "team", author |-> "member", case |-> 2, cites |-> {1},
          supersedes |-> TRUE, created |-> 2, ups |-> 0, downs |-> 11]

\* "exact" passes one with its context and "off" passes rel_min with it.
MCScores ==
    [exact |-> [lexical |-> 9600, fulltext |-> 4, similarity |-> 9600,
                shares |-> {"task_type"}],
     near  |-> [lexical |-> 9500, fulltext |-> 2, similarity |-> 9500, shares |-> {}],
     off   |-> [lexical |-> 3333, fulltext |-> 1, similarity |-> 3333,
                shares |-> {"task_type"}]]

MCFirstRows ==
    1 :> [status |-> "active", text |-> "near"] @@
    2 :> [status |-> "buffered", text |-> "near"] @@
    3 :> [status |-> "active", text |-> "exact"]

\* Both values of search_hide_clearly_wrong, each with a search by vectors.
MCConfigured ==
    {<<"lexical", TRUE>>, <<"lexical", FALSE>>, <<"hybrid", TRUE>>, <<"vector", FALSE>>}

MCFirstLinks == {<<3, 1>>}
=============================================================================
