SPECIFICATION Spec
CONSTANTS
    Servers = {s1}
    Threads = {}
    Ids = {r1, r2}
    Never = Never
    Nobody = Nobody
    Host <- MCHost
    Protected = TRUE
    Retention = 1
    Embeddings = TRUE
    MaxTime = 2
    Offered <- AllRequests
    BufferHours = {0, 1}
    MaxEdits = 1
    MaxFaults = 0
CHECK_DEADLOCK FALSE
INVARIANTS
    SearchTablesFollow
    AnswerIsTrue
PROPERTIES
    TimerIsKept
SYMMETRY Symmetry
