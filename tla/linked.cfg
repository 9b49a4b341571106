SPECIFICATION Spec
CONSTANTS
    Servers = {s1}
    Threads = {t1}
    Ids = {r1, r2}
    Never = Never
    Nobody = Nobody
    Host <- MCHost
    Protected = FALSE
    Retention = 1
    Embeddings = FALSE
    MaxTime = 1
    Offered <- LinkingRequests
    BufferHours = {0, 1}
    MaxEdits = 1
    MaxFaults = 0
CHECK_DEADLOCK FALSE
INVARIANTS
    PublishedIsLinked
SYMMETRY Symmetry
