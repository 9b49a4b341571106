SPECIFICATION Spec
CONSTANTS
    Servers = {s1, s2}
    Threads = {}
    Ids = {r1}
    Never = Never
    Nobody = Nobody
    Host <- MCHost
    Protected = FALSE
    Retention = 1
    Embeddings = TRUE
    MaxTime = 1
    Offered <- AllAndCrashes
    BufferHours = {0, 1}
    MaxEdits = 1
    MaxFaults = 1
CHECK_DEADLOCK FALSE
INVARIANTS
    DeletedLeavesTombstone
    RestartRepairs
    IndInv
