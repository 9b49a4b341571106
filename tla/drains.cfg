SPECIFICATION FairSpec
CONSTANTS
    Servers = {s1}
    Threads = {t1}
    Ids = {r1}
    Never = Never
    Nobody = Nobody
    Host <- MCHost
    Protected = TRUE
    Retention = 1
    Embeddings = FALSE
    MaxTime = 2
    Offered <- AllAndCrashes
    BufferHours = {1, 2}
    MaxEdits = 1
    MaxFaults = 1
CHECK_DEADLOCK FALSE
PROPERTIES
    BufferedLeaves
