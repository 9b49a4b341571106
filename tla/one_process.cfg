SPECIFICATION Spec
CONSTANTS
    Servers = {s1}
    Threads = {t1}
    Ids = {r1}
    Never = Never
    Nobody = Nobody
    Host <- MCHost
    Protected = TRUE
    Retention = 1
    Embeddings = TRUE
    MaxTime = 2
    Offered <- AllAndFailures
    BufferHours = {0, 1}
    MaxEdits = 1
    MaxFaults = 1
CHECK_DEADLOCK FALSE
INVARIANTS
    IndexNeverAhead
PROPERTIES
    PublishedTextFrozen
    PublishingSparesTrash
    KeepsPromise
