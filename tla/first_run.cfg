SPECIFICATION Spec
CONSTANTS
    Workers = {w1, w2}
    Names = {alice, bob}
    Titles = {t1, t2}
    Odd = {t2}
    Nobody = Nobody
    Empty = Empty
    EnvAdmins = {}
    EnvOpen = TRUE
    MaxRequests = 4
    MaxKeys = 2
    MaxCrashes = 1
SYMMETRY Symmetry
CHECK_DEADLOCK FALSE
INVARIANTS
    AdminRemains
    AccountIsReady
    KeyFileOpens
PROPERTIES
    TitleStands
    SetupStands
