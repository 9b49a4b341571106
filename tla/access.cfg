SPECIFICATION Spec
CONSTANTS
    s1 = s1
    s2 = s2
    k2 = k2
    k3 = k3
    Servers = {s1, s2}
    Threads = {t1}
    Open = {"shared"}
    Private = {"closed"}
    Keys = {k1, k2, k3}
    NoKey = NoKey
    Codes = {c1, c2}
    OldCode = c1
    Offers <- MCOffers
    KeyLimit = 2
    FirstKey = k1
    Limit = 1
    Found = {0, 11}
    MaxMonths = 2
    MaxEvents = 3
    MaxTroubles = 1
SYMMETRY Symmetry
CHECK_DEADLOCK FALSE
INVARIANTS
    FindsWhatIsHeld
    KeysAsAsked
    OneTokenPerCode
    UsageAddsUp
