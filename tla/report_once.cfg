SPECIFICATION Spec
CONSTANTS
    Servers = {s1, s2}
    Ids = {r1, r2, r3}
    NoId = NoId
    Keys = {k1}
    NoKey = NoKey
    Bodies = {"small", "large", "other"}
    Libraries = {"first", "second"}
    LibraryOf <- MCLibraryOf
    Size <- MCSize
    Quota <- MCQuota
    Nobody = Nobody
    MaxReports = 3
SYMMETRY Symmetry
CHECK_DEADLOCK FALSE
INVARIANTS
    OneRecordPerKey
    AnswersAgree
    CounterFollows
    OvershootBounded
