SPECIFICATION Spec
CONSTANTS
    Records = {1, 2, 3}
    Callers = {"author", "member", "anonymous"}
    Anonymous = "anonymous"
    Readable <- MCReadable
    Maintained <- MCMaintained
    Profile <- MCProfile
    NoCase = 0
    Texts = {"exact", "near", "off"}
    Scores <- MCScores
    FirstRows <- MCFirstRows
    FirstLinks <- MCFirstLinks
    RelMin = 3500
    Epsilon = 500
    Delta = 1000
    QVerified = 200
    QLean = 200
    TFloor = 25
    TMid = 50
    THigh = 65
    ZSquare = 384
    Configured <- MCConfigured
    PoolLimit = 2
    ScanLimit = 2
    MaxCases = 1
    PerCase = 2
    MaxChanges = 2
    MaxFaults = 1
INVARIANTS
    ShownIsReadable
    SoundHitsAnswered
    RelevanceGapStands
    DoubtsShow
    AnswerOpens
