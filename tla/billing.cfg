SPECIFICATION FairSpec
CONSTANTS
    Workers = {w1, w2}
    Subs = {"s1", "s2"}
    NoSub = "none"
    Grace = 2
    Notices <- MCNotices
    MaxEvents = 3
    Scenes <- MCScenes
INVARIANTS
    AppliedOnce
    FollowsStripe
PROPERTIES
    RevokedAfterGrace
    UnpaidLosesReaders
