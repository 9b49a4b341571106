SPECIFICATION Spec
CONSTANTS
    People = {p1, p2, p3}
    p1 = p1
    Founder = p1
    Invites = {i1}
    Workers = {w1, w2}
    Plans = {"team_stub", "lesser"}
    FirstPlan = "team_stub"
    Seats <- MCSeats
    Accounts <- MCAccounts
    Lifetimes = {1}
    MaxUses = 2
    MaxTime = 1
    Never = Never
    NoInvite = NoInvite
    Nobody = Nobody
SYMMETRY Symmetry
INVARIANTS
    OverusedOnceAtMost
    RedemptionsPaid
PROPERTIES
    AdmissionFitsPlan
