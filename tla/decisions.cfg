CONSTANTS
    a1 = a1
    a2 = a2
    r1 = r1
    r2 = r2
    p = p
    None = None
    Lanes = {a1, a2}
    Askers = {a1}
    Requests = {r1}
    Clients = {p}
    Offers <- SmallOffers
    Express = TRUE
    MaxFaults = 1
SPECIFICATION FairSpec
INVARIANTS
    GrantOnRecord
    ResolvedIsTold
    ExpressLeavesTrail
PROPERTY CancelEndsRequests
CHECK_DEADLOCK FALSE
