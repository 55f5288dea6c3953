CONSTANTS
    a1 = a1
    a2 = a2
    c1 = c1
    c2 = c2
    Agents = {a1, a2}
    Clients = {c1, c2}
    Openers = {a1, a2}
    MaxInputs = 2
    MaxCancels = 1
    MaxCrashes = 0
    MaxFaults = 1
SPECIFICATION Spec
SYMMETRY RoomSymmetry
INVARIANTS
    ReplayAgrees
    CloseReachesEveryLane
    CancelledWasAsked
CHECK_DEADLOCK FALSE
