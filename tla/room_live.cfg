CONSTANTS
    a1 = a1
    c1 = c1
    c2 = c2
    Agents = {a1}
    Clients = {c1, c2}
    Openers = {a1}
    MaxInputs = 2
    MaxCancels = 0
    MaxCrashes = 1
    MaxFaults = 0
SPECIFICATION FairSpec
INVARIANTS
    NothingSkipped
    ReadsInOrder
    NoLostWakeup
    InterruptedNotRerun
PROPERTIES
    WithdrawnStaysUnread
    EveryMessageRead
    ClosedRoomEmpties
CHECK_DEADLOCK FALSE
