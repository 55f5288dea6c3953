CONSTANTS
    w1 = w1
    c1 = c1
    r1 = r1
    r2 = r2
    Writers = {w1}
    Rooms = {r1, r2}
    Room = r1
    Clients = {c1}
    Capacity = 2
    MaxEvents = 3
    MaxDisconnects = 1
    MaxRestarts = 1
    MaxFaults = 0
SPECIFICATION FairSpec
INVARIANT ShownOnceInOrder
PROPERTY FollowsLog
CHECK_DEADLOCK FALSE
