CONSTANTS
    MaxTurns = 2
    MaxProcs = 3
    MaxFaults = 1
    MaxCancels = 1
SPECIFICATION FairSpec
INVARIANTS
    OneProcess
    SameSession
    PartsOfTheTurn
PROPERTY NoStray
CHECK_DEADLOCK FALSE
