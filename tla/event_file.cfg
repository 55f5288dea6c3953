CONSTANTS
    p = p
    q = q
    None = None
    Callers = {p, q}
    MaxAppends = 4
    MaxDrops = 1
    MaxCrashes = 2
    MaxFailures = 1
SPECIFICATION FileSpec
SYMMETRY CallerSymmetry
INVARIANTS
    AcceptedIsDurable
    NumbersAreStable
    StopLeavesValidFile
CHECK_DEADLOCK FALSE
