CONSTANTS
    p = p
    q = q
    None = None
    Callers = {p, q}
    MaxAppends = 3
    MaxDrops = 1
    MaxCrashes = 0
    MaxFailures = 0
SPECIFICATION FileSpec
INVARIANT WritesInSequence
CHECK_DEADLOCK FALSE
