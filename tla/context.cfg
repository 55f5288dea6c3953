CONSTANTS
    p = p
    q = q
    k1 = k1
    None = None
    Keys = {k1}
    Callers = {p, q}
    Shown = 1
    RollupAfter = 1
    MaxEvents = 6
    MaxCrashes = 1
SPECIFICATION Spec
SYMMETRY ContextSymmetry
INVARIANTS
    NoLostUpdate
    EntrySurvives
    CoveredWasRead
CHECK_DEADLOCK FALSE
