SPECIFICATION Spec
CONSTANTS
  Minute = 2
  EvictAt = 1
  f = f
  a = a
  Callers = {c1, c2}
  Names = {f, a}
  Rooms = {r1, r2}
  Files = {f}
  PerRoom = 1
  Total = 2
  MaxWake = 2
  Workloads <- ThreeUses
  MaxCalls = 3
  MaxClock = 5
  MaxRestarts = 1
  MaxFaults = 1
SYMMETRY Alike
INVARIANTS RestartAgrees RoomsKeepAgents TurnsWithinBudget
PROPERTY ForgivenIsBounded
