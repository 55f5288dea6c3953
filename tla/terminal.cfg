SPECIFICATION Spec
CONSTANTS
  r1 = r1
  r2 = r2
  t1 = t1
  t2 = t2
  i1 = i1
  i2 = i2
  g = g
  Nothing = Nothing
  Rooms = {r1, r2}
  Scenes <- FourScenes
  MaxTasks = 2
INVARIANTS PaneIsTheLog NothingBuried AnsweredAtHome
CHECK_DEADLOCK FALSE
