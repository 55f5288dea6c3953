SPECIFICATION FairSpec
CONSTANTS
  a = a
  b = b
  t1 = t1
  t2 = t2
  Agents = {a, b}
  Script <- TwoTurns
  Before = {t1}
  Prompts = {p1, p2}
  Nothing = Nothing
  p1 = p1
  p2 = p2
  Casts <- ThreeCasts
  MaxFaults = 1
INVARIANTS PanelIsTheLog Attributed AnswerIsShown
PROPERTY PromptEnds
