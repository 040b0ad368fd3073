SPECIFICATION MCSpec
CONSTANTS
  p1 = p1  p2 = p2  p3 = p3  s1 = s1  t1 = t1  main = main  agent = agent
  None = None
  Phases <- MCPhases
  First = p1
  Sessions = {s1}
  Tasks = {t1}
  Actors = {main, agent}
  MaxEdits = 1
INVARIANTS
  NeverLocked
PROPERTIES
  ReviewedIsCarried
  LocksAreOpened
CHECK_DEADLOCK FALSE
