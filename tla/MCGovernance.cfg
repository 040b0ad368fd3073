SPECIFICATION MCSpec
CONSTANTS
  p1 = p1  p2 = p2  t1 = t1  t2 = t2  a1 = a1  a2 = a2  s1 = s1
  None = None
  Phases = {p1, p2}
  Tasks = {t1, t2}
  Artifacts = {a1, a2}
  SharedNames = {s1}
  HardPhases = {p1}
  HardProject = TRUE
  Predecessors <- MCPredecessors
  Owner <- MCOwner
  Relations <- MCRelations
INVARIANTS VerifiedIsDone NothingLeftBehind CompletedIsResolved
CHECK_DEADLOCK FALSE
