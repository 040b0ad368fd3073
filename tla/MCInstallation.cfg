CONSTANTS
  o1 = o1  o2 = o2  o3 = o3
  Operations <- MCOperations
  Retirements = {r}
  Generations = {old, new}
  Second = {new}
  Tools = {t, u}
  None = None
  MaxMishaps = 2
  MaxEdits = 1
SPECIFICATION MCSpec
INVARIANTS SettledIsWhole ServedIsInstalled RollbackRestores
PROPERTIES InterruptionsSettle
CHECK_DEADLOCK FALSE
