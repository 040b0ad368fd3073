SPECIFICATION MCSpec
CONSTANTS
  t1 = t1  t2 = t2
  g1 = g1  g2 = g2
  o1 = o1  o2 = o2  o3 = o3
  NoHost = NoHost
  Unlimited = Unlimited
  Tasks <- MCTasks
  Grants <- MCGrants
  Ops <- MCOps
  GrantTask <- MCGrantTask
  GrantHost <- MCGrantHost
  GrantMax <- MCGrantMax
  OpGrant <- MCOpGrant
  OpKind <- MCOpKind
  OpConflicts <- MCOpConflicts
  Budgets <- Nothing
  Runs <- Nothing
  RunTask <- NoFunction
  RunHost <- NoFunction
  Dispatches <- Nothing
  DispatchTask <- NoFunction
  PhaseTasks <- Nothing
  Calls <- Nothing
  CallDispatch <- NoFunction
  CallMethod <- NoFunction
  PolicyTerms <- Nothing
  MaxRev = 2
INVARIANTS
  WriterHoldsResource
  OutcomeIsTrue
PROPERTIES
  ImplementsLedger
CHECK_DEADLOCK FALSE
