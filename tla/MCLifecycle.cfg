SPECIFICATION MCSpec
CONSTANTS
  t1 = t1  t2 = t2  inPhase = inPhase
  g1 = g1  g2 = g2  g3 = g3
  o1 = o1  o2 = o2  o3 = o3  o4 = o4
  r1 = r1  r2 = r2  r3 = r3
  NoHost = NoHost
  Unlimited = Unlimited
  Tasks <- MCTasks
  Grants <- MCGrants
  Ops <- MCOps
  GrantTask <- MCGrantTask
  GrantHost <- MCGrantHost
  GrantMax <- MCGrantMax
  OpGrant <- MCOpGrant
  OpKind <- MCOpKind
  OpConflicts <- Nothing
  Budgets <- MCBudgets
  Runs <- MCRuns
  RunTask <- MCRunTask
  RunHost <- MCRunHost
  Dispatches <- Nothing
  DispatchTask <- NoFunction
  PhaseTasks <- MCPhaseTasks
  Calls <- Nothing
  CallDispatch <- NoFunction
  CallMethod <- NoFunction
  PolicyTerms <- Nothing
  MaxRev = 2
INVARIANTS
  CompletedIsClosed
  AcceptanceHasBasis
  BudgetRespected
CHECK_DEADLOCK FALSE
