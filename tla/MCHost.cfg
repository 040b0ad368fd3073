SPECIFICATION MCSpec
CONSTANTS
  called = called  writer = writer  shared = shared
  g1 = g1
  o1 = o1
  r1 = r1  r2 = r2  r3 = r3  r4 = r4
  d1 = d1  d2 = d2  d3 = d3  d4 = d4
  launch1 = launch1  query1 = query1  cancel1 = cancel1
  launch2 = launch2  query2 = query2
  launch3 = launch3  query3 = query3  launch4 = launch4
  NoHost = NoHost
  Unlimited = Unlimited
  Tasks <- MCTasks
  Grants <- MCGrants
  Ops <- MCOps
  GrantTask <- MCGrantTask
  GrantHost <- MCGrantHost
  GrantMax <- MCGrantMax
  OpGrant <- MCOpGrant
  OpKind <- MCOpKind
  OpConflicts <- Nothing
  Budgets <- Nothing
  Runs <- MCRuns
  RunTask <- MCRunTask
  RunHost <- MCRunHost
  Dispatches <- MCDispatches
  DispatchTask <- MCDispatchTask
  PhaseTasks <- Nothing
  Calls <- MCCalls
  CallDispatch <- MCCallDispatch
  CallMethod <- MCCallMethod
  PolicyTerms <- MCPolicyTerms
  MaxRev = 1
INVARIANTS
  QuiescenceIsTrue
  RecoveryIsJustified
  WaitingHasCause
CHECK_DEADLOCK FALSE
