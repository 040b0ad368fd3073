SPECIFICATION MCSpec
CONSTANTS
  x1 = x1  x2 = x2  i1 = i1  n1 = n1  n2 = n2  n3 = n3  e1 = e1  q1 = q1
  None = None
  Attempts = {x1, x2}
  Invocations = {i1}
  Intents <- MCIntents
  Envelopes = {e1}
  Quarantines = {q1}
  RequestLimit <- MCRequestLimit
  MaxRounds = 2
  MaxRequests = 2
  EnvelopeRounds = 2
  MaxObserved = 3
INVARIANTS
  HardBoundHolds
  DoneIsEarned
  QuarantineIsFlagged
SYMMETRY Alike
CHECK_DEADLOCK FALSE
