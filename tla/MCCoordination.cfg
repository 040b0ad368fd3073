SPECIFICATION MCSpec
CONSTANTS
  a1 = a1  a2 = a2  a3 = a3
  ph = ph  dir = dir  file = file  cam = cam  gpu = gpu  GPU = GPU  k1 = k1  k2 = k2
  NoKey = NoKey
  None = None
  Admissions <- MCAdmissions
  Phases = {ph}
  Phase <- MCPhase
  Places <- MCPlaces
  Overlap <- MCOverlap
  Writes <- MCWrites
  Reads <- MCReads
  Caps <- MCCaps
  Fold <- MCFold
  c1 = c1  c2 = c2
  Clients <- MCClients
  Commanders = {m1}
  MaxEpoch = 3
  MaxEdits = 2
SYMMETRY Alike
INVARIANTS
  ActiveDisjoint
  TokensFenced
  QuarantineHolds
PROPERTIES
  ResultUnderAuthority
  QueueIsFair
CHECK_DEADLOCK FALSE
