SPECIFICATION MCSpec
CONSTANTS
  s1 = s1  s2 = s2  s3 = s3  b1 = b1  b2 = b2  f1 = f1  f2 = f2  w1 = w1
  None = None  Revoked = Revoked
  Stores = {s1, s2, s3}
  Backups = {b1, b2}
  Switches = {f1, f2}
  Works = {w1}
  MaxSource = 1
  MaxNotes = 1
  MaxCrash = 1
INVARIANTS
  OneAuthority
  OldEpochIsDead
  WorkKept
CHECK_DEADLOCK FALSE
PROPERTIES SwitchCompletes
