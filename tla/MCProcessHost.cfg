SPECIFICATION ProcessSpec
CONSTANTS
  k1 = k1  k2 = k2
  Keys <- MCKeys
INVARIANTS
  ExitIsProof
PROPERTIES
  AnswerSettles
CHECK_DEADLOCK FALSE
