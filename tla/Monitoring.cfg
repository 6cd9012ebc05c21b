CONSTANTS
  None = None
  MaxEdits = 2
  MaxOutages = 1
  MaxFaults = 1
SPECIFICATION Spec
INVARIANTS
  TypeOK
  AttemptsEarned
PROPERTIES
  TroubleIsAlerted
  CalmReturns
CHECK_DEADLOCK FALSE
