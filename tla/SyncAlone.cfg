SPECIFICATION SyncFairSpec
CONSTANTS
  Agents = {a1}
  Groups = {}
  Invocations = {w1}
  Broken = {}
  None = None
  CronLimit = 4
  MaxAffected = 8
  MaxOps = 3
  MaxFaults = 1
  MaxRollbacks = 1
  Unfit = {1}
  MaxTroubles = 1
INVARIANTS SyncTypeOK OfferedIsApplied OfferedHasEdit CarefulRetirement
PROPERTY EditsArrive
CHECK_DEADLOCK FALSE
