SPECIFICATION FairSpec
CONSTANTS
  Agents = {a1,a2}
  Groups = {g1}
  Invocations = {w1}
  Broken = {a1}
  None = None
  CronLimit = 1
  MaxAffected = 8
  MaxOps = 4
  MaxFaults = 1
  MaxRollbacks = 0
INVARIANT TargetIsCurrent
PROPERTY QueueServed
CHECK_DEADLOCK FALSE
