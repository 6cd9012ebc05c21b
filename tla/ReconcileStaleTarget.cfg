SPECIFICATION Spec
CONSTANTS
  Agents = {a1}
  Groups = {g1}
  Invocations = {w1,w2}
  Broken = {}
  None = None
  CronLimit = 4
  MaxAffected = 8
  MaxOps = 2
  MaxFaults = 0
  MaxRollbacks = 0
SYMMETRY Symmetry
INVARIANT RestingTargetIsCurrent
CHECK_DEADLOCK FALSE
