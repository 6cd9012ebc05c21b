SPECIFICATION Spec
CONSTANTS
  Agents = {a1}
  Groups = {g1}
  Invocations = {w1,w2}
  Broken = {}
  None = None
  CronLimit = 4
  MaxAffected = 8
  MaxOps = 2
  MaxFaults = 1
  MaxRollbacks = 1
SYMMETRY Symmetry
INVARIANTS TypeOK NothingLost SnapshotFresh TargetIsOwn
PROPERTY PromiseKept
CHECK_DEADLOCK FALSE
