SPECIFICATION FairSpec
CONSTANTS
  Hosts = {v1}
  Tickets = {t1,t2}
  Claims = {c1,c2}
  Handlers = {h1}
  MaxTries = 3
  Expiring = {}
  MaxRuns = 2
  MaxLosses = 2
  MaxCrashes = 1
  MaxDeletes = 1
  None = None
INVARIANT NoOrphans
PROPERTY EnrollmentCompletes
CHECK_DEADLOCK FALSE
