SPECIFICATION Spec
CONSTANTS
  Hosts = {v1,v2}
  Tickets = {t1,t2}
  Claims = {c1,c2,c3}
  Handlers = {h1,h2}
  MaxTries = 2
  Expiring = {t1}
  MaxRuns = 3
  MaxLosses = 1
  MaxCrashes = 1
  MaxDeletes = 1
  None = None
SYMMETRY Symmetry
INVARIANTS TypeOK OneAgentPerTicket OneHostPerTicket HeldIsServed
CHECK_DEADLOCK FALSE
