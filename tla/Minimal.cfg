CONSTANTS
  Runtimes <- MCRuntimes
  Ports = {443}
  Handlers = {h1, h2}
  Scripts = {s1, s2}
  None = None
  Deleted = Deleted
  MaxEdits = 1
  MaxTickets = 1
  MaxScripts = 2
  MaxFaults = 1
SPECIFICATION Spec
SYMMETRY Symmetry
INVARIANTS
  TypeOK
  OfferedIsInstalled
PROPERTIES
  ToldIsOffered
CHECK_DEADLOCK FALSE
