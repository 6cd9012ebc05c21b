CONSTANTS
  Bodies <- MCBodies
  Edits <- MCEdits
  Domains = {"a.example", "b.example"}
  Handlers = {h1, h2}
  QuickHost = "quick.trycloudflare.com"
  None = None
  MaxEdits = 2
  MaxCommands = 1
  MaxInstalls = 2
  MaxRollbacks = 2
SPECIFICATION Spec
INVARIANTS
  TypeOK
  OfferedReaches
  InboundsDisjoint
  StoredFitsAgent
  CertificatesKept
  EditsOwed
CHECK_DEADLOCK FALSE
