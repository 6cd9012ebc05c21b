CONSTANTS
  Domains = {d1, d2}
  Pids = {p1, p2, p3, p4}
  None = None
  MaxDue = 1
  MaxRevisions = 2
  MaxUpgrades = 1
  MaxFaults = 1
SPECIFICATION Spec
INVARIANTS
  RenewedIsLoaded
  OneTunnel
PROPERTY TunnelReturns
