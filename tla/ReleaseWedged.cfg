SPECIFICATION FairSpec
CONSTANTS
  Revisions = {good1, good2, refused, failing}
  Valid = {good1, good2, failing}
  Runnable = {good1, good2, refused}
  Boot = Boot
  None = None
  MaxFaults = 2
  MaxChanges = 3
PROPERTY Converges
