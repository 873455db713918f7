SPECIFICATION FairSpec
CONSTANTS
  c1 = c1
  c2 = c2
  Client <- MCClient
  Day = {0, 1}
  Ceiling = 5
  ScanBudget = 3
  LastDay = 1
  MaxCalls = 2
  MaxCrashes = 1
  MaxRetries = 1
  Cost = {2}
INVARIANTS
  LedgerAddsUp
  BilledIsCounted
  WithinCeiling
  WithinScanBudget
PROPERTIES
  CallsEnd
CHECK_DEADLOCK FALSE
