SPECIFICATION FairSpec
CONSTANTS
  c1 = c1
  Clients = {c1}
  Grace = 2
  Stable = 2
  Settle = 0
  MaxInputs = 2
  MaxCrashes = 1
INVARIANTS
  WaitNotStale
  CompletedIsWhole
PROPERTIES
  SeenTurnCompletes
CHECK_DEADLOCK FALSE
