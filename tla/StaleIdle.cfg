SPECIFICATION Spec
CONSTANTS
  c1 = c1
  Clients = {c1}
  Grace = 1
  Stable = 1
  Settle = 0
  MaxInputs = 1
  MaxCrashes = 0
INVARIANTS
  StaleIdleNeverSatisfies
CHECK_DEADLOCK FALSE
