SPECIFICATION FairSpec
CONSTANTS
  a1 = a1
  a2 = a2
  shared = shared
  k1 = k1
  claude = claude
  Agents = {a1}
  Paths = {shared}
  Providers = {claude}
  PathOf <- MCPathOf
  ProviderOf <- MCProviderOf
  ProviderCap <- MCProviderCap
  MaxConcurrency = 1
  Prompted = {a1}
  Deadlined = {a1}
  Killers = {k1}
  HerdrFails = TRUE
  MaxCrashes = 2
INVARIANTS
  LivePaneAccounted
  MoveLockExclusive
PROPERTIES
  StartingSettlesOrStranded
  OwedPaneCloses
CHECK_DEADLOCK FALSE
