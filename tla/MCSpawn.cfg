SPECIFICATION Spec
CONSTANTS
  a1 = a1
  a2 = a2
  shared = shared
  k1 = k1
  claude = claude
  Agents = {a1, a2}
  Paths = {shared}
  Providers = {claude}
  PathOf <- MCPathOf
  ProviderOf <- MCProviderOf
  ProviderCap <- MCProviderCap
  MaxConcurrency = 1
  Prompted = {}
  Deadlined = {}
  Killers = {k1}
  HerdrFails = FALSE
  MaxCrashes = 1
INVARIANTS
  TypeOK
  LivePaneAccounted
  LiveRowHasPane
PROPERTIES
  ImplementsQueue
SYMMETRY Alike
CHECK_DEADLOCK FALSE
