SPECIFICATION Spec
CONSTANTS
  a1 = a1
  a2 = a2
  shared = shared
  k1 = k1
  claude = claude
  Agents = {a1, a2}
  Paths = {shared}
  Providers = {claude}
  PathOf <- MCPathOf
  ProviderOf <- MCProviderOf
  ProviderCap <- MCProviderCap
  MaxConcurrency = 1
  Prompted = {a1}
  Deadlined = {}
  Killers = {}
  HerdrFails = FALSE
  MaxCrashes = 1
PROPERTIES
  QueuedSurvivesRestart
CHECK_DEADLOCK FALSE
