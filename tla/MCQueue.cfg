SPECIFICATION Spec
CONSTANTS
  a1 = a1
  a2 = a2
  a3 = a3
  a4 = a4
  p1 = p1
  p2 = p2
  p3 = p3
  claude = claude
  codex = codex
  Agents = {a1, a2, a3, a4}
  Paths = {p1, p2, p3}
  Providers = {claude, codex}
  PathOf <- MCPathOf
  ProviderOf <- MCProviderOf
  ProviderCap <- MCProviderCap
  MaxConcurrency = 2
INVARIANTS
  TypeOK
  CapRespected
  ProviderCapRespected
  PathUnique
  SeqDistinct
  LoopSelectsBatch
PROPERTIES
  NoQueueJumping
  NoSlotWasted
