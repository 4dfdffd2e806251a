SPECIFICATION Spec
CONSTANTS
  Names = {"lp"}
  RunIds = {"r1"}
  Reserved = {"idle", "unmanaged"}
  Leaked = TRUE
  MaxSegments = 4
  Inputs <- MCInputs
  Patterns <- MCPatterns
  MaxDefs = 2
  MaxAgents = 2
  MaxCalls = 1
INVARIANTS
  StoppedFamilyIsGone
  ScopesAgree
  MatchIsCover
  TopShowsListed
CHECK_DEADLOCK FALSE
