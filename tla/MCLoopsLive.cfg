SPECIFICATION FairSpec
CONSTANTS
  MaxRuns = 2
  MaxConcurrency = 2
  Overlap = "queue"
  Cadences = {"cron"}
  TimeLimit = TRUE
  Clients = 2
  Commands = {"start", "stop", "kill_active", "resume"}
  MaxFires = 0
  MaxCrashes = 2
INVARIANTS
  TypeOK
  StoppedRunIsEmpty
PROPERTIES
  StopEnds
CHECK_DEADLOCK FALSE
