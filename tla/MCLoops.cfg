SPECIFICATION Spec
CONSTANTS
  MaxRuns = 2
  MaxConcurrency = 1
  Overlap = "queue"
  Cadences = {"once", "cron"}
  TimeLimit = TRUE
  Clients = 1
  Commands = {"start", "stop", "rm", "kill_active", "pause", "resume"}
  MaxFires = 2
  MaxCrashes = 1
INVARIANTS
  SpawnedOnce
  ProcessAccounted
  StoppedRunIsEmpty
  NoIdleSlot
  FiresOnce
PROPERTIES
  ImplementsSlots
CHECK_DEADLOCK FALSE
