SPECIFICATION FairSpec
CONSTANTS
  p1 = p1
  p2 = p2
  w1 = w1
  w2 = w2
  c1 = c1
  NoProc = NoProc
  Procs = {p1, p2}
  Writers = {w1, w2}
  Clients = {c1}
  Retention = 1
  Batch = 2
  MaxEvents = 2
  MaxLaunches = 2
  MaxCrashes = 1
INVARIANTS
  SocketLeadsToServer
  BusBehindLog
  NoUnexplainedGap
PROPERTIES
  TopCatchesUp
CHECK_DEADLOCK FALSE
