SPECIFICATION FairSpec
CONSTANTS
  s1 = s1
  k1 = k1
  c1 = c1
  Senders = {s1}
  Killers = {k1}
  Attachers = {c1}
  Failing = {"pane_move"}
  MaxCrashes = 1
INVARIANTS
  PlaceRecorded
  LeaseVeto
PROPERTIES
  SendCancelsGC
  MoveSettles
CHECK_DEADLOCK FALSE
