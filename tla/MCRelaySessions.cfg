CONSTANTS
  Tools = {t1, t2}
  Sessions = {1, 2}
  MaxFaults = 1
SPECIFICATION FairSpec
INVARIANTS
  Accounted
  PairStoppedWhole
PROPERTIES
  WatchEnds
CHECK_DEADLOCK FALSE
