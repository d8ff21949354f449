CONSTANTS
  f = f
  Foots <- MCFoots
  Dirs = {"a", "b", "c"}
  Home = "a"
  MaxTries = 1
  FaultKinds = {"socket", "fork"}
  MaxMoves = 2
SPECIFICATION FairSpec
INVARIANTS
  TakeoverKeepsShell
  FollowEachOther
PROPERTIES
  GoneIsHungUp
CHECK_DEADLOCK FALSE
