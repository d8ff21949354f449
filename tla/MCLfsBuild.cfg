CONSTANTS
  Works = {"a"}
  Ways = {"source", "xbps"}
  Shells = {1, 2}
  Commands = {"all", "umount", "boot", "rekernel"}
  KillAt <- MCKillAt
  FaultKinds = {"loud", "quiet", "busy"}
  MaxFaults = 2
  MaxCalls = 3
SPECIFICATION LfsFairSpec
INVARIANTS
  RecordedIsDone
  NothingLeftMounted
PROPERTIES
  ResumeFinishes
CHECK_DEADLOCK FALSE
