CONSTANTS
  Instances = {"p", "q"}
  Tools = {"bar", "shell"}
  MaxBuilds = 2
  MaxKills = 2
  MaxFaults = 1
  FaultAt = {"rm", "rm output", "opendir", "pacman", "mkarchiso", "cp"}
SPECIFICATION Spec
INVARIANTS
  AloneInScratch
  HostSafe
  SuccessIsThisBuild
  CrashesAreSurvived
CHECK_DEADLOCK FALSE
