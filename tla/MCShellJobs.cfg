CONSTANTS
  j1 = j1
  j2 = j2
  j3 = j3
  Jobs <- MCJobs
  MaxThreads = 2
SPECIFICATION FairSpec
INVARIANTS
  LiveJobsListed
  TickWhileRunning
  QuitLeavesNothingBehind
PROPERTIES
  QuitFinishes
  KeepsPromise
CHECK_DEADLOCK FALSE
