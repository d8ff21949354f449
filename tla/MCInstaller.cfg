CONSTANTS
  Answers <- Answer
  MaxRuns = 3
SPECIFICATION Spec
INVARIANTS
  Boots
  RefusedBeforeWipe
  SecretsStayBehind
  RunsAgain
CHECK_DEADLOCK FALSE
