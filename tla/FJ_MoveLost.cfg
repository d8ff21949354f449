CONSTANTS
  Paths <- MCPaths
  Volume <- MCVolume
  Alias <- MCAlias
  Chunks = 2
  Inodes = {1, 2, 3, 4, 5, 6, 7, 8, 9, 10}
  Tree <- TwinTree
  TrashDirs <- MCTrashDirs
  TrashOf <- OwnTrash
  Commands <- MoveTwins
  Slots = {1}
  Together = {}
  FaultKinds = {}
  MaxFaults = 0
SPECIFICATION FilesSpec
INVARIANTS
  NothingLost
CHECK_DEADLOCK FALSE
