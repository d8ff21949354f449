CONSTANTS
  Paths <- MCPaths
  Volume <- MCVolume
  Alias <- MCAlias
  Chunks = 2
  Inodes = {1, 2, 3, 4, 5, 6, 7, 8, 9, 10}
  Tree <- PlainTree
  TrashDirs <- MCTrashDirs
  TrashOf <- OwnTrash
  Commands <- AllCommands
  Slots = {1, 2}
  Together <- Overlapping
  FaultKinds = {"open", "write", "mkdir", "rename", "space", "reserve", "record", "unlink"}
  MaxFaults = 1
SPECIFICATION FilesSpec
INVARIANTS
  NothingLost
  NoHalfFile
  TrashHasRecords
  CommandsReportTruly
  UndoPutsBack
CHECK_DEADLOCK FALSE
