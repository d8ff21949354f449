CONSTANTS
  Windows = {"v", "w"}
  Titles = {"x", "y"}
  Conns = {1, 2, 3}
  MAX_WATCHERS = 2
  Pipe = {"kills", "ignored"}
  MaxMoves = 2
  Desktop <- MCDesktop
  First = "v"
SPECIFICATION FairSpec
INVARIANTS
  TableIsWatchers
  EveryoneHasTheTitle
  TitleOfTheFocused
PROPERTIES
  GoneIsClosed
CHECK_DEADLOCK FALSE
