CONSTANTS
  a = a
  b = b
  c = c
  d = d
  Nowhere = Nowhere
  Files = {"A", "B", "C", "New"}
  Names <- MCNames
  Lists <- MCLists
  Base <- OneToCome
  MaxRuns = 4
  MaxFaults = 3
  FaultAt = {"park", "back", "place"}
SPECIFICATION RenameSpec
INVARIANTS
  OneFilePerName
  RenamedAsAsked
  AllOrNothing
  UndoGoesBack
CHECK_DEADLOCK FALSE
