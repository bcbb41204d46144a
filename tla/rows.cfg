\* Queries in blocks of each other; none with rows inside a block of exec.
SPECIFICATION Spec
CONSTANTS
  Size = {0, 3}
  Count <- Counts
  Block = {2}
  Step <- Steps
  Portion = 2
  Columns = 2
  Form = {"row", "columns", "described", "nothing"}
  QueryInExec = FALSE
  Kind = {"exec", "each", "cursor"}
  MaxQueries = 2
  MaxNest = 2
  MaxGiven = 2
INVARIANTS TypeOK RowsInOrder GivesAsked FreedOnce NoPortalLeft
PROPERTIES RewindReachesStart
