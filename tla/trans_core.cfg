\* Programs that let exceptions leave their blocks and use no savepoints.
SPECIFICATION Spec
CONSTANTS
  MaxTxn = 3
  MaxRow = 3
  MaxDepth = 5
  ClientDepth = 0
  SavepointNames = {}
  RescueInBlock = FALSE
  PrepareErrors = FALSE
  Timeout = TRUE
INVARIANTS TypeOK CleanReturn NoHalfStatement OwnSavepoint
PROPERTIES AbortDiscards ImplementsNestedTxn
\* The call ends.
CHECK_DEADLOCK FALSE
