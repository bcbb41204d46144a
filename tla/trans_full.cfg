\* Every program, called inside a savepoint of the client.
SPECIFICATION Spec
CONSTANTS
  MaxTxn = 3
  MaxRow = 1
  MaxDepth = 5
  ClientDepth = 1
  SavepointNames = {1}
  RescueInBlock = TRUE
  PrepareErrors = TRUE
  Timeout = FALSE
INVARIANTS OwnSavepoint NoHalfStatement
PROPERTIES AbortDiscards
\* The call ends.
CHECK_DEADLOCK FALSE
