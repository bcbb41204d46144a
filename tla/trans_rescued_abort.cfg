\* A program that rescues an ERROR in a block and then aborts it.
SPECIFICATION Spec
CONSTANTS
  MaxTxn = 1
  MaxRow = 2
  MaxDepth = 4
  ClientDepth = 0
  SavepointNames = {}
  RescueInBlock = TRUE
  PrepareErrors = FALSE
  Timeout = FALSE
PROPERTIES AbortDiscards
\* The call ends.
CHECK_DEADLOCK FALSE
