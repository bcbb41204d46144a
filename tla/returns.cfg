\* Every place and result type, every program, and garbage collections between any two calls.
SPECIFICATION FairSpec
CONSTANTS
  Places = {"from", "list", "list84"}
  Kinds = {"base", "row", "refcursor", "set_of_base", "set_of_row"}
  MaxRows = 3
INVARIANTS RowsAsYielded ConnectionEnds
PROPERTIES SetEnds
CHECK_DEADLOCK FALSE
