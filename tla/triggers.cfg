SPECIFICATION Spec
CONSTANTS
  Columns = {a, b}
  DroppedColumns = {d}
  Values = {1, 2}
  Null = Null
  MaxTriggers = 2
  SystemKeys = FALSE
INVARIANTS TypeOK RowAsAsked
CHECK_DEADLOCK FALSE
