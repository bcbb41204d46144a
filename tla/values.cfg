\* Every type, for data and programs that are not odd.
SPECIFICATION Spec
CONSTANTS
  Elements = {text, blank}
  Blank = blank
  Null = Null
  Wild = Wild
  Error = Error
  Nil = Nil
  Unset = Unset
  MAXDIM = 3
  Short = 8
  Second = 4
  Day = 3
  ULong = 64
  Byte = 2
  SizeFromHeader = FALSE
  Types = {"int2", "date", "time", "timestamp", "timestamptz", "interval",
           "tinterval", "inet",
           "bit", "varbit", "path", "box", "array", "row", "record"}
  Odd = {"wide", "early", "fraction", "zoned", "months",
         "bit_reference", "bit_assign", "bit_length", "each_change",
         "each_empty", "new_path", "concat", "null_item", "ragged", "empty",
         "deep", "bounds", "row_change", "dropped", "tinterval", "packed"}
  Column = 5
  MaxChanges = 2
INVARIANTS GivenAsMeant EachGivesBits ReadsInside
CHECK_DEADLOCK FALSE
