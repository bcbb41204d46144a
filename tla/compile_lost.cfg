\* A call with a type that is refused, after one that is not.
SPECIFICATION Spec
CONSTANTS
  Fun = {f}
  Arg = {int, text, record}
  BadArg = {record}
  Late = {"never"}
  Freeze = FALSE
  MaxBody = 1
  MaxXid = 2
  MaxDepth = 2
  f = f
  g = g
  int = int
  text = text
  record = record
INVARIANTS EveryGoodCallStarts
\* The bounds end the session.
CHECK_DEADLOCK FALSE
