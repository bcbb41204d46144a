\* Every failure of a compilation, and VACUUM FREEZE.
SPECIFICATION Spec
CONSTANTS
  Fun = {f, g}
  Arg = {int, text, record}
  BadArg = {record}
  Late = {"never", "before", "after"}
  Freeze = TRUE
  MaxBody = 3
  MaxXid = 3
  MaxDepth = 2
  f = f
  g = g
  int = int
  text = text
  record = record
INVARIANTS TypeOK RunsCurrent GoodCallStarts
\* The bounds end the session.
CHECK_DEADLOCK FALSE
