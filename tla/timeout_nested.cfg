\* A program that rescues what a nested function raised.
SPECIFICATION FairSpec
CONSTANTS
  MaxCalls = 1
  MaxAct = 4
  GivesValues = FALSE
PROPERTIES EveryTimeoutEnds
\* The bounds end the calls.
CHECK_DEADLOCK FALSE
