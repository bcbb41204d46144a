\* Every program.
SPECIFICATION FairSpec
CONSTANTS
  MaxCalls = 2
  MaxAct = 6
  GivesValues = TRUE
INVARIANTS TypeOK NoRaiseInBackend LevelIsDepth OwnFunctype OwnTimer
  RubyCanBeInterrupted HandlerIsLive NothingAbandoned
PROPERTIES EndsAfterTimeout ResultIsGiven
\* The bounds end the calls.
CHECK_DEADLOCK FALSE
