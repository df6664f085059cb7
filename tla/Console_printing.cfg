SPECIFICATION LiveSpec
CONSTANTS
  Nibbles = 2
  Procs = 2
  Formats <- Calls
  Echoes <- KeyPressed
  MaxCalls = 1
  Depth = 2
CHECK_DEADLOCK FALSE
INVARIANTS TypeOK SentInOrder
PROPERTIES LostOnlyIfOvertaken EveryCallReturns
