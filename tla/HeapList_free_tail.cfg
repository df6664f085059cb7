SPECIFICATION ListSpec
CONSTANTS
  Sizes <- Requests
  FreesTail = TRUE
  MaxLive = 4
  HeapEnd = 40
CHECK_DEADLOCK FALSE
INVARIANTS HeldDisjoint
