SPECIFICATION LiveSpec
CONSTANTS
  k = k
  a = a
  b = b
  c = c
  d = d
  e = e
  NULL = NULL
  Node <- SixNodes
  Kernel = k
  Spawners <- SixNodes
  Masked = TRUE
INVARIANTS TypeOK NoAssertionFailure RingInPidOrder
PROPERTIES ImplementsQueue EverySpawnRuns
