SPECIFICATION Spec
CONSTANTS
  k = k
  a = a
  b = b
  c = c
  d = d
  e = e
  NULL = NULL
  Node <- ThreeNodes
  Kernel = k
  Spawners <- KernelOnly
  Masked = FALSE
CHECK_DEADLOCK FALSE
INVARIANTS NoAssertionFailure
