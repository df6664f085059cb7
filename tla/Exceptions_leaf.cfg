SPECIFICATION Spec
CONSTANTS
  CodeSize = 3
  Programs <- KernelOnly
  LeafIrqs = TRUE
  MaxDumps = 3
CHECK_DEADLOCK FALSE
PROPERTIES ReturnsToCaller
