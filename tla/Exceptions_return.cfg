SPECIFICATION LiveSpec
CONSTANTS
  CodeSize = 2
  Programs <- KernelAndUser
  LeafIrqs = FALSE
  MaxDumps = 3
CHECK_DEADLOCK FALSE
INVARIANTS TypeOK
PROPERTIES ReturnsPerTable ProgramUndisturbed KernelCrashIsFinal UserGoesOn
