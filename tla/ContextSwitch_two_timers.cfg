SPECIFICATION Spec
CONSTANTS
  p0 = p0
  p1 = p1
  p2 = p2
  NULL = NULL
  Proc <- TwoProcs
  Proc0 = p0
  Ring <- TwoRing
  Timers <- TwoTimers
  Others <- NoDevice
  Quick <- NoDevice
  MaxLevel = 4
  WorkCycle = 3
INVARIANTS ResumesCurrent
