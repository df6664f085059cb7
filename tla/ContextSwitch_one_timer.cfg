SPECIFICATION LiveSpec
CONSTANTS
  p0 = p0
  p1 = p1
  p2 = p2
  NULL = NULL
  Proc <- ThreeProcs
  Proc0 = p0
  Ring <- ThreeRing
  Timers <- OneTimer
  Others <- Keyboard
  Quick <- Keyboard
  MaxLevel = 3
  WorkCycle = 2
INVARIANTS TypeOK ResumesCurrent ParkedOnOwnStack NestingBounded IInv
PROPERTIES ImplementsRoundRobin EveryProcessRuns EveryLineServed
