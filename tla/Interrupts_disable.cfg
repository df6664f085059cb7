SPECIFICATION Spec
CONSTANTS
  TIMER0 = TIMER0
  TIMER2 = TIMER2
  KEYBOARD = KEYBOARD
  NULL = NULL
  Drivers <- OnePerIrq
  IrqOf <- OneNumberEach
  Destroyable <- Timers
PROPERTIES DisablesOneIrq
CHECK_DEADLOCK FALSE
