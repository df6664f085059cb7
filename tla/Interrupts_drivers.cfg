SPECIFICATION LiveSpec
CONSTANTS
  TIMER0 = TIMER0
  TIMER2 = TIMER2
  KEYBOARD = KEYBOARD
  NULL = NULL
  Drivers <- OnePerIrq
  IrqOf <- OneNumberEach
  Destroyable <- OnePerIrq
INVARIANTS TypeOK DispatchFindsDriver NoAssertionFailure
PROPERTIES ReadyIsServed
CHECK_DEADLOCK FALSE
