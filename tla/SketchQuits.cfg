SPECIFICATION Spec
CONSTANTS
  NREG = 2
  MaxSignals = 2
CHECK_DEADLOCK FALSE
INVARIANTS
  QuitsAfterLoop
