\* What becomes of input that comes faster than termkey can buffer it.
CONSTANTS
  IOs <- MCTelnet
  BufSz = 3
  MaxInput = 4
  Failures = FALSE
SPECIFICATION Spec
INVARIANT InputConserved
CHECK_DEADLOCK FALSE
