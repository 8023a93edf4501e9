SPECIFICATION InputSpec
CONSTANTS
  Messages <- None
  Inputs <- MCInputs
INVARIANT LongRejected
CHECK_DEADLOCK FALSE
