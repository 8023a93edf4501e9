SPECIFICATION InputSpec
CONSTANTS
  Messages <- None
  Inputs <- MCInputs
INVARIANTS TypeOK InputVerdict ExtraBitsIgnored
CHECK_DEADLOCK FALSE
