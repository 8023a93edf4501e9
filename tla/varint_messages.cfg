SPECIFICATION MessageSpec
CONSTANTS
  Messages <- MCMessages
  Inputs <- None
INVARIANTS PrepareExact
PROPERTIES Delivers
CHECK_DEADLOCK FALSE
