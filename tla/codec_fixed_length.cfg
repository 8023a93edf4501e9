SPECIFICATION Spec
CONSTANTS
  Ident <- MCIdent
  Messages <- FixedLengthMessages
  Inputs <- None
  Trailers <- MCTrailers
  MaxItems = 8
  MaxDepth = 12
  Huge = 4194304
  OverflowChecks = FALSE
INVARIANT AnyLengthType
CHECK_DEADLOCK FALSE
