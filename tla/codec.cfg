SPECIFICATION Spec
CONSTANTS
  Ident <- MCIdent
  Messages <- MCMessages
  Inputs <- MCInputs
  Trailers <- MCTrailers
  MaxItems = 8
  MaxDepth = 12
  Huge = 4194304
  OverflowChecks = FALSE
INVARIANTS TypeOK FailuresNamed SizeExact LengthVerdict RoundTrip CutDetected Normalises ItemsExact
PROPERTIES ReaderEnds
CHECK_DEADLOCK FALSE
