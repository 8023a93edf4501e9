SPECIFICATION Spec
CONSTANTS
  Ident <- MCIdent
  Schemas <- WideTagSchemas
  OverflowChecks = TRUE
INVARIANT WellFormedAccepted
CHECK_DEADLOCK FALSE
