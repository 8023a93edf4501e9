SPECIFICATION Spec
CONSTANTS
  Ident <- MCIdent
  Schemas <- ValidatorSchemas
  OverflowChecks = FALSE
INVARIANTS TypeOK AssumeInitSound NoReentry WidthsAgree VerdictCorrect ReferrersExact
PROPERTIES WidthsNeverChange Terminates
CHECK_DEADLOCK FALSE
