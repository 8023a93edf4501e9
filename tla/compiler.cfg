SPECIFICATION CompilerSpec
CONSTANTS
  Ident <- MCIdent
  MaxU64 <- MCMaxU64
  Schemas <- CompilerSchemas
  Documents <- CompilerDocuments
  Texts <- CompilerTexts
  OverflowChecks = TRUE
INVARIANTS LifetimesDeclared MarkedOnce MarksSpread WrittenParsed NothingLost ErrorsOfUser
PROPERTIES Compiles
CHECK_DEADLOCK FALSE
