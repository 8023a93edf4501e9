SPECIFICATION CompilerSpec
CONSTANTS
  Ident <- MCIdent
  MaxU64 <- MCMaxU64
  Schemas <- None
  Documents <- ExternDocuments
  Texts <- None
  OverflowChecks = TRUE
INVARIANT ExternParsed
CHECK_DEADLOCK FALSE
