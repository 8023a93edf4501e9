SPECIFICATION Spec
CONSTANTS
  Ident <- MCIdent
  MaxU64 <- MCMaxU64
  Documents <- ResolverDocuments
  OverflowChecks = TRUE
INVARIANTS TypeOK NoUninit ReservationHeld CacheExact SchemaSound VerdictCorrect SchemaMeansDocument
PROPERTIES WrittenOnce
CHECK_DEADLOCK FALSE
