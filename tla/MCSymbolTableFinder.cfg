CONSTANTS
  Tables <- MCTables
  Queries <- MCQueries
  AddrBits = 4
  MaxLen = 2
  N1 = N1
  N2 = N2
SPECIFICATION Spec
CHECK_DEADLOCK FALSE
INVARIANT TypeOK AddrLookupAsDocumented NameLookupFirstMatch
