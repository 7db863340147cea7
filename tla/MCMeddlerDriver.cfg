CONSTANTS
  MaxDecls = 2
  Inputs <- MCInputs
  Docs <- MCDocs
  Cardinals <- MCCardinals
  Qualified <- MCQualified
  IncludePaths <- MCIncludePaths

SPECIFICATION DSpec
CHECK_DEADLOCK FALSE
INVARIANT TypeOK DocumentedFilesParsed TruncatedFilesRejected SymbolTableAgreesWithTree ParseResultIsChainResult
PROPERTY ParseReturns
