CONSTANTS
  Programs <- MCPrograms
  MaxLen = 2
  WithConstAddPc = FALSE
  UnitLengths = {"dwarf32"}
  HeaderSize = 40
  HeaderFiles = 1
  OpcodeBase = 13
  MinInstLen = 1
  LineBase <- MCLineBase
  LineRange = 14
  DefaultIsStmt = TRUE
  MaxSteps <- MCMaxSteps
SPECIFICATION Spec
CHECK_DEADLOCK FALSE
INVARIANT ExtendedOpsAccepted
