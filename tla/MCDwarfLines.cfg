CONSTANTS
  Programs <- MCPrograms
  MaxLen = 3
  WithConstAddPc = FALSE
  UnitLengths = {"dwarf32", "dwarf64"}
  HeaderSize = 40
  HeaderFiles = 1
  OpcodeBase = 13
  MinInstLen = 1
  LineBase <- MCLineBase
  LineRange = 14
  DefaultIsStmt = TRUE
  MaxSteps <- MCMaxSteps
SPECIFICATION Spec
CHECK_DEADLOCK FALSE
INVARIANT TypeOK DecodesOnBoundaries RegistersMatchReference
PROPERTY DecoderTerminates
