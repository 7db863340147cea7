CONSTANTS
  BootMaps <- MCBootMaps
  UsableTop <- MCUsableTop
  FreeRanges <- MCFreeRanges
  InitialReservations <- MCInitialReservations
  PutFrames <- MCPutFrames
  PutWidths <- MCPutWidths
  Owners = {DomA}
  PutStates = {"nailed", "mapped"}
  OWNER_NONE = OWNER_NONE
  OWNER_SYSTEM = OWNER_SYSTEM
  STATE_SIZE = 5704

SPECIFICATION Spec
INVARIANT TypeOK L2TablesSized
PROPERTY GetReturnsLastPut
