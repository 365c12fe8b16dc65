CONSTANTS
  Bits = {b}
  TotalSize = 32
  PageSize = 2
  SecSize = 4
  HalfSize = 8
  BlkSize = 16
  WordSize = 64
  Quad = FALSE
  Locked = TRUE
  Wide = FALSE
  SetsQuad = FALSE
  HasInit = FALSE
  HostObeysInit = FALSE
  MaxCalls = 3
  MaxFaults = 1
  Flags <- AllFlags
  Arrays <- CleanArrays
  ShippedQe = {TRUE}
  Calls <- LockedCalls
SPECIFICATION Spec
CHECK_DEADLOCK FALSE
PROPERTIES
  ProgramSuccessIsDone
