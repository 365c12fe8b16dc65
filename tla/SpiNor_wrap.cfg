CONSTANTS
  Bits = {b}
  TotalSize = 32
  PageSize = 2
  SecSize = 4
  HalfSize = 8
  BlkSize = 16
  WordSize = 64
  Quad = FALSE
  Locked = FALSE
  Wide = FALSE
  SetsQuad = FALSE
  HasInit = FALSE
  HostObeysInit = TRUE
  MaxCalls = 2
  MaxFaults = 0
  Flags <- AllFlags
  Arrays <- MixedArrays
  ShippedQe = {TRUE}
  Calls <- WrappingCalls
SPECIFICATION Spec
CHECK_DEADLOCK FALSE
INVARIANTS
  EraseBeyondEndRefused
