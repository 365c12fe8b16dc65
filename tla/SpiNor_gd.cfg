CONSTANTS
  Bits = {b}
  TotalSize = 32
  PageSize = 2
  SecSize = 4
  HalfSize = 8
  BlkSize = 16
  WordSize = 64
  Quad = TRUE
  Locked = TRUE
  Wide = FALSE
  SetsQuad = TRUE
  HasInit = FALSE
  HostObeysInit = TRUE
  MaxCalls = 4
  MaxFaults = 2
  Flags <- AllFlags
  Arrays <- MixedArrays
  ShippedQe = {TRUE, FALSE}
  Calls <- GdCalls
SPECIFICATION Spec
CHECK_DEADLOCK FALSE
INVARIANTS
  TypeOK
  QuietLoops
  UsableWhenInit
PROPERTIES
  CallsWindDown
  Implements
