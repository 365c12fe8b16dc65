CONSTANTS
  Bits = {b}
  TotalSize = 32
  PageSize = 2
  SecSize = 4
  HalfSize = 8
  BlkSize = 16
  WordSize = 64
  Quad = TRUE
  Locked = FALSE
  Wide = TRUE
  SetsQuad = FALSE
  HasInit = TRUE
  HostObeysInit = FALSE
  MaxCalls = 4
  MaxFaults = 1
  Flags <- AllFlags
  Arrays <- MixedArrays
  ShippedQe = {TRUE}
  Calls <- WinbondCalls
SPECIFICATION FairSpec
CHECK_DEADLOCK FALSE
INVARIANTS
  Armed
  CommandInRequest
PROPERTIES
  Responsive
