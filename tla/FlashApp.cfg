CONSTANTS
  Bits = {b}
  TotalSize = 8
  PageSize = 2
  SecSize = 4
  HalfSize = 8
  BlkSize = 8
  WordSize = 32
  Quad = TRUE
  Locked = TRUE
  Wide = FALSE
  SetsQuad = TRUE
  HasInit = FALSE
  HostObeysInit = FALSE
  MaxCalls = 7
  MaxFaults = 1
  RwLen = 4
  CkLen = 2
  EraseSize = 4
  MaxCommands = 3
  Flags <- AppFlags
  Arrays <- AppArrays
  ShippedQe = {TRUE, FALSE}
  Commands <- AppCommands
  Calls <- AppCalls
  ByteValue <- Value
SPECIFICATION FairAppSpec
CHECK_DEADLOCK FALSE
INVARIANTS
  AppTypeOK
PROPERTIES
  CommandsWindDown
  ZeroMeansDone
  ChecksumTrue
  RefusedWithoutChip
  CommandsEnd
