CONSTANTS
  Bits = {b}
  PageSize = 2
  SecSize = 4
  EraseSize = 4
  HalfSize = 8
  CacheSize = 16
  TotalSize = 48
  WordSize = 64
  MaxCalls = 4
  MaxFaults = 2
  Flags <- CacheFlags
  Arrays <- CacheArrays
  Calls <- CacheCalls
SPECIFICATION Spec
CHECK_DEADLOCK FALSE
INVARIANTS
  TypeOK
  StoredIsKept
  ReadAnswer
  SyncedOnFlash
PROPERTIES
  CallsWindDown
  MetaLast
