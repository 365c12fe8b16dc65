CONSTANTS
  HeapStart = 8
  HeapSize = 56
  MinChunk = 4
  NNodes = 4
  AllocNode = 1
  FreeNode = 5
  NodeSize = 6
  AllocBit = 32
  MaxCalls = 7
  Requests <- HeapRequests
SPECIFICATION Spec
CHECK_DEADLOCK FALSE
INVARIANTS
  TypeOK
  ChunksTile
  ListSound
  BlocksKept
  Accounted
PROPERTIES
  BestFit
  SmashedBySmallBlocks
