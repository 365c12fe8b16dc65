CONSTANTS
  Xfers <- MCXfers
  Depth = 3
  MaxFifu = 2
  PollTime = 3
  Timeout = 4
  WordSize = 8
  MaxXfers = 2
SPECIFICATION FairSpec
CHECK_DEADLOCK FALSE
INVARIANTS
  TypeOK
  NoByteDropped
  NoLateInterrupt
PROPERTIES
  TransfersWindDown
  OkMeansDoneInTime
  Returns
  Succeeds
