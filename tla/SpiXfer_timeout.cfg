CONSTANTS
  Xfers <- OneXfer
  Depth = 3
  MaxFifu = 2
  PollTime = 3
  Timeout = 4
  WordSize = 8
  MaxXfers = 1
SPECIFICATION Spec
CHECK_DEADLOCK FALSE
PROPERTIES
  OkMeansDone
