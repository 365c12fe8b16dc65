CONSTANTS
  WordSize = 8
  Waits <- NoSleepWaits
  MaxWaits = 1
SPECIFICATION Spec
CHECK_DEADLOCK FALSE
INVARIANTS
  SleepsAsAsked
