CONSTANTS
  WordSize = 8
  Waits <- MCWaits
  MaxWaits = 2
SPECIFICATION FairSpec
CHECK_DEADLOCK FALSE
INVARIANTS
  TypeOK
  GivesUpLast
  SleepsAtMostAsked
PROPERTIES
  WaitsWindDown
  Returns
