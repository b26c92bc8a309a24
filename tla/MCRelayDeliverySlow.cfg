SPECIFICATION FairSpec
CONSTANTS
  MaxAttempts = 2
  MaxFaults = 1
  ReadLimit = 1
  MaxPending = 2
  MaxInflight = 1
PROPERTIES
  SlowSocketRecovers
CHECK_DEADLOCK FALSE
