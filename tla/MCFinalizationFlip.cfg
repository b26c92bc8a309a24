SPECIFICATION Spec
CONSTANTS
  Agents = {1}
  Settings <- SyncingOrNot
  MaxRequests = 2
  MaxCrashes = 1
  MaxDeaths = 1
  MaxPeers = 0
INVARIANTS
  SyncedIsSynced
CHECK_DEADLOCK FALSE
