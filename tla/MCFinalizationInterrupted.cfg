SPECIFICATION Spec
CONSTANTS
  Agents = {1}
  Settings <- OnlySyncing
  MaxRequests = 2
  MaxCrashes = 0
  MaxDeaths = 1
  MaxPeers = 0
INVARIANTS
  InterruptedMeansUntouched
CHECK_DEADLOCK FALSE
