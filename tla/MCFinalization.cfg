SPECIFICATION FairSpec
CONSTANTS
  Agents = {1, 2}
  Settings <- SomeKeep
  MaxRequests = 4
  MaxCrashes = 1
  MaxDeaths = 1
  MaxPeers = 1
INVARIANTS
  PartIsNotHidden
  FinalizationInv
PROPERTIES
  ImplementsAdoption
  FinalizationSettles
CHECK_DEADLOCK FALSE
