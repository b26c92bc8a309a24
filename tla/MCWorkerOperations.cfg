SPECIFICATION FairSpec
CONSTANTS
    a1 = a1
    a2 = a2
    Agents = {a1, a2}
    Initial = {a1}
    MaxWorkers = 3
    Scenarios <- Mixed
CHECK_DEADLOCK FALSE
INVARIANTS
    OneOwner
    ExecutedOnce
    EndedWhenQuiet
PROPERTIES
    NothingThrownAway
    StopEnds
    PendingSettles
