SPECIFICATION PairingSpec
CONSTANTS
  Phones = {p1, p2}
  NoPhone = NoPhone
  Pollers = {app}
  MaxPairings = 2
  MaxRevoked = 0
  MaxLost = 0
PROPERTIES
  PollableUntilExpiry
CHECK_DEADLOCK FALSE
