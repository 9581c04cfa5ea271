CONSTANTS
  p1 = p1
  p2 = p2
  a1 = a1
  Peers = {p1, p2}
  Acceptors = {a1}
  BacklogLimit = 1
  MaxSockets = 3
SPECIFICATION FairSpec
INVARIANTS TypeOK OnePerPeer UsersSocketLives NoneLost
PROPERTIES ClosedIsFreed SoleIsAccepted
CHECK_DEADLOCK FALSE
