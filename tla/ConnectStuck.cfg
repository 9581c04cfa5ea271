CONSTANTS
  A = A
  B = B
  Peers <- MCPeers
  Iss <- MCIss
  Openers = {A}
  SeqMod = 8
  RtoDoublings = 1
  MaxSockets = 1
  MaxTimeouts = 2
  MaxFaults = 0
SPECIFICATION Spec
INVARIANT SwitchesWhenComplete
CHECK_DEADLOCK FALSE
