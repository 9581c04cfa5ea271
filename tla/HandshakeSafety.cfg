CONSTANTS
  A = A
  B = B
  Peers <- MCPeers
  Iss <- MCIss
  Openers <- MCPeers
  SeqMod = 8
  RtoDoublings = 1
  MaxSockets = 1
  MaxTimeouts = 2
  MaxFaults = 1
SPECIFICATION Spec
INVARIANTS TypeOK CallHasState Retransmits BothEndsAgree
PROPERTY ConnectSucceeds
CHECK_DEADLOCK FALSE
