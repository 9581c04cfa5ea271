CONSTANTS
  A = A
  B = B
  Peers <- MCPeers
  Iss <- MCIss
  Openers = {A}
  SeqMod = 8
  RtoDoublings = 0
  MaxSockets = 1
  MaxTimeouts = 2
  MaxFaults = 2
SPECIFICATION FairSpec
INVARIANTS CloseIsMutual StopAndWait
PROPERTIES SlotEmpties CloseEnds ConnectProgress
CHECK_DEADLOCK FALSE
