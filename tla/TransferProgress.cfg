CONSTANTS
  Packets = 3
  Ends = {1, 2, 3}
  Window = 1
  Ssthresh = 2
  RtoDoublings = 1
  MaxBatch = 1
  MaxFaults = 0
SPECIFICATION FairSpec
INVARIANTS TypeOK WindowKept NothingForgotten
PROPERTIES SendEnds ReceiveEnds
CHECK_DEADLOCK FALSE
