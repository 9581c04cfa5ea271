CONSTANTS
  Packets = 4
  Ends = {1, 2, 4}
  Window = 3
  Ssthresh = 4
  RtoDoublings = 1
  MaxBatch = 1
  MaxFaults = 0
SPECIFICATION Spec
INVARIANT MessagesIntact
CHECK_DEADLOCK FALSE
