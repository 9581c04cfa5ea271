CONSTANTS
  Packets = 4
  Ends = {1, 2, 4}
  Window = 3
  Ssthresh = 4
  RtoDoublings = 0
  MaxBatch = 1
  MaxFaults = 1
SPECIFICATION Spec
INVARIANT CountIsExact
PROPERTY StreamKept
CHECK_DEADLOCK FALSE
