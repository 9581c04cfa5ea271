CONSTANTS
  Samples <- MCSamples
  RttMin = 1
  FirstDev = 12
  LeastRto = 1
  Limit = 60
  Ceiling = 90
  Doublings = 6
SPECIFICATION Spec
INVARIANT TimeoutFits
PROPERTY ImplementsBackoff
CHECK_DEADLOCK FALSE
