CONSTANTS
  Half = 6
  Iss <- MCIss
  MaxMessage = 3
  MaxWindow = 2
  MaxPackets = 13
SPECIFICATION Spec
INVARIANTS PositionInMessage TimersInOrder
PROPERTY ImplementsWindow
CHECK_DEADLOCK FALSE
