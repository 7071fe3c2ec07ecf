SPECIFICATION Spec
CONSTANTS
  Pushers = {p1, p2}
  Taker = Taker
  Free = Free
  MAX_SIZE = 2
  MaxPackets = 6
INVARIANTS
  NothingFreedIsHeld
  OnePlaceEach
PROPERTIES
  ImplementsWindow
CHECK_DEADLOCK FALSE
