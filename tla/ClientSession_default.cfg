SPECIFICATION Spec
CONSTANTS
  MAX_SENDQ_SIZE = 1
  MAX_RECVQ_SIZE = 1
  Slices = 2
  MaxFrames = 1
  MaxCommands = 1
INVARIANT
  DefaultOff
CHECK_DEADLOCK FALSE
