SPECIFICATION FairSpec
CONSTANTS
  MAX_SENDQ_SIZE = 3
  MAX_RECVQ_SIZE = 1
  Slices = 2
  MaxFrames = 3
  MaxCommands = 4
INVARIANTS
  WriterHasSocket
  StreamInOrder
  OnlyOldFramesTorn
PROPERTIES
  ClientDies
  CommandsDone
CHECK_DEADLOCK FALSE
