SPECIFICATION FairSpec
CONSTANTS
  MaxFrames = 2
  MaxPackets = 2
INVARIANTS
  ListedIsConnected
  OneWrite
  NothingAfterTerminal
  OneLateFrame
PROPERTIES
  Contract
  ClosingEnds
CHECK_DEADLOCK FALSE
