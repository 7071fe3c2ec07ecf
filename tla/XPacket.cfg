SPECIFICATION XPacketSpec
CONSTANTS
  Lengths <- UpTo18
  SplitSizes <- OneToFour
  Pieces = {1, 4}
  WORD = 8
INVARIANTS
  MergeUndoesSplit
CHECK_DEADLOCK FALSE
