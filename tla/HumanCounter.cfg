SPECIFICATION FairSpec
CONSTANTS
  Ids = {h1}
  UNIT = 4096
  ROUNDING = 2
  Positions <- AllSides
  MAX_TRACKS = 2
  MaxFrames = 4
INVARIANTS
  DirsAreLastCrossing
  TrackIsRecentPath
  CountsConserved
  ReadsNeverWait
PROPERTIES
  NewFrameIsRead
CHECK_DEADLOCK FALSE
