SPECIFICATION FairSpec
CONSTANTS
  Results = {"ok", "error", "death"}
  MaxStarts = 3
INVARIANTS
  StopQuiesces
  OneWorker
  FreedUntouched
PROPERTIES
  StopReturns
CHECK_DEADLOCK FALSE
