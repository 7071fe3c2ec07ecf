SPECIFICATION FairSpec
CONSTANTS
  Agents = {a1, a2}
  Clients = {c1}
  Slices = 2
  MaxPictures = 2
INVARIANTS
  SlotIsAlive
  NoImageLeaks
  OffStops
PROPERTIES
  WalkUndisturbed
  WholeFrames
  SlotIsStreamed
CHECK_DEADLOCK FALSE
