SPECIFICATION ReaderFairSpec
CONSTANTS
  RECV_BUF_LEN = 9
  WORD = 64
  Byte = {"R", "X", "M", "G", "FE", "FF"}
  Noise = {"R", "X", "M"}
  Bodies <- BodiesLikeTails
  Tails <- GoodAndBadTail
  Misfits <- SizesAtEdges
  MaxNoise = 3
  MaxPackets = 2
INVARIANTS
  ReceivedInOrder
PROPERTY
  GoodPacketsArrive
CHECK_DEADLOCK FALSE
