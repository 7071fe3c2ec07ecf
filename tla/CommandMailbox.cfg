SPECIFICATION FairSpec
CONSTANTS
  Clients = {c1, c2}
  NoClient = NoClient
  Agents = {a1}
  Parts <- TwoPartAngle
  RECV_BUF_LEN = 256
  MaxCommands = 2
INVARIANTS
  CleanTakeIsLast
  TakesAtMostOncePerCommand
  LostOnlyIfCrossed
PROPERTY
  CommandsComplete
