SPECIFICATION FairSpec
CONSTANTS
  Clients = {c1, c2}
  NoClient = NoClient
  Devices = {d1, d2}
  NoDevice = NoDevice
  MaxCommands = 4
INVARIANTS
  AgentForLastDevice
  FlagLostOnlyIfCrossed
  ListIsAlive
PROPERTIES
  DelCompletes
CHECK_DEADLOCK FALSE
