SPECIFICATION Spec
CONSTANTS
  Clients = {c1, c2}
  NoClient = NoClient
  Devices = {d1, d2}
  NoDevice = NoDevice
  MaxCommands = 2
SYMMETRY Interchangeable
INVARIANT
  NoDuplicateDevice
CHECK_DEADLOCK FALSE
