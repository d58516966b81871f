CONSTANTS
  c1 = c1
  c2 = c2
  c3 = c3
  Clients = {c1, c2, c3}
  MaxConnections = 2
  MaxPackets = 4
  MaxRows = 2
  Line <- ConsoleLine
SPECIFICATION ConsoleSpec
CHECK_DEADLOCK FALSE
INVARIANTS
  ClosesOnlyAServer
