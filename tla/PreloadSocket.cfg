SPECIFICATION FairSpec
CONSTANTS
  NameLengths = {0, 1, 9}
  Payload = 2
  MaxConns = 2
  MaxFaults = 1
CHECK_DEADLOCK FALSE
INVARIANTS
  SocketInvariant
PROPERTIES
  CallReturns
  ConnectionsAreAccepted
