SPECIFICATION FairSpec
CONSTANTS
  MaxSent <- MCMaxSent
  MethodSizes = {1, 2}
  HeaderSize = 1
  AddrSizes = {1}
  MaxBuffer = 2
  ReadSize = 2
CHECK_DEADLOCK FALSE
INVARIANTS
  SessionInvariant
  StreamsIntact
PROPERTIES
  EndIsForwarded
  EventuallyReleased
