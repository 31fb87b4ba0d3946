CONSTANTS
  c1 = c1
  c2 = c2
  c3 = c3
  Clients = {c1, c2}
  Fds = {5, 6, 7}
  Master = 3
  Unit <- Units
  Stop <- StopUnits
  Sends <- LongStreams
  Slow = {c2}
  Packet = 3
  MaxRead = 2
  CtlFails = FALSE
SPECIFICATION FairSpec
INVARIANTS
  TypeOK
  OnlyUntakenIsLost
PROPERTIES
  ClosesForAReason
  ConnectionsEnd
CHECK_DEADLOCK FALSE
