CONSTANTS
  c1 = c1
  c2 = c2
  c3 = c3
  Clients = {c1, c2, c3}
  Fds = {5, 6, 7}
  Master = 3
  Unit <- Units
  Stop <- StopUnits
  Sends <- ShortStreams
  Slow = {}
  Packet = 3
  MaxRead = 2
  CtlFails = TRUE
SPECIFICATION FairSpec
INVARIANTS
  EventsAreCurrent
  OpenConnectionsAreServed
PROPERTIES
  QueuedAreAccepted
CHECK_DEADLOCK FALSE
