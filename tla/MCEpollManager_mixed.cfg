CONSTANTS
  Threads = {t1}
  c1 = c1
  c2 = c2
  c3 = c3
  Clients = {c1, c2, c3}
  Fds = {4, 5, 6}
  Master = 3
  NoFd = 0
  Request <- MixedTraffic
SYMMETRY SlowOnes
SPECIFICATION Spec
INVARIANTS
  TypeOK
  ConnectionsAreServedOnce
PROPERTIES
  ManagersFollowTheLibrary
CHECK_DEADLOCK FALSE
