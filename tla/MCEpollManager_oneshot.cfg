CONSTANTS
  Threads = {t1, t2}
  c1 = c1
  c2 = c2
  c3 = c3
  Clients = {c1, c3}
  Fds = {4, 5, 6}
  Master = 3
  NoFd = 0
  Request <- OneShotTraffic
SPECIFICATION FairSpec
INVARIANTS
  DescriptorsHaveOneOwner
  EventsNameLiveConnections
  NothingStale
  RepliesGoToTheirRequest
PROPERTIES
  ConnectionsEnd
  QueuedRequestsAreAnswered
CHECK_DEADLOCK FALSE
