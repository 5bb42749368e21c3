SPECIFICATION ReadingSpec
CONSTANTS
  listenfd = 3
  Fds = {4, 5}
  MaxQueued = 1
  MaxBatch = 2
  MaxBacklog = 1
INVARIANTS
  SetsFollowClients
  NeverWaitsInRecv
PROPERTIES
  OnlySelectForgets
  ReadersServed
  QueuedIsSentWithRoom
