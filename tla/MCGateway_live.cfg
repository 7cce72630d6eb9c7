SPECIFICATION FairSpec
CONSTANTS
  Connections = {c1}
  States = {s1}
  NoState = NoState
  MaxEvents = 2
  MaxBreaks = 1
  MaxBoth = 3
  MaxEnded = 1
  MaxConnectionsPerUser = 1
  QueueMessages = 2
  MaxPending = 1
CHECK_DEADLOCK FALSE
PROPERTIES
  EveryFeedAdvances
  DoomedIsClosed
  ShutdownCompletes
