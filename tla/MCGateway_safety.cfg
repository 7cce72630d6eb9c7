SPECIFICATION Spec
CONSTANTS
  Connections = {c1, c2}
  States = {s1, s2}
  NoState = NoState
  MaxEvents = 2
  MaxBreaks = 1
  MaxBoth = 2
  MaxEnded = 0
  MaxConnectionsPerUser = 2
  QueueMessages = 2
  MaxPending = 1
SYMMETRY Symmetry
CHECK_DEADLOCK FALSE
INVARIANTS
  TypeOK
  NoSilentGap
  FeedInOrder
  SharedSubscription
