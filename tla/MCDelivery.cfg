\* A valid, an invalid and a stuck event, of which the stuck one takes one of two
\* places for ever; two dispatchers.
CONSTANTS
  Events = {e1, e2, e3}
  Valid = {e1, e3}
  Stuck = {e3}
  Dispatchers = {d1, d2}
  MaxAckPending = 2
  NoEvent = NoEvent
SPECIFICATION FairSpec
INVARIANTS
  AckedIsTold
  TerminatedIsRecorded
PROPERTIES
  EveryEventIsDelivered
CHECK_DEADLOCK FALSE
