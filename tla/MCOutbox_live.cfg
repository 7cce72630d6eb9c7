\* A valid and an invalid event, one worker, one recoverer.
CONSTANTS
  Events = {e1, e2}
  Valid = {e1}
  Workers = {w1}
  Recoverers = {r1}
  LeaseIDs = {l1, l2, l3, l4, l5}
  NoLease = NoLease
  NoEvent = NoEvent
SPECIFICATION FairSpec
PROPERTIES
  EveryEventSettles
CHECK_DEADLOCK FALSE
