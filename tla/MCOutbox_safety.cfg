\* One event that can be published and one that cannot, three workers (an old
\* owner, a new one, and a third), one recoverer.
CONSTANTS
  Events = {e1, e2}
  Valid = {e1}
  Workers = {w1, w2, w3}
  Recoverers = {r1}
  LeaseIDs = {l1, l2, l3, l4, l5, l6, l7}
  NoLease = NoLease
  NoEvent = NoEvent
SPECIFICATION Spec
SYMMETRY Symmetry
INVARIANTS
  SoleOwner
  FailedIsNeverSent
PROPERTIES
  ClaimEndsByOwnerOrExpiry
  ImplementsPublication
CHECK_DEADLOCK FALSE
