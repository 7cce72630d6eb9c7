\* Two attempts with two contents, two cleanup loops, clocks that differ, the
\* smallest periods that leave every deadline its room; fair cleaning.
CONSTANTS
  Uploads = {u1, u2}
  Cleaners = {d1, d2}
  Contents = {b1, b2}
  Lease = 2
  AbandonAfter = 3
  Grace = 5
  Skew = 1
  PutTime = 2
  Suspension = 1
  NoToken = NoToken
  NoContent = NoContent
SPECIFICATION FairSpec
INVARIANTS
  ReadyIsStored
  DeletedIsGone
PROPERTIES
  OkMeansStored
  LeaseIsExclusive
  UnattachedIsDeleted
CHECK_DEADLOCK FALSE
