SPECIFICATION Spec
CONSTANTS
  Requests = {r1, r2}
  BurstLimit = 2
  BurstWindow = 3
  MinuteLimit = 3
  MinuteWindow = 6
  Second = 2
  Skew = 1
  MaxTime = 11
  None = None
SYMMETRY Symmetry
INVARIANTS
  LimitsHold
  RefusedOnlyWhenFull
  RoomAsPromised
