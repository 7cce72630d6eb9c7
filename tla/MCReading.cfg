SPECIFICATION ReadingSpec
CONSTANTS
  Readers = {r1}
  MaxItems = 4
  Times = {1, 2}
  MaxPageSize = 2
  MaxSequence = 5
  MaxUsers = 3
  Calls = {c1, c2}
  None = None
SYMMETRY Symmetry
CHECK_DEADLOCK FALSE
INVARIANTS
  RecoveryComplete
  HistoryComplete
  LegacyWalkComplete
  NeverRefusedLate
  OneChatPerPair
  ListWalkComplete
