\* A logout on an instance whose clock is behind, and then a refresh.
CONSTANTS
  Refreshes = {q1}
  Logouts = {o1}
  Tokens = {t1, t2}
  RefreshTTL = 2
  Leeway = 1
  Skew = 1
  MaxTime = 2
  NoToken = NoToken
  Never = Never
SPECIFICATION Spec
SYMMETRY Symmetry
INVARIANTS
  RefusalIs401
CHECK_DEADLOCK FALSE
