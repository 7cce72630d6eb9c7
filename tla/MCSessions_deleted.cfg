\* Exact clocks: the document is deleted while a refresh is under way.
CONSTANTS
  Refreshes = {q1, q2}
  Logouts = {o1}
  Tokens = {t1, t2, t3}
  RefreshTTL = 2
  Leeway = 0
  Skew = 0
  MaxTime = 3
  NoToken = NoToken
  Never = Never
SPECIFICATION Spec
SYMMETRY Symmetry
INVARIANTS
  RefusalIs401
CHECK_DEADLOCK FALSE
