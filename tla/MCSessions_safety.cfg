\* Two holders of one token and a third request, a logout in between, and clocks
\* that differ.
CONSTANTS
  Refreshes = {q1, q2, q3}
  Logouts = {o1}
  Tokens = {t1, t2, t3, t4}
  RefreshTTL = 2
  Leeway = 1
  Skew = 1
  MaxTime = 4
  NoToken = NoToken
  Never = Never
SPECIFICATION Spec
SYMMETRY Symmetry
INVARIANTS
  SingleUse
  ReuseEndsSession
  LogoutEndsSession
  ExpiresWithToken
PROPERTIES
  EndedIsFinal
CHECK_DEADLOCK FALSE
