CONSTANTS
  None = None
  User = {u1}
  Request = {r1, r2}
  RefreshToken = {t1, t2}
  MaxSecond = 1
  MaxSessions = 5
SPECIFICATION Spec
PROPERTY AllSessionsRevoked
CHECK_DEADLOCK FALSE
