CONSTANTS
  None = None
  User = {u1}
  Request = {r1, r2}
  RefreshToken = {t1, t2, t3, t4}
  MaxSecond = 1
  MaxSessions = 5
SPECIFICATION Spec
INVARIANT RefreshIsAnswered
CHECK_DEADLOCK FALSE
