CONSTANTS
  None = None
  User = {u1, u2}
  Request = {r1, r2}
  RefreshToken = {t1, t2, t3}
  MaxSecond = 1
  MaxSessions = 1
SPECIFICATION Spec
INVARIANTS TypeOK ExchangedIsDead SessionCap
PROPERTIES NoLateSuccessor OnlyLoginRevives LedgerRefined
SYMMETRY Symmetry
CHECK_DEADLOCK FALSE
