CONSTANTS
  None = None
  Nil = Nil
  u1 = u1
  a1 = a1
  a2 = a2
  Alert = {a1, a2}
  User = {u1}
  Worker = {w1}
  Metric = {"close", "rsi"}
  Market <- Data
  Rule <- Rules
  Edit <- Payloads
  Socket = {s1, s2}
  Url = {ua, ub}
SPECIFICATION MCSpec
PROPERTIES MetAlertsNotify
CHECK_DEADLOCK FALSE
