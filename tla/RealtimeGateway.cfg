CONSTANTS
  None = None
  Client = {c1, c2}
  PriceTask = {p1, p2}
  InsightsTask = {i1, i2}
  Notifier = {n1}
  MaxCount = 2
  p1 = p1
  p2 = p2
  i1 = i1
  n1 = n1
SPECIFICATION MCSpec
INVARIANTS OthersKeepTheirs StarvedOnlyWhenLate
PROPERTIES MCDeadIsUnregistered MCLeavingEnds
CHECK_DEADLOCK FALSE
