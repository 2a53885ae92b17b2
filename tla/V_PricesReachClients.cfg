CONSTANTS
  None = None
  Client = {c1, c2}
  PriceTask = {p1, p2}
  InsightsTask = {i1}
  Notifier = {}
  MaxCount = 1
SPECIFICATION FairSpec
PROPERTY PricesReachClients
CHECK_DEADLOCK FALSE
