CONSTANTS
  None = None
  Nil = Nil
  Attempt = {a1, a2}
  Threshold = 3
  Windows <- Ladder
  SoftThreshold = 0
  Cooldown = 0
  Times = 3
  FallbackTimes = 2
  Weights = {1, 2}
  Seconds = 3
  Socket = {s1, s2}
  MaxEvents = 2
  Keep = 1
SPECIFICATION MCSpec
INVARIANTS GuessesBounded AdmissionIsBounded DeliveredOnce PollsOrListens
PROPERTIES BarsLast LadderNeedsOverlap BarEnds RefusalsAreFree
