CONSTANTS
  None = None
  c1 = c1
  v1 = v1
  p1 = p1
  Chatter = {c1, c2}
  Visitor = {v1}
  Run = {r1}
  Job = {j1, j2}
  Cancellable = {v1}
  Prompt = {p1, p2}
  Chain <- Providers
  MaxRetries = 3
  Threshold = 2
SPECIFICATION MCSpec
INVARIANTS TypeOK BreakersAgree PendingIsSound OneLateAttempt AnswersFit
SYMMETRY Symmetry
CHECK_DEADLOCK FALSE
