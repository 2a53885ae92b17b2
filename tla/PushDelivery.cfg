CONSTANTS
  None = None
  Row = {r1, r2}
  Thread = {t1}
  EventLoop = loop
  PRUNE_FAIL_THRESHOLD = 2
  MaxRetries = 1
  Schedule <- ShortDelays
SPECIFICATION Spec
INVARIANTS TypeOK CountHasDate
PROPERTIES QuarantineLasts OnlyDeletionCutsShort BroadcastsConverge
SYMMETRY Symmetry
