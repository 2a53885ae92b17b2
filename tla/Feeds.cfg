CONSTANTS
  None = None
  Unset = Unset
  Nothing = Nothing
  Requests = 4
  Segments = 1
  Request = {r1, r2}
  Services <- Service
  Keyrings <- Rings
  RETRY_ATTEMPTS = 2
  Ttl = 1
  StatsTtl = 1
  MaxTime = 2
SPECIFICATION MCSpec
INVARIANTS HarmNeedsLeaver AgeBounded NothingIsExhaustive
PROPERTIES CacheShrinksByTheft WaitersAreServed RequestsConverge
CHECK_DEADLOCK FALSE
