\* One channel, requests that always report back: every half-open spell is decided.
SPECIFICATION FairSpec
CONSTANTS
  c1 = c1
  c2 = c2
  r1 = r1
  r2 = r2
  a1 = a1
  Channels = {c1}
  Requests = {r1, r2}
  Async = {}
  Eligible <- AllEligible
  BadUrl = {}
  MaxRetries = 2
  Threshold = 2
  Aborts = FALSE
  AdminOps = {"reset", "load"}
  MaxAdmin = 2
INVARIANTS OneProbe ClosedStaysBelow
PROPERTY HalfOpenDecided
