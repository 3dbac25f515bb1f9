\* A warm cache that nothing invalidates, every kind of failure.
SPECIFICATION Spec
CONSTANTS
  r1 = r1
  r2 = r2
  r3 = r3
  v1 = v1
  c1 = c1
  c2 = c2
  s1 = s1
  Requests = {r1, r3}
  Cost <- CostOf
  Policy <- MixedPolicy
  Actuals = {0, 1, 3}
  Viewers = {v1}
  Credits = {c1, c2}
  CreditPool <- CreditPoolOf
  CreditDelta <- CreditDeltaOf
  Adjustments = {c1}
  Applies = {}
  NewSub = 0
  NewGrant = 0
  InitDb <- OneEach
  WarmStart = TRUE
  Faults = {"redis", "db", "crash"}
  MaxFaults = 3
INVARIANTS CacheBacked OverdrawnOnlyByDebit LedgerExact AdmittedIsHeld
CHECK_DEADLOCK FALSE
