\* A cold cache, loads, a credit and a subscription change at any time.
SPECIFICATION Spec
CONSTANTS
  r1 = r1
  r2 = r2
  r3 = r3
  v1 = v1
  c1 = c1
  c2 = c2
  s1 = s1
  Requests = {r1, r2}
  Cost <- CostOf
  Policy <- MixedPolicy
  Actuals = {1, 3}
  Viewers = {}
  Credits = {c1, c2}
  CreditPool <- CreditPoolOf
  CreditDelta <- CreditDeltaOf
  Adjustments = {}
  Applies = {s1}
  NewSub = 1
  NewGrant = 2
  InitDb <- OneEach
  WarmStart = FALSE
  Faults = {"redis", "db"}
  MaxFaults = 1
INVARIANTS PaidMoneyConserved AllOrNothing
PROPERTY ScriptsNeverOverdraw
CHECK_DEADLOCK FALSE
