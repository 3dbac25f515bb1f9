\* Every path of two requests of one key, one that may ask for an upgrade; crashes.
SPECIFICATION FairSpec
CONSTANTS
  r1 = r1
  r2 = r2
  Requests = {r1, r2}
  Upgrades = {r2}
  Cost = 1
  QuotaLimit = 1
  MaxTokens = 2
  MaxWorkers = 2
  Crashes = TRUE
INVARIANTS ClosedOnce ChargedForUse NothingStranded QuotaPassedOnlyTogether
PROPERTY EventuallyClosed
CHECK_DEADLOCK FALSE
