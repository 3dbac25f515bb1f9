\* One user, three deliveries, two handlers, a sweep, bills, a failure.
SPECIFICATION FairSpec
CONSTANTS
  refund = refund
  plan = plan
  renew = renew
  other = other
  Events = {refund, plan, renew, other}
  Payload <- MCPayload
  Procs = {p1, p2}
  Sweepers = {s1}
  MaxDeliveries = 3
  Adjustments <- OneTopUp
  TicksPerDay = 2
  LastTick = 4
  Bills = {"sub"}
  MaxFaults = 1
  NoOne = NoOne
  NoEvent = NoEvent
INVARIANTS PaidMoneyExact AuditExact
PROPERTIES SweepSparesValid ExpiredCleared
CHECK_DEADLOCK FALSE
