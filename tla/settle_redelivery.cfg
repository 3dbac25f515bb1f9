\* One worker, every kind of failure: copies, retries and crashes in any order.
SPECIFICATION FairSpec
CONSTANTS
  r1 = r1
  r2 = r2
  w1 = w1
  w2 = w2
  NoTask = NoTask
  Requests = {r1, r2}
  Workers = {w1}
  MaxRetry = 1
  RelayBatch = 1
  Faults = {"enqueue", "late", "outbox", "mark", "db", "crash"}
  MaxFaults = 4
INVARIANTS TypeOK BilledAtMostOnce QuotaBacked NoSilentLoss
PROPERTIES ImplementsBillOnce EventuallyBilled
CHECK_DEADLOCK FALSE
