\* Two workers and a relay whose mark fails: the same settlement twice at once.
SPECIFICATION Spec
CONSTANTS
  r1 = r1
  r2 = r2
  w1 = w1
  w2 = w2
  NoTask = NoTask
  Requests = {r1, r2}
  Workers = {w1, w2}
  MaxRetry = 1
  RelayBatch = 1
  Faults = {"enqueue", "mark"}
  MaxFaults = 2
INVARIANT BilledAtMostOnce
CHECK_DEADLOCK FALSE
