\* Three requests for two places, every failure, requests that outlive the key.
SPECIFICATION Spec
CONSTANTS
  r1 = r1
  r2 = r2
  r3 = r3
  Requests = {r1, r2, r3}
  Limit = 2
  LongRuns = TRUE
  Faults = {"redis", "crash"}
  MaxFaults = 2
SYMMETRY Symmetry
INVARIANTS LimitRespected NoLeakedSlot
