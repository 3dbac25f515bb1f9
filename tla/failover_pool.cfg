\* Two channels, one badly configured; a video task that only one can serve; who lets a probe go.
SPECIFICATION Spec
CONSTANTS
  c1 = c1
  c2 = c2
  r1 = r1
  r2 = r2
  a1 = a1
  Channels = {c1, c2}
  Requests = {r1, a1}
  Async = {a1}
  Eligible <- NotC1
  BadUrl = {c2}
  MaxRetries = 2
  Threshold = 2
  Aborts = TRUE
  AdminOps = {"reset", "probe"}
  MaxAdmin = 2
INVARIANTS TriedAlternatives ProbeOwnedUnlessDropped
