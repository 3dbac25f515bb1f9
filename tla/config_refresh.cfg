\* Two writes while both loops and a request run.
SPECIFICATION ConfigSpec
CONSTANTS
  TokenUnit = 2
  HalfRange = 32
  Models = {"m1"}
  Channels = {"c1"}
  ModelRows <- MCModelRows
  ChannelRows <- MCChannelRows
  PricedRequests = {"r1"}
  Asks <- MCAsks
  Usages <- MCUsages
  None = None
  MaxWrites = 2
INVARIANTS PricedUnlessGone EstimateCovers
PROPERTY Converges
