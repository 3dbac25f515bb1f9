\* Two tiers, token counts below and above the limit, a window of two ticks.
SPECIFICATION AccessSpec
CONSTANTS
  KeyIds = {"k1", "k2"}
  MaxStrings = 2
  UserRequests = {"r1"}
  TierLimits <- MCTierLimits
  RPMLimit = 1
  TPMLimit = 2
  Tiers = {0, 1}
  Window = 2
  Tokens = {1, 3}
INVARIANT AtMostTwoWindows
PROPERTIES WindowEnds WithdrawnKeyOut
