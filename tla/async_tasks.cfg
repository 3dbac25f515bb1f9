\* One task, two follow-up requests that poll or cancel, one failure.
SPECIFICATION FairSpec
CONSTANTS
  FollowUps = {h1, h2}
  Hold <- MCHold
  Words <- MCWords
  MaxFaults = 1
INVARIANTS
  ClosedOnceIfAlone
  PaidForResult
  BackToItsPools
PROPERTIES
  FinishedStands
  FinishedIsClosed
CHECK_DEADLOCK FALSE
