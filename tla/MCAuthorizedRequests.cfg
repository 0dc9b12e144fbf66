SPECIFICATION FairSpec
CONSTANTS
  r1 = r1  r2 = r2
  Requests = {r1, r2}
  MAX_RETRIES = 2
  ExpiresIn = 3
  Margin = 1
  Skew <- OneBehind
  Horizon = 3
INVARIANTS RefreshesAreNeeded LockIsHeldByOne ExpiredOnlyIfSlow IInv
PROPERTIES ImplementsContract EveryRequestEnds
CHECK_DEADLOCK FALSE
