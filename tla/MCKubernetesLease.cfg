SPECIFICATION Spec
CONSTANTS
  a1 = a1  a2 = a2
  Agents = {a1, a2}
  Nobody = Nobody
  NotLeader = NotLeader
  LeaseDuration = 2
  MaxSkew = 1
  Skew <- MCSkew
  Horizon = 6
  MaxVersion = 3
INVARIANTS TypeOK LeaseHonoured OneLeader IInv
PROPERTIES TakeoverOnlyAfterExpiry RenewTimeNeverGoesBack ImplementsLeaderLease
CHECK_DEADLOCK FALSE
