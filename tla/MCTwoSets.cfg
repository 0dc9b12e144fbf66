SPECIFICATION FairSpec
CONSTANTS
  a1 = a1  a2 = a2
  s1 = s1  s2 = s2
  c1 = c1  c2 = c2  c3 = c3
  Agents = {a1}
  Nobody = Nobody
  NoClaimSet = NoClaimSet
  NoClaim = NoClaim
  ClaimSets = {s1, s2}
  Claims = {c1, c2, c3}
  ClaimsOf <- TwoSetsClaimsOf
  Position <- TwoSetsPosition
  Listed <- TwoSetsListed
  ExecutionMode <- TwoSetsMode
  MAX_RETRIES = 3
INVARIANTS SlotFreeWhilePolling TakenSetsAccountedFor
PROPERTIES ImplementsDelivery PollsEnd QueuedSetsEnd ShutdownEnds
CHECK_DEADLOCK FALSE
