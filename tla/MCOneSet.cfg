SPECIFICATION Spec
CONSTANTS
  a1 = a1  a2 = a2
  s1 = s1  s2 = s2
  c1 = c1  c2 = c2  c3 = c3
  Agents = {a1, a2}
  Nobody = Nobody
  NoClaimSet = NoClaimSet
  NoClaim = NoClaim
  ClaimSets = {s1}
  Claims = {c1, c2, c3}
  ClaimsOf <- OneSetClaimsOf
  Position <- OneSetPosition
  Listed <- OneSetListed
  ExecutionMode <- OneSetMode
  MAX_RETRIES = 3
SYMMETRY MCSymmetry
INVARIANTS TypeOK SlotFreeWhilePolling SlotIsOwned TakenSetsAccountedFor IInv
PROPERTIES ImplementsDelivery LetGoForGood
CHECK_DEADLOCK FALSE
