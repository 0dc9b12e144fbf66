SPECIFICATION WorkersSpec
CONSTANTS
  a1 = a1  a2 = a2
  n1 = n1  n2 = n2  n3 = n3
  Agents = {a1, a2}
  Nobody = Nobody
  NotLeader = NotLeader
  LeaseDuration = 1
  MaxSkew = 1
  Skew <- TwoAgentsSkew
  Horizon = 4
  MaxVersion = 6
  target_namespaces = {n1, n2, n3}
  DISCOVERY_BATCH_SIZE = 2
INVARIANTS WorksUnderItsGrant SuccessIsComplete WorkersIInv
CHECK_DEADLOCK FALSE
