SPECIFICATION WorkersSpec
CONSTANTS
  a1 = a1  a2 = a2
  n1 = n1  n2 = n2  n3 = n3
  Agents = {a1, a2}
  Nobody = Nobody
  NotLeader = NotLeader
  LeaseDuration = 1
  MaxSkew = 1
  Skew <- TwoAgentsSkew
  Horizon = 4
  MaxVersion = 5
  target_namespaces = {n1}
  DISCOVERY_BATCH_SIZE = 2
INVARIANT PublishesAsHolder
CHECK_DEADLOCK FALSE
