SPECIFICATION WorkersSpec
CONSTANTS
  a1 = a1  a2 = a2
  n1 = n1  n2 = n2  n3 = n3
  Agents = {a1}
  Nobody = Nobody
  NotLeader = NotLeader
  LeaseDuration = 1
  MaxSkew = 1
  Skew <- OneAgentSkew
  Horizon = 2
  MaxVersion = 7
  target_namespaces = {n1, n2, n3}
  DISCOVERY_BATCH_SIZE = 2
INVARIANT WorkersSurviveErrors
CHECK_DEADLOCK FALSE
