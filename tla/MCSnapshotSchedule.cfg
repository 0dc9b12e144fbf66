SPECIFICATION Spec
CONSTANTS
  a1 = a1  a2 = a2
  Agents = {a1, a2}
  Nobody = Nobody
  STARTUP_RETRY_LIMIT = 2
  STARTUP_RETRY_INTERVAL = 2
  namespace_snapshot_interval = 5
  heartbeat_interval = 2
  LeaseDuration = 2
  BatchTime = 1
  Delay = 1
  MaxWait = 9
SYMMETRY MCSymmetry
INVARIANTS RoundsKeepComing FirstRoundIsFast IInv
