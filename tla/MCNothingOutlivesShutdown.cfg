SPECIFICATION Spec
CONSTANTS
  heartbeat = heartbeat  scheduler = scheduler  snapshot = snapshot
  Workers = {heartbeat, scheduler, snapshot}
  Snapshot = snapshot
  PoolSize = 2
INVARIANTS NothingOutlivesShutdown
CHECK_DEADLOCK FALSE
