SPECIFICATION FairSpec
CONSTANTS
  heartbeat = heartbeat  scheduler = scheduler  snapshot = snapshot
  Workers = {heartbeat, scheduler, snapshot}
  Snapshot = snapshot
  PoolSize = 2
INVARIANTS LeaseCallsDoNotOverlap ShutdownWaitsForAll IInv
PROPERTIES NothingStartsAfterShutdown ShutdownCompletes IterationsEnd ProcessExits SnapshotsGoOn
CHECK_DEADLOCK FALSE
