\* Three requests and the scheduler compete for two connections.
CONSTANTS
  Requests = {r1, r2, r3}
  Sched = Sched
  MaxConns = 2
SPECIFICATION FairSpec
INVARIANTS
  ConnectionsAccounted
  RequestsFinish
  ServesOnlyMigrated
  SchedulerBeforePool
  LeavesNothingOpen
PROPERTIES
  ShutdownCompletes
  RequestsAnswered
  SchedulerNotStarved
