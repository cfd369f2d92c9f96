\* One goroutine at a time, two configurations, a queue and a worker.
CONSTANTS
  Ids = {i1}
  Confs = {c1, c2}
  Usable = {c1, c2}
  Slots = {g1}
  Workers = {w1}
  QueueSize = 1
  Unborn = Unborn
  Deleted = Deleted
  Disabled = Disabled
  None = None
SPECIFICATION FairSpec
PROPERTIES
  KeepsRunningChecks
  StaleChecksDieOut
  ShutdownTerminates
  ImplementsScheduler
