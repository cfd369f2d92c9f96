\* A target restarted with another configuration: the old goroutine's job may be
\* queued, running or abandoned when the new one submits.
CONSTANTS
  Ids = {i1}
  Confs = {c1, c2}
  Usable = {c1, c2}
  Slots = {g1, g2}
  Workers = {w1}
  QueueSize = 1
  Unborn = Unborn
  Deleted = Deleted
  Disabled = Disabled
  None = None
SPECIFICATION Spec
SYMMETRY Symmetry
INVARIANTS
  WantedJobsAreScheduled
  OneSlotPerTarget
PROPERTIES
  ImplementsPool
