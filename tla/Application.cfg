\* Two requests race for the row that the scheduler lists.
CONSTANTS
  Clients = {r1, r2}
  Ids = {i1}
  Confs = {c1}
  Malformed = Malformed
  Garbage = Garbage
  Invalid = Invalid
  Slots = {g1}
  Workers = {w1}
  QueueSize = 1
  Unborn = Unborn
  Deleted = Deleted
  Disabled = Disabled
  None = None
  Sent <- Writes
SPECIFICATION Spec
SYMMETRY Symmetry
INVARIANTS
  ChecksFollowTable
PROPERTIES
  ImplementsMonitor
  DeletedStaysUnscheduled
