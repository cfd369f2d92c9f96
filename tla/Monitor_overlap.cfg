\* Two workers, so that two checks can run at the same time.
CONSTANTS
  Ids = {i1}
  Confs = {c1, c2}
  Usable = {c1, c2}
  Slots = {g1, g2}
  Workers = {w1, w2}
  QueueSize = 1
  Unborn = Unborn
  Deleted = Deleted
  Disabled = Disabled
  None = None
SPECIFICATION Spec
INVARIANTS
  ChecksNeverOverlap
