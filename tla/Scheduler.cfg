\* One target through all its configurations, one of which has a non-positive
\* interval, and two goroutines: a superseded one beside the current one.
CONSTANTS
  Ids = {i1}
  Confs = {c1, c2, zero}
  Usable = {c1, c2}
  Slots = {g1, g2}
  Unborn = Unborn
  Deleted = Deleted
  Disabled = Disabled
  None = None
SPECIFICATION FairSpec
INVARIANTS
  TypeOK
  NoOrphanRunner
  ScheduleMatchesListing
PROPERTIES
  UnchangedTargetUndisturbed
  OnlyDeletedAreSwept
  Converges
  KeepsChecking
  StoppedRunnersExit
