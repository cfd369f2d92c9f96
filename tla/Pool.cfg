\* Two callers, two workers and one queue slot: a job can be run, queued, blocked
\* and abandoned, and a worker's next job is that of another caller.
CONSTANTS
  Callers = {g1, g2}
  Workers = {w1, w2}
  QueueSize = 1
  Targets = {t1, t2}
  None = None
SPECIFICATION FairSpec
INVARIANTS
  TypeOK
  WaitingJobInOnePlace
  AnswersOwnTarget
  CanceledOnlyWhenDone
PROPERTIES
  PoolStops
  ImplementsTargetChecker
