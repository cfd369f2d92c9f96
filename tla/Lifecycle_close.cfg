\* Shutdown gives up on a request that goes on.
CONSTANTS
  Requests = {r1, r2}
  Sched = Sched
  MaxConns = 2
SPECIFICATION Spec
INVARIANTS
  NothingUsesPoolAtClose
