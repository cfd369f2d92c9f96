\* A repository call fails.
CONSTANTS
  Clients = {r1, r2}
  Ids = {i1}
  Confs = {c1}
  Malformed = Malformed
  Garbage = Garbage
  Invalid = Invalid
  Unborn = Unborn
  Deleted = Deleted
  None = None
SPECIFICATION Spec
SYMMETRY Symmetry
INVARIANTS
  FailureIs500
