\* Three requests at once: a pair can race over one row while a third reads.
CONSTANTS
  Clients = {r1, r2, r3}
  Ids = {i1, i2}
  Confs = {c1}
  Malformed = Malformed
  Garbage = Garbage
  Invalid = Invalid
  Unborn = Unborn
  Deleted = Deleted
  None = None
SPECIFICATION Spec
SYMMETRY Symmetry
INVARIANTS
  TypeOK
PROPERTIES
  RowsEvolve
  Linearizable
