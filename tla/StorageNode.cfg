CONSTANTS
  c1 = c1
  c2 = c2
  Clients = {c1, c2}
  Conns = {k1, k2}
  Creators = {c1, c2}
  Entries = {e1, e2}
  MaxRev = 3
  MaxCalls = 2
  Mounts = TRUE
  None = None
  Missing = Missing
SPECIFICATION NodeSpec
SYMMETRY Symmetry
CHECK_DEADLOCK FALSE
INVARIANTS Exclusive MountedOrPassive
PROPERTY CompareAndSwap
