CONSTANTS
  r1 = r1
  r2 = r2
  s1 = s1
  s2 = s2
  Core = core
  shard = shard
  Requests = {r1, r2}
  Persisters = {s1, s2}
  Body = {core, shard}
  Place <- ShardFirst
  Mesh = TRUE
  Emits = TRUE
SPECIFICATION Spec
CHECK_DEADLOCK FALSE
SYMMETRY Symmetry
INVARIANTS  HoldsOnly
