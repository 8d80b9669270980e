CONSTANTS
  t1 = t1
  t2 = t2
  p1 = p1
  p2 = p2
  p3 = p3
  s1 = s1
  Txns = {t1, t2}
  Primary = {p1, p2, p3}
  Shard = {s1}
  Fresh = {p3}
  MaxWorking = 2
  MaxOps = 3
  TryCalls = TRUE
  None = None
SPECIFICATION Spec
SYMMETRY Symmetry
CHECK_DEADLOCK FALSE
INVARIANTS    EffectAtMostOnce
