CONSTANTS
  Ids = {a}
  MaxRestarts = 2
  Faults = TRUE
  NoId = NoId
SPECIFICATION FairSpec
INVARIANTS
  EffectAtMostOnce
  DoneIsDelivered
PROPERTIES
  ResponseKept
  Settles
