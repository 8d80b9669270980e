CONSTANTS
  Core = core
  Spaces = {s1}
  Ids = {a}
  MaxVersion = 3
  MaxMemories = 1
  MaxFails = 1
  MaxRestarts = 1
  None = None
SPECIFICATION Spec
CHECK_DEADLOCK FALSE
PROPERTIES NewestKept TransferAnswers
INVARIANT KeepInv
