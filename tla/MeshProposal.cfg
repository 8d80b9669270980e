CONSTANTS
  Handlers = {h1, h2}
  MaxRev = 2
  Decisions = {"approved", "denied"}
  MaxEntries = 2
  MaxReceipts = 2
  Faults = TRUE
  Restarts = TRUE
  NoHandler = NoHandler
  NoReq = NoReq
SPECIFICATION Spec
SYMMETRY HandlerSymmetry
INVARIANTS
  OneAtATime
  AnswerOfExecution
  SharedIsApproved
  AtMostOnce
  CollectedIsSettled
  NeverResurrected
PROPERTY InOrder
