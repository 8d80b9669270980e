CONSTANTS
  Handlers = {h1}
  MaxRev = 2
  Decisions = {"approved", "denied"}
  MaxEntries = 3
  MaxReceipts = 2
  Faults = FALSE
  Restarts = FALSE
  NoHandler = NoHandler
  NoReq = NoReq
SPECIFICATION FairSpec
PROPERTY Drains
