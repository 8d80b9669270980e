CONSTANTS
  N = 4
  Operations <- MCOperations
  Events <- MCEvents
  Library <- MCLibrary
  Entries <- MCEntries
  MaxProgram = 4
  MaxRecord = 4
  MaxVars = 7
  MaxBytes = 9
  MaxList = 1
  MaxEventVars = 2
  MaxEventBytes = 2
  MaxDepth = 1
  Batch = 2
  MaxStack = 9
  MaxCalls = 2
  None = None
SPECIFICATION Spec
CHECK_DEADLOCK FALSE
INVARIANTS  BudgetKept SeesItsEvent
PROPERTIES FailedChangesNothing NoHandlerSuppressed Ends
