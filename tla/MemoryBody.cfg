CONSTANTS
  a = a
  b = b
  Ids = {a, b}
  Vals = {v}
  None = None
  NoEntry = NoEntry
  MaxSeq = 2
  MaxEntries = 2
  Recreated = {b}
  SpecDeleted = {b}
  Paged = {b}
  Imported = {b}
SPECIFICATION FairSpec
INVARIANTS
  ReadYourWrites
  AckedDurable
  JournalOfThisBase
  PersistNeverRefused
PROPERTIES
  Implements
  PersistReturns
