SPECIFICATION ExtractionSpec
CONSTANTS
  o1 = o1
  o2 = o2
  o3 = o3
  f1 = f1
  f2 = f2
  Operations = {o1, o2, o3}
  MaxThreadCount = 2
  Files = {f1, f2}
  Entries <- MCEntries
  SevenZip = {o3}
  ListOf <- MCListOf
  Fragile = {o1}
  User = User
  None = None
  UserFiles = {f1}
  Leftovers = {f1}
  MaxRetries = 1
INVARIANTS
  UndoRemovesEveryAttempt
CHECK_DEADLOCK FALSE
