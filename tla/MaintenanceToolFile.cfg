SPECIFICATION FileSpec
CONSTANTS
  None = None  Partial = Partial  Bare = Bare  Marked = Marked
  MaxGeneration = 3
  MaxCrashes = 2
  MayFail <- FileOperations
INVARIANTS
  FileTypeOK
  CommittedSurvives
  StartsFromCommitted
CHECK_DEADLOCK FALSE
