SPECIFICATION FileSpec
CONSTANTS
  None = None  Partial = Partial  Bare = Bare  Marked = Marked
  MaxGeneration = 2
  MaxCrashes = 0
  MayFail <- MCNoTemporary
INVARIANTS
  NextRunReadsWritten
CHECK_DEADLOCK FALSE
