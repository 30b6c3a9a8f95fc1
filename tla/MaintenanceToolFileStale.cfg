SPECIFICATION FileSpec
CONSTANTS
  None = None  Partial = Partial  Bare = Bare  Marked = Marked
  MaxGeneration = 3
  MaxCrashes = 2
  MayFail <- MCNoTemporary
INVARIANTS
  NeverStartsFromOlder
CHECK_DEADLOCK FALSE
