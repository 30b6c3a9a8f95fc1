SPECIFICATION MetadataSpec
CONSTANTS
  d1 = d1
  c1 = c1
  z1 = z1
  z2 = z2
  Default <- MCDefault
  Categorized <- MCCategorized
  Archives <- MCArchives
  WithoutMeta <- MCWithoutMeta
  KnownSum <- MCKnownSum
  ChunkSize = 1
  Persistent = TRUE
  MaxFetches = 3
  MaxCancels = 0
  MaxRestarts = 0
INVARIANTS
  FetchedIsInUse
CHECK_DEADLOCK FALSE
