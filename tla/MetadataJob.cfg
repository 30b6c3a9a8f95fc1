SPECIFICATION MetadataSpec
CONSTANTS
  d1 = d1
  c1 = c1
  z1 = z1
  z2 = z2
  Default <- MCDefault
  Categorized <- MCCategorized
  Archives <- MCArchives
  WithoutMeta <- MCWithoutMeta
  KnownSum <- MCKnownSum
  ChunkSize = 1
  Persistent = TRUE
  MaxFetches = 2
  MaxCancels = 1
  MaxRestarts = 1
INVARIANTS
  MetadataTypeOK
  SuccessMeansFetched
  DeletedInUseAfterCancel
PROPERTIES
  FetchEnds
CHECK_DEADLOCK FALSE
