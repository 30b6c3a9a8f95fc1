SPECIFICATION CacheSpec
CONSTANTS
  p1 = p1
  p2 = p2
  a = a
  b = b
  Processes = {p1, p2}
  Items = {a, b}
  MaxFiles = 3
  MaxCrashes = 2
INVARIANTS
  CacheTypeOK
  ActiveIsWhole
  RestingCacheIsWhole
SYMMETRY Symmetry
CHECK_DEADLOCK FALSE
