SPECIFICATION JobSpec
CONSTANTS
  first = first  second = second  unknown = unknown  None = None
  Archives = {first, second, unknown}
  List <- MCList
  Checked = {first}
  Unobtainable = {unknown}
  Faults = {"http", "bad", "write", "open", "deadline"}
  MaxOffline = 1
  ScMaxRetries = 2
  MaxUInt = 7
  MaxAnswers = 2
INVARIANTS
  JobTypeOK
  CheckedIsWhole
  SuccessMeansAll
PROPERTIES
  JobEnds
CHECK_DEADLOCK FALSE
