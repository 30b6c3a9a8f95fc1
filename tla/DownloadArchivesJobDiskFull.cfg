SPECIFICATION JobSpec
CONSTANTS
  first = first  second = second  unknown = unknown  None = None
  Archives = {first, second, unknown}
  List <- MCUnchecked
  Checked = {first}
  Unobtainable = {unknown}
  Faults = {"write", "deadline"}
  MaxOffline = 0
  ScMaxRetries = 2
  MaxUInt = 7
  MaxAnswers = 2
INVARIANTS
  RegisteredIsDownloaded
CHECK_DEADLOCK FALSE
