SPECIFICATION JobSpec
CONSTANTS
  first = first  second = second  unknown = unknown  None = None
  Archives = {first, second, unknown}
  List <- MCGone
  Checked = {first}
  Unobtainable = {unknown}
  Faults = {"open", "deadline"}
  MaxOffline = 0
  ScMaxRetries = 2
  MaxUInt = 7
  MaxAnswers = 2
INVARIANTS
  CompletedHasDownloader
CHECK_DEADLOCK FALSE
