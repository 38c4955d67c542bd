SPECIFICATION Spec
CONSTANTS
  c1 = c1
  t = t
  a = a
  b = b
  Candidates = {c1}
  Targets = {t}
  Bytes <- MCBytes
  Absent = Absent
  NoTarget = NoTarget
  PausedBytes = {b}
  Proposals <- MCProposals
  Modelled <- MCModelled
  Manual <- MCManual
  NoOne = NoOne
  None = None
  Limit = 1
  MaxCopies = 2
  MaxSubmissions = 2
  MaxEdits = 1
  MaxFaults = 2
  Crashes = TRUE
INVARIANTS Agreement OneFate OneOwner HistoryTrue SettledIsDecided
PROPERTIES EditsSurvive Implements
CHECK_DEADLOCK FALSE
