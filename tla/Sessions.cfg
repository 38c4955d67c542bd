SPECIFICATION Spec
CONSTANTS
  s1 = s1
  s2 = s2
  Sessions = {s1, s2}
  Torn = Torn
  Window = 3
  MaxStaged = 1
  Every = 2
  Workloads <- MCWorkloads
  Recurring = Recurring
  StagingFull = StagingFull
  NoOne = NoOne
CHECK_DEADLOCK FALSE
INVARIANTS RecordsKept NeverOverbooked HonestWarning ToldOnce
PROPERTY SettledStays
