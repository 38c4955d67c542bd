SPECIFICATION FairSpec
CONSTANTS
  Files = {f1}
  Queries = {q1, q2}
  Policies = {"strict", "default", "cached"}
  MaxEdits = 1
  MaxFailures = 0
  IncrementalMax = 1
  SideScan = TRUE
  Backstops = FALSE
  Timeouts = TRUE
PROPERTY BarrierAnswered
