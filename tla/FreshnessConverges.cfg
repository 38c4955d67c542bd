SPECIFICATION FairSpec
CONSTANTS
  Files = {f1, f2}
  Queries = {}
  Policies = {"cached"}
  MaxEdits = 3
  MaxFailures = 1
  IncrementalMax = 1
  SideScan = FALSE
  Backstops = TRUE
  Timeouts = TRUE
PROPERTY Converges
