SPECIFICATION FairSpec
CONSTANTS
  Files = {f1}
  Queries = {}
  Policies = {"cached"}
  MaxEdits = 2
  MaxFailures = 0
  IncrementalMax = 1
  SideScan = TRUE
  Backstops = TRUE
  Timeouts = TRUE
PROPERTY Converges
