SPECIFICATION Spec
CONSTANTS
  Files = {f1, f2}
  Queries = {q1}
  Policies = {"strict"}
  MaxEdits = 2
  MaxFailures = 1
  IncrementalMax = 1
  SideScan = TRUE
  Backstops = FALSE
  Timeouts = FALSE
SYMMETRY FileSymmetry
INVARIANTS FreshIsCurrent FingerprintTrue
