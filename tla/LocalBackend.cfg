SPECIFICATION Spec
CONSTANTS
  npu = npu
  cpu = cpu
  Scopes = {npu, cpu}
  Buckets = {1, 2}
  Overlong = 0
  Batches <- MCBatches
  MaxRows = 3
  Workers = {w1, w2}
  NoWorker = NoWorker
  NoRequest = NoRequest
  NoRow = NoRow
  NoScope = NoScope
  Rank <- MCRank
INVARIANTS OneChild FallbackConfirmed RightVectors
PROPERTIES NeverAgain HolderReturns Ends
CHECK_DEADLOCK FALSE
