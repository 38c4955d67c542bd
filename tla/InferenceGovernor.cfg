SPECIFICATION Spec
CONSTANTS
  Adapters = {a1, a2}
  Bucket <- OneBucket
  MinBucket = 1
  MaxBucket = 1
  MaxOperations <- Operations
  MaxCharged <- Charges
  MaxDuration <- Two
  MinCooldown <- One
  Numerator <- One
  Denominator <- Two
  LockWait = 3
  MaxTime = 6
  MaxBoots = 1
SYMMETRY AdapterSymmetry
CHECK_DEADLOCK FALSE
INVARIANTS OneNative UnsettledBlocks Budget HalfDuty SelfConsistent
