SPECIFICATION FairSpec
CONSTANTS
  Hosts = {h1, h2, h3}
  Embedders = {h1, h2}
  Texts = {t1, t2}
  None = None
  Batch = 1
  SeekUntil = 1
  Faults = {"stop", "rebuild"}
  MaxFaults = 2
CHECK_DEADLOCK FALSE
INVARIANTS RightVector DeriveOnce Kept
PROPERTY Covered
