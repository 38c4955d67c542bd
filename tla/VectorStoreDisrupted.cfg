SPECIFICATION Spec
CONSTANTS
  Hosts = {h1, h2}
  Embedders = {h1, h2}
  Texts = {t1, t2, t3}
  None = None
  Batch = 2
  SeekUntil = 1
  Faults = {"stop", "tear", "outage", "flip", "rebuild"}
  MaxFaults = 2
SYMMETRY TextSymmetry
CHECK_DEADLOCK FALSE
INVARIANTS Aligned
