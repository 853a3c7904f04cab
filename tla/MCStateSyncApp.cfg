SPECIFICATION Spec
CONSTANTS
  Modes = {"app"}
  SyncDevice = {d1, d2}
  SyncRefresh = {r1, r2}
  MaxVersion = 3
SYMMETRY Symmetry
CHECK_DEADLOCK FALSE
PROPERTY CacheNeverGoesBack
