SPECIFICATION Spec
CONSTANTS
  k1 = k1
  k2 = k2
  k3 = k3
  w1 = w1
  w2 = w2
  Reads = {k1, k2}
  Writes = {w1}
  Changed = Changed
  TTL = 2
  MaxScene = 2
  MaxClock = 2
SYMMETRY Symmetry
INVARIANTS
  TypeOK
  ReadsOwnWrites
  HitsAreRecent
CHECK_DEADLOCK FALSE
