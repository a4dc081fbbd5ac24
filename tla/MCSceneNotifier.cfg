SPECIFICATION NotifierFairSpec
CONSTANTS
  d1 = d1
  d2 = d2
  d3 = d3
  Digests = {d1, d2, d3}
  NoHash = NoHash
  Debounce = 3
  MaxLoads = 1
  MaxCycles = 2
INVARIANTS
  NotifierTypeOK
  PendingHasTimer
PROPERTIES
  DigestsReachClients
  BroadcastsAreSpaced
