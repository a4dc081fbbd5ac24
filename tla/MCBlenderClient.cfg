SPECIFICATION FairSpec
CONSTANTS
  k1 = k1
  k2 = k2
  k3 = k3
  NoCall = NoCall
  Calls = {k1, k2, k3}
  MaxSocks = 3
INVARIANTS
  TypeOK
  OneReaderPerSocket
  AwaitedHasReader
PROPERTIES
  SendersReturn
  DrainEnds
CHECK_DEADLOCK FALSE
