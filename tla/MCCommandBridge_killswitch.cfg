SPECIFICATION Spec
CONSTANTS
  c1 = c1
  c2 = c2
  r1 = r1
  r2 = r2
  r3 = r3
  NoReq = NoReq
  Conns = {c1, c2}
  Requests = {r1, r2, r3}
  MaxConnections = 2
  InboxMax = 2
  MaxStarts = 2
SYMMETRY Symmetry
PROPERTIES
  KillSwitch
