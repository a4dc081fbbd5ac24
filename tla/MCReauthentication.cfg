SPECIFICATION Spec
CONSTANTS
  k1 = k1
  k2 = k2
  k3 = k3
  Calls = {k1, k2, k3}
  MaxClients = 4
  MaxToken = 2
  MaxDeaths = 1
  MaxStops = 1
SYMMETRY Symmetry
INVARIANTS
  TypeOK
  
PROPERTIES
  ImplementsCaller
CHECK_DEADLOCK FALSE
