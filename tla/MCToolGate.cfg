SPECIFICATION Spec
CONSTANTS
  Calls = {1, 2}
  Windows = {v1, v2}
  NoEndpoint = NoEndpoint
  Keys = {"a", "b"}
  Ports = {1}
  Tools <- MCTools
  AllowedTools <- MCAllowed
  DeniedTools <- MCDenied
  ConfirmRequired <- MCConfirm
  Capacity = 1
  Window = 2
  Burst = 1
  Refill = 2
  MaxTime = 2
INVARIANTS
  TypeOK
  
  RateLimitHolds
PROPERTIES
  CallsReturn
CHECK_DEADLOCK FALSE
