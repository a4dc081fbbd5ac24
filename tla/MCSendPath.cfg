SPECIFICATION Spec
CONSTANTS
  s1 = s1
  s2 = s2
  c1 = c1
  NoCommand = NoCommand
  Sockets = {s1, s2}
  Commands = {c1}
  CommandOf <- MCCommandOf
  Frames = 2
  Broadcasts = {1}
INVARIANTS
  TypeOK
  OneWriterPerSocket
  FreshestFrameIsTaken
PROPERTIES
  BroadcastArrives
CHECK_DEADLOCK FALSE
