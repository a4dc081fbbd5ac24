SPECIFICATION Spec
CONSTANTS
  b1 = b1
  b2 = b2
  v1 = v1
  v2 = v2
  Blenders = {b1, b2}
  Keep = 1
  MaxSaves = 3
  Scenes = {v1, v2}
  Project = Project
SYMMETRY Symmetry
INVARIANTS
  TypeOK
  NewestAreListed
  CheckpointsAreCopies
CHECK_DEADLOCK FALSE
