SPECIFICATION Spec
CONSTANTS
  g = g
  NoObject = NoObject
  Names <- MCNames
  Groups = {g}
  UndoSteps = 8
  Scene0 <- MCScene0
  Tools <- MCTools
  BatchTools <- MCBatch
  StepTools <- MCSteps
  MaxCalls = 1
  MaxEdits = 2
  MaxSteps = 3
INVARIANT TransactionIsAtomic
CHECK_DEADLOCK FALSE
