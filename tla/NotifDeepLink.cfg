SPECIFICATION Spec
CONSTANTS
  MaxInstances = 2
  MaxSnapshots = 4
INVARIANTS
  TypeOK
PROPERTIES
  TapAnswered
  FirstAnswerRight
CHECK_DEADLOCK FALSE
