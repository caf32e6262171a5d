CONSTANT
  Rounds = 2
SPECIFICATION Spec
PROPERTY Ends
CHECK_DEADLOCK FALSE
