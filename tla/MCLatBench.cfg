CONSTANTS
  Rounds = 3
  Limit = 1
  Second = 2
  Ticks <- MCTicks
SPECIFICATION Spec
INVARIANTS TypeOK NegativeOnlyByClock AverageOfWindow ClosedLast
PROPERTIES ImplementsTopic Terminates
CHECK_DEADLOCK FALSE
