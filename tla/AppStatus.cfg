SPECIFICATION Spec
CONSTANT MaxDrivers = 2
INVARIANTS
  StatusIsTrue
CHECK_DEADLOCK FALSE
