SPECIFICATION Spec
CONSTANTS
  Kinds = {"bulk"}
  MaxUrbs = 3
  UrbLen = 1
  Faults = {"stall"}
  FaultyKinds = {"bulk"}
  MaxSubmits = 1
INVARIANTS
  FreedOnlyWhenReaped
CHECK_DEADLOCK FALSE
