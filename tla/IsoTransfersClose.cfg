SPECIFICATION Spec
CONSTANT Xfers = {x1, x2}
INVARIANTS
  ClosesIdleHandle
