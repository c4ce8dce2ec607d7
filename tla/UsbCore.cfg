SPECIFICATION Spec
CONSTANTS
  Threads = {t1, t2}
  MaxCalls = 2
  MaxOpens = 1
  Callers = {c1, c2}
  MaxCtxs = 3
  MaxUevents = 2
  Addrs = {"hub", "dev"}
  InitialBus = {"hub"}
  MaxObjs = 4
  MaxChanges = 3
  Users = {u1, u2}
  Ifaces = {0, 1}
  HasDriver = {1}
  Configs = {1, 2}
  FirstConfig = 1
  MaxOps = 4
  IfNumbers = {0, 1}
  MaxEps = 2
  MaxIfs = 2
  MaxDescs = 5
INVARIANTS
  ClosedNotPolled
  ContextsOutliveUse
  DevicesAccounted
  ClaimedIsOwned
  CountsAreFilled
PROPERTIES
  CallsReturn
CHECK_DEADLOCK FALSE
