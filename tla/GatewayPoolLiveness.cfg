CONSTANTS
  Clients = {1, 2, 3}
  Conns = {k1, k2, k3, k4}
  NoConn = NoConn
  MaxSize = 2
  CancelPoints = {"waiting"}
SPECIFICATION Spec
INVARIANTS
  QuietPoolServes
PROPERTIES
  AcquireEnds
CHECK_DEADLOCK FALSE
