CONSTANTS
  Clients = {1, 2}
  Conns = {k1, k2, k3}
  NoConn = NoConn
  MaxSize = 1
  CancelPoints = {"closing"}
SPECIFICATION Spec
PROPERTIES
  AcquireEnds
CHECK_DEADLOCK FALSE
