CONSTANTS
  Clients = {1, 2, 3}
  Conns = {k1, k2, k3, k4}
  NoConn = NoConn
  MaxSize = 2
  CancelPoints = {"waiting", "sweeping", "capacity", "connecting", "closing"}
SPECIFICATION Spec
INVARIANTS
  TypeOK
  ExclusiveLease
  WithinSize
  NoLostWakeup
  ShutdownClosesAll
CHECK_DEADLOCK FALSE
