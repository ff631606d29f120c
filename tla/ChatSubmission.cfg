SPECIFICATION Spec
CONSTANTS
  Agents = {"daoban", "ppt", "mysql", "chat"}
  Sockets = {s1, s2}
  Messages = {m1, m2, m3}
  NoText = NoText
  MaxRuns = 3
  MaxDeletions = 1
SYMMETRY Symmetry
INVARIANTS
  TypeOK
  OneRunPerMessage
  JobIsComplete
  InputsKept
  OnePendingRow
  SequentialUseOnce
CHECK_DEADLOCK FALSE
