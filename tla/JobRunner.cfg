SPECIFICATION Spec
CONSTANTS
  Kinds = {"daoban", "ppt", "mysql"}
  MaxStops = 2
INVARIANTS
  TypeOK
  EndedJobIsSignalled
  SuccessIsEarned
  SuccessKeepsAnswer
PROPERTIES
  SuccessToldLast
  StoppedJobEnds
  RunningJobEnds
CHECK_DEADLOCK FALSE
