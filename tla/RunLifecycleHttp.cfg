CONSTANTS
  Runs = {1, 2}
  HttpStops = {1}
  SocketStops = {1, 2}
  MaxRestarts = 1
SPECIFICATION Spec
INVARIANTS
  TypeOK
  AnswerBeforeSuccess
  EndedRunIsSettled
  NoOrphanStream
PROPERTIES
  EndsConflictOnHttpStop
  EveryRunEnds
CHECK_DEADLOCK FALSE
