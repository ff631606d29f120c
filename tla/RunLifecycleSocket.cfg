CONSTANTS
  Runs = {1, 2}
  HttpStops = {}
  SocketStops = {1, 2}
  MaxRestarts = 1
SPECIFICATION Spec
PROPERTIES
  ImplementsRunStatus
CHECK_DEADLOCK FALSE
