CONSTANTS
  Runs = {1}
  HttpStops = {1}
  SocketStops = {}
  MaxRestarts = 0
SPECIFICATION Spec
PROPERTIES
  AcceptedStopIsKept
CHECK_DEADLOCK FALSE
