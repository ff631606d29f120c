CONSTANTS
  Runs = {1}
  HttpStops = {1}
  SocketStops = {}
  MaxRestarts = 0
SPECIFICATION Spec
PROPERTIES
  WatchdogKeepsTerminal
CHECK_DEADLOCK FALSE
