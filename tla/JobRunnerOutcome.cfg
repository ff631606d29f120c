SPECIFICATION Spec
CONSTANTS
  Kinds = {"mysql"}
  MaxStops = 0
INVARIANTS
  OneOutcome
CHECK_DEADLOCK FALSE
