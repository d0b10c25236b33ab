SPECIFICATION Spec
CONSTANTS
  Runs = {r1, r2}
  Tasks = 2
  MaxStops = 1
  None = None
INVARIANTS
  StreamIsReplayable
CHECK_DEADLOCK FALSE
