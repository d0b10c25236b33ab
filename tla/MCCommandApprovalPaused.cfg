CONSTANTS
  Sessions = {s1, s2}
  c1 = c1
  c2 = c2
  CallIds = {c1, c2}
  CallLists <- MCCallLists
  Lifetime = 1
  MaxTurns = 1
  MaxAttempts = 1
  MaxCrashes = 1
  MaxPauses = 1
  MaxFaults = 0
SPECIFICATION Spec
CHECK_DEADLOCK FALSE
INVARIANT PausedRunAccepts
