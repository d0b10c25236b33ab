CONSTANTS
  Agents = {"engineer", "reviewer"}
  Pool = "pool"
  ShareLists <- MCShareLists
  FullLimit = 9
  Calls = {c1, c2, c3}
  Amounts = {1, 3}
  Usages <- MCUsages
  Approvals = {a1, a2}
  Unknown = Unknown
  Scopes = {"run:1", "run:2"}
  Bookings = {1, 2}
  Estimates = {0, 1, 3}
  Limits = {0, 2, 4}
SYMMETRY Symmetry
SPECIFICATION MCSpec
CHECK_DEADLOCK FALSE
INVARIANTS
  LedgersAreSound
  OverspendIsBilled
PROPERTY SettledForGood
