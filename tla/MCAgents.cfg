CONSTANTS
  Sessions = {s1}
  c1 = c1
  c2 = c2
  CallIds = {c1, c2}
  CallLists <- MCCallLists
  Lifetime = 1
  MaxTurns = 1
  MaxAttempts = 2
  MaxCrashes = 1
  MaxPauses = 1
  MaxFaults = 1
  None = None
  Providers = {"openai", "other"}
  KnownIds = TRUE
  TurnLimit = 3
  MaxCalls = 2
  MaxEdits = 2
  MaxRefused = 1
  Kinds = {"openai", "anthropic"}
  Blocks = {1, 2}
  MaxPieces = 2
  Runs = {"r1", "r2"}
  Tasks = 2
  MaxStops = 1
  ToolUses = {1, 2}
  Tools <- MCTools
  Arguments <- MCArguments
  UseApprovals = {"approval"}
SPECIFICATION MCSpec
CHECK_DEADLOCK FALSE
INVARIANTS
  OneStartPerApproval
  StartsAreOnRecord
  RequestsAreWhole
  ReportsAreTrue
  ResultIsWhole
PROPERTIES
  NothingStartsAfterStop
  UnknownEditsSurvive
  WorkStopsWithTheRun
  ConsumedRunsStart
  AgentsEnd
