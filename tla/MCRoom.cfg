CONSTANTS
  RecentLimit = 1
  PageLimit = 1
  MaxBacklog = 2
  CatchUps = 1
  EventLimit = 2
  MaxEvents = 3
  MaxCommands = 1
  MaxFailures = 1
  MaxClears = 1
  None = None
  Runs = {TRUE}
  MaxSessions = 2
  MaxTasks = 1
  MaxSamples = 2
  MinSamples = 1
  Players = 2
SPECIFICATION MCSpec
CHECK_DEADLOCK FALSE
INVARIANTS
  TimelineComplete
  RecordingsAreShown
  RepliesAreSpokenOnce
PROPERTIES
  RoomCatchesUp
  DraftsAreHeard
  RoomSettles
