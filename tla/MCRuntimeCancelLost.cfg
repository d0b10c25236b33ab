SPECIFICATION FairSpec
CONSTANTS
  Runs = {r1}
  Sessions = {"orchestrator", "engineer", "reviewer"}
  Engineers = {"engineer"}
  SessionOf <- FanSessions
  DependsOn <- FanDependencies
  MaxParallel = 2
  Executor = "worker"
  InProcess = FALSE
  Commands = {"resume", "pause", "cancel", "instruct"}
  NoSession = NoSession
  NoAttempt = NoAttempt
  MaxChats = 1
  MaxCommands = 2
  MaxStops = 1
  MaxFailures = 1
  MaxFaults = 0
  MaxFrames = 0
PROPERTIES
  CancelEnds
CHECK_DEADLOCK FALSE
