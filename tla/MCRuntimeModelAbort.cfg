SPECIFICATION Spec
CONSTANTS
  Runs = {r1}
  Sessions = {"orchestrator", "engineer", "reviewer"}
  Engineers = {"engineer"}
  SessionOf <- FanSessions
  DependsOn <- FanDependencies
  MaxParallel = 2
  Executor = "model"
  InProcess = FALSE
  Commands = {"resume", "pause", "cancel", "instruct"}
  NoSession = NoSession
  NoAttempt = NoAttempt
  MaxChats = 1
  MaxCommands = 4
  MaxStops = 1
  MaxFailures = 0
  MaxFaults = 0
  MaxFrames = 0
INVARIANTS
  AbortedTasksRecover
CHECK_DEADLOCK FALSE
