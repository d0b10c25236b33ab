SPECIFICATION Spec
CONSTANTS
  Runs = {r1}
  Sessions = {"orchestrator", "engineer", "reviewer"}
  Engineers = {"engineer"}
  SessionOf <- TeamSessions
  DependsOn <- TeamDependencies
  MaxParallel = 2
  Executor = "worker"
  InProcess = FALSE
  Commands = {"resume", "pause", "cancel", "instruct"}
  NoSession = NoSession
  NoAttempt = NoAttempt
  MaxChats = 1
  MaxCommands = 4
  MaxStops = 1
  MaxFailures = 1
  MaxFaults = 0
  MaxFrames = 0
INVARIANTS
  SchedulingIsSound
  QuietWhenStopped
  EveryTurnIsWorkedOn
  WorkFollowsHandoffs
  FailureHasACause
PROPERTIES
  ImplementsBoard
CHECK_DEADLOCK FALSE
