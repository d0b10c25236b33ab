SPECIFICATION Spec
CONSTANTS
  Runs = {r1, r2}
  Sessions = {"engineer", "reviewer"}
  Engineers = {"engineer"}
  SessionOf <- PairSessions
  DependsOn <- PairDependencies
  MaxParallel = 2
  Executor = "worker"
  InProcess = TRUE
  Commands = {"resume", "pause", "cancel", "instruct"}
  NoSession = NoSession
  NoAttempt = NoAttempt
  MaxChats = 1
  MaxCommands = 3
  MaxStops = 0
  MaxFailures = 0
  MaxFaults = 1
  MaxFrames = 1
INVARIANTS
  RunsShareTheProject
CHECK_DEADLOCK FALSE
SYMMETRY RunSymmetry
