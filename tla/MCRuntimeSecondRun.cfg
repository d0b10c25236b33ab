SPECIFICATION Spec
CONSTANTS
  Runs = {r1, r2}
  Sessions = {"engineer"}
  Engineers = {"engineer"}
  SessionOf <- OneSession
  DependsOn <- OneDependency
  MaxParallel = 2
  Executor = "worker"
  InProcess = FALSE
  Commands = {"resume"}
  NoSession = NoSession
  NoAttempt = NoAttempt
  MaxChats = 0
  MaxCommands = 2
  MaxStops = 0
  MaxFailures = 0
  MaxFaults = 0
  MaxFrames = 0
INVARIANTS
  FailureHasACause
CHECK_DEADLOCK FALSE
