CONSTANTS
  Processes = {p1, p2, p3}
  MaxAttempts = 3
  MaxDeaths = 1
  None = None
  Clients = {"a", "b"}
  New = "new"
  Outdated = "old"
  VersionOf <- MCVersionOf
  Peers = {"client"}
  MaxCalls = 3
  Polls = {2}
  IdLimit = 2
  MaxInstances = 2
  MaxBeats = 1
  OutputLimits = {0, 4}
  MaxRefused = 1
  Requests = {1, 2}
  Names = {"KEY"}
  Values = {"v1", "v2"}
  Unended <- MCUnended
  Scrubs = {TRUE, FALSE}
  MaxChanges = 1
SPECIFICATION MCSpec
CHECK_DEADLOCK FALSE
INVARIANTS
  CommandsAreServed
  ResultsAreTrue
  AnswersAreTrue
PROPERTIES
  ProcessesEnd
