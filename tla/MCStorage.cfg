CONSTANTS
  None = None
  Connections = {p1, p2}
  Commands = {c1, c2}
  Streams = {s1, s2}
  Consumers = {k1}
  Hashes = {h1}
  Contents = {"x"}
  MaxEvents = 3
  MaxBatch = 2
  MaxSide = 2
  Terminals = {"terminal"}
  Providers = {"openai", "anthropic"}
  MaxKeys = 3
  MaxFailures = 1
  MaxCrashes = 1
  Invocations = {"init", "change"}
  MaxChanges = 1
  MaxKills = 1
  good = good
  bad = bad
  big = big
  Ingesters = {"a", "b"}
  Files = {1, 2}
  Payloads = {good, bad, big}
  Bad = {bad}
  Big = {big}
  MaxEdits = 1
  MaxDeaths = 1
  Ids = {1, 2, 3, 4}
  MaxNodes = 3
SPECIFICATION MCSpec
SYMMETRY MCSymmetry
CHECK_DEADLOCK FALSE
INVARIANTS
  LogIsSound
  ConfigIsSound
  OrderIsSound
PROPERTIES
  ReadersAreServed
  ReceiptsAreTrue
