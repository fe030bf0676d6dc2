SPECIFICATION Spec
CONSTANTS
  db = db
  agent = agent
  other = other
  NoPod = NoPod
  MaxRuns = 2
  Hashes = {db, agent}
  Faults = {"error", "lost", "crash"}
  Requests <- ManualRequests
  Outside = {}
  Public = {db}
  NeedsVolume = {}
  KeepAliveAction = "stop"
INVARIANTS
  AgentAfterDependencies
PROPERTIES
  FailedRunsAreCleaned
  ImplementsAccounting
CHECK_DEADLOCK FALSE
