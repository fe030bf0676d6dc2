SPECIFICATION Spec
CONSTANTS
  db = db
  agent = agent
  other = other
  NoPod = NoPod
  MaxRuns = 3
  Hashes = {agent}
  Faults = {"error", "lost", "crash"}
  Requests <- ReuseRequests
  Outside = {"stop", "terminate"}
  Public = {}
  NeedsVolume = {}
  KeepAliveAction = "stop"
INVARIANTS
  OrphansAdopted
  OneRunningPodPerHash
PROPERTIES
  LifecycleLeavesNothingRunning
CHECK_DEADLOCK FALSE
