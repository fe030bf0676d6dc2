SPECIFICATION Spec
CONSTANTS
  db = db
  agent = agent
  other = other
  NoPod = NoPod
  MaxRuns = 2
  Hashes = {db, agent, other}
  Faults = {"error", "lost"}
  Requests <- KeepAliveRequests
  Outside = {"resume"}
  Public = {db}
  NeedsVolume = {db}
  KeepAliveAction = "stop"
INVARIANTS
  TypeOK
  LedgerNamesRealPods
  CompletedRunsAreWhole
  VolumesComeFirst
PROPERTIES
  LifecycleKeepsToItsPlan
CHECK_DEADLOCK FALSE
