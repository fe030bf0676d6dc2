SPECIFICATION FairSpec
CONSTANTS
  db = db
  agent = agent
  other = other
  NoPod = NoPod
  MaxRuns = 2
  Hashes = {db, agent}
  Faults = {"lost", "crash"}
  Requests <- TimeRequests
  Outside = {}
  Public = {db}
  NeedsVolume = {}
  KeepAliveAction = "terminate"
PROPERTIES
  EveryRunReturns
  KeepAliveTakesEffect
CHECK_DEADLOCK FALSE
