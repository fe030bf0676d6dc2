SPECIFICATION Spec
CONSTANTS
  agent = agent
  foreign = foreign
  NoPod = NoPod
  NoRun = NoRun
  MaxRuns = 2
  Hashes = {agent, foreign}
  Managed = {agent}
  Faults = {"error", "lost"}
  Attempts = 2
  MaxSweeps = 1
  MaxTimers = 1
  MaxFaults = 2
CHECK_DEADLOCK FALSE
INVARIANTS
  CleanupReachesItsPods
  CleanupKeepsToItsRun
  TimerOutlastsErrors
