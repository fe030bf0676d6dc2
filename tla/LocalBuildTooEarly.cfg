SPECIFICATION Spec
CONSTANTS
  Requests <- LocalRequests
  MaxRuns = 2
  MaxFaults = 0
  MaxCrashes = 0
CHECK_DEADLOCK FALSE
INVARIANT BuildWaitsForSetup
