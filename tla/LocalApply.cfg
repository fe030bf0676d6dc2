SPECIFICATION FairSpec
CONSTANTS
  Requests <- LocalRequests
  MaxRuns = 2
  MaxFaults = 1
  MaxCrashes = 1
CHECK_DEADLOCK FALSE
INVARIANTS
  LocalTypeOK
  LifecycleLeavesNothing
  ReusedContainerMatches
  OneAgentAfterApply
  ResponseIsThisRuns
  TurnEndsTheProject
  OneTimer
  AwaitedImageIsComplete
PROPERTIES
  EveryRunReturns
  TimePolicyTakesEffect
