SPECIFICATION FairSpec
CONSTANTS
  Before <- SetupCommands
  After <- CheckCommands
  Teardown <- TeardownCommands
  MaxRetries = 1
  MaxPolls = 2
INVARIANTS
  SessionTypeOK
  SetupBeforeLaunch
  RowsAreTruthful
PROPERTIES
  SessionEnds
CHECK_DEADLOCK FALSE
