SPECIFICATION Spec
CONSTANTS
  Before <- OneCommand
  After <- NoCommands
  Teardown <- NoCommands
  MaxRetries = 0
  MaxPolls = 2
INVARIANTS
  ResponseIsTheAgents
CHECK_DEADLOCK FALSE
