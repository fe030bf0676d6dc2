SPECIFICATION Spec
CONSTANTS
  Widgets <- MCWidgets
  MaxWires = 2
  MaxEdits = 1
  LocalSecrets <- MCSecrets
CHECK_DEADLOCK FALSE
INVARIANTS
  CommandsInOrder
  ScriptRunsItsCommands
  HashCoversThePod
  AddressesResolve
  PortsBelongToTheirPod
  LocalHashIsExact
