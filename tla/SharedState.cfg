SPECIFICATION FairSpec
CONSTANTS
  Callers = {"route", "runner"}
  MaxTurns = 2
  Keys = {"codex", "ollama"}
  Absent = Absent
  SpecFiles <- MCSpecFiles
  Elsewhere = 1
  MaxTemplates = 4
  MaxInterruptions = 2
  TTL = 1
  MaxOutages = 1
INVARIANTS
  TurnsAreCounted
  TemplatesAreAccounted
PROPERTIES
  IdsAreStable
  DropdownsRecover
