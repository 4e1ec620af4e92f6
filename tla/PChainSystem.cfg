SPECIFICATION Spec
CONSTANTS
  management = management
  main = main
  Sets <- TwoSets
  LastSet = main
  UserInstall = FALSE
  Crashes = TRUE
  Reboots = FALSE
  Verbs = {"follow", "freeze", "deploy", "archive", "start", "stop"}
  MaxHeight = 3
  MaxCommands = 2
  MaxFaults = 1
INVARIANTS
  TypeOK
  ObservedNeverOverstates
  FreezeGateSound
  CopiesWhole
  ArchiveRestartsNode
  AnnouncedModeRuns
PROPERTIES
  DatabaseNeverRegresses
CHECK_DEADLOCK FALSE
