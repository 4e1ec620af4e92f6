SPECIFICATION Spec
CONSTANTS
  management = management
  main = main
  Sets <- OneSet
  LastSet = main
  UserInstall = TRUE
  Crashes = FALSE
  Reboots = TRUE
  Verbs = {"follow", "freeze", "deploy", "archive", "start", "stop"}
  MaxHeight = 2
  MaxCommands = 3
  MaxFaults = 1
INVARIANTS
  AnnouncedModeRuns
CHECK_DEADLOCK FALSE
