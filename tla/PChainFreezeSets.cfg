SPECIFICATION Spec
CONSTANTS
  management = management
  main = main
  Sets <- TwoSets
  LastSet = main
  UserInstall = FALSE
  Crashes = FALSE
  Reboots = FALSE
  Verbs = {"follow", "freeze"}
  MaxHeight = 3
  MaxCommands = 3
  MaxFaults = 0
INVARIANTS
  FrozenHoldsValidatorSets
CHECK_DEADLOCK FALSE
