SPECIFICATION Spec
CONSTANTS
  a = a
  b = b
  c = c
  d = d
  e = e
  NoId = NoId
  Machines <- MixedMachines
  Identities <- MixedIdentities
  Role <- MixedRole
  ChainOf <- MixedChain
  Home <- MixedHome
  UserInstall = FALSE
  Deployed = FALSE
  Verbs = {"place", "deploy", "upgrade"}
  Crashes = TRUE
  MaxCommands = 3
  MaxFaults = 1
INVARIANTS
  TypeOK
  HistoryBeforeRestart
PROPERTIES
  KeepsPlacementFile
