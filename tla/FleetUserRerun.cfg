SPECIFICATION Spec
CONSTANTS
  a = a
  b = b
  c = c
  d = d
  e = e
  NoId = NoId
  Machines <- FlatMachines
  Identities <- FlatIdentities
  Role <- FlatRole
  ChainOf <- FlatChain
  Home <- FlatHome
  UserInstall = TRUE
  Deployed = TRUE
  Verbs = {"place", "start", "stop", "destroy", "deploy", "roll", "upgrade"}
  Crashes = FALSE
  MaxCommands = 2
  MaxFaults = 1
INVARIANTS
  RerunConverges
CHECK_DEADLOCK FALSE
