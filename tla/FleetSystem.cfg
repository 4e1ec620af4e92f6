SPECIFICATION Spec
CONSTANTS
  a = a
  b = b
  c = c
  d = d
  e = e
  NoId = NoId
  Machines <- FlatMachines
  Identities <- FlatIdentities
  Role <- FlatRole
  ChainOf <- FlatChain
  Home <- FlatHome
  UserInstall = FALSE
  Deployed = TRUE
  Verbs = {"place", "start", "stop", "destroy", "deploy"}
  Crashes = TRUE
  MaxCommands = 2
  MaxFaults = 2
INVARIANTS
  StoppedStaysDown
  BookFollowsIntent
  CrashKeepsIdentity
  RerunConverges
  StartRestoresIntent
PROPERTIES
  IsolatedMove
  KillBeforeWipe
