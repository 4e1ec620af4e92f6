SPECIFICATION FairSpec
CONSTANTS
  a = a
  b = b
  c = c
  d = d
  e = e
  NoId = NoId
  Machines <- FlatMachines
  Identities <- FlatIdentities
  Role <- FlatRole
  ChainOf <- FlatChain
  Home <- FlatHome
  UserInstall = TRUE
  Deployed = TRUE
  Verbs = {"place", "start", "stop", "roll", "upgrade"}
  Crashes = TRUE
  MaxCommands = 2
  MaxFaults = 1
INVARIANTS
  IdentityServedOnce
PROPERTIES
  PlaceKeepsIdentitiesDistinct
  VerbsEnd
