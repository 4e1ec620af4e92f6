SPECIFICATION Spec
CONSTANTS
  alice = alice
  bob = bob
  one = one
  spare = spare
  active = active
  Operators <- TwoOperators
  Identities <- OneIdentity
  Weights <- TwoWeights
  MaxOldBlocks = 3
  MaxBlocks = 5
  MaxTime = 2
  Lag = 1
  MaxCommands = 2
SYMMETRY Alike
INVARIANTS
  TypeOK
  ConversionFound
  GateNotEarly
  GivesUpOnlyOnStaleEpoch
PROPERTIES
  NoLostUpdate
CHECK_DEADLOCK FALSE
