SPECIFICATION FairSpec
CONSTANTS
  Cap = 2
  StallTicks = 1
  MaxNonce = 2
  MaxFailovers = 1
  MaxFaults = 1
INVARIANTS
  TypeOK
  CapHolds
  CountNeverWraps
  NoNonceLost
PROPERTIES RidesThroughFailover
