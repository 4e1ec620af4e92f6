SPECIFICATION Spec
CONSTANTS
  Cap = 2
  StallTicks = 3
  MaxNonce = 3
  MaxFailovers = 1
  MaxFaults = 0
INVARIANTS
  CountIsExact
