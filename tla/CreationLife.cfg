SPECIFICATION Spec
CONSTANTS
  Order <- ThreeL1s
  Deposit = 2
  Buffer = 1
  MaxWord = 5
  Attempts = 2
  Days = {3, 5}
  MaxCommands = 3
  MaxCreated = 10
  MaxFaults = 1
  MaxTicks = 2
  Lag = 1
INVARIANTS
  TypeOK
  DepositCanBeFound
PROPERTIES
  TeardownReturnsDeposits
  TopUpCovers
CHECK_DEADLOCK FALSE
