SPECIFICATION FairSpec
CONSTANTS
  btc = btc
  usdc = usdc
  KnownAssets <- BothAssets
  DirectAssets <- UsdcOnly
  InFlight = 1
  BatchSize = 2
  MaxPrices = 3
  MaxStarts = 2
  MaxFaults = 1
INVARIANTS
  TypeOK
  NoSilentFailure
  NoGapUnderRun
PROPERTIES
  ImplementsRegister
  DeliversOrEnds
CHECK_DEADLOCK FALSE
