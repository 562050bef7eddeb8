SPECIFICATION Spec
CONSTANTS
  w1 = w1
  w2 = w2
  w3 = w3
  Wallets <- ThreeWallets
  Tokens = {"t"}
  Amounts = {1}
  SameFunds <- OneSource
  Threshold = 10
  TimeWindow = 1
  MevThreshold = 1
  Day = 1
  Week = 2
  None = None
  MaxClock = 2
  MaxTrades = 3
  MaxFailures = 1
SYMMETRY Interchangeable
INVARIANTS TypeOK ClustersAreComponents OneIdOneComponent EntitiesMatchClusters
CHECK_DEADLOCK FALSE
