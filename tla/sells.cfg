SPECIFICATION TrackerSpec
CONSTANTS
  Wallets = {"w1", "w2"}
  Tokens = {"t1"}
  Week = 3
  SellWindow = 2
  None = None
  MaxClock = 4
  MaxBuys = 2
  MaxFailures = 2
INVARIANTS TrackerTypeOK SalesAreReal ScanBooksEverySale
CHECK_DEADLOCK FALSE
