SPECIFICATION Spec
CONSTANTS
  GridSpacingBps = 1000
  GridLevels = 2
  GridSize = 2
  GridMaxPosition = 4
  SimpleSpreadBps = 1000
  SimpleSize = 2
  MomentumSize = 0
  TrailingStopBps = 500
  Lookback = 1
  Atrs = {0, 5}
  Running = {"simple_mm", "grid_mm"}
  Candles <- Sweeps
  Seeds <- FlatOrOdd
  InitialBalance = 1000
  TradeNotional = 200
  MaxDayLoss = 15
  DayLength = 2
  MaxFills = 4
  MaxLost = 1
INVARIANTS ExecutionsReplay TradeHistoryAudits RiskFollowsTrades InventoryBounded
PROPERTY BooksBalance
