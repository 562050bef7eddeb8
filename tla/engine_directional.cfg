SPECIFICATION Spec
CONSTANTS
  GridSpacingBps = 1000
  GridLevels = 2
  GridSize = 1
  GridMaxPosition = 2
  SimpleSpreadBps = 1000
  SimpleSize = 1
  MomentumSize = 0
  TrailingStopBps = 500
  Lookback = 1
  Atrs = {0, 5}
  Running = {"ema_macd_rsi", "momentum_breakout"}
  Candles <- Ticks3
  Seeds <- FlatOrOdd
  InitialBalance = 1000
  TradeNotional = 200
  MaxDayLoss = 70
  DayLength = 6
  MaxFills = 7
  MaxLost = 0
INVARIANTS TypeOK StopsBelongToPosition
PROPERTY GateStopsEntries
