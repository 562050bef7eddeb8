SPECIFICATION Spec
CONSTANTS
  GridSpacingBps = 1000
  GridLevels = 2
  GridSize = 2
  GridMaxPosition = 4
  SimpleSpreadBps = 1000
  SimpleSize = 2
  MomentumSize = 0
  TrailingStopBps = 500
  Lookback = 1
  Atrs = {0, 5}
  Running = {"ema_macd_rsi", "momentum_breakout", "simple_mm", "grid_mm"}
  Bars <- FourBars
  InitialBalance = 1000
  DefaultNotional = 200
  MaxBars = 5
INVARIANTS TypeOK DrawdownUpToForcedClose CountsAgreeWithMoney
PROPERTY BooksBalance
CHECK_DEADLOCK FALSE
