SPECIFICATION Spec
CONSTANTS
  GridSpacingBps = 1000
  GridLevels = 1
  GridSize = 2
  GridMaxPosition = 2
  SimpleSpreadBps = 1000
  SimpleSize = 2
  MomentumSize = 0
  TrailingStopBps = 500
  Lookback = 1
  Atrs = {5}
  Running = {"simple_mm", "grid_mm"}
  Closes = {90}
  TradeNotional = 400
  MaxFaults = 0
  MaxBatches = 4
INVARIANTS StandDownOnlyReduces
