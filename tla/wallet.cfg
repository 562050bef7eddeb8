SPECIFICATION NonceSpec
CONSTANTS
  Callers = {"buyer", "monitor", "rug"}
  GasPrices = {1, 2}
  CapPrice = 1
  MaxCalls = 5
  MaxDrops = 1
INVARIANTS NonceTypeOK ReplacedOnlyInRace RefusedOnlyInRace NoGapWithoutDrop
CHECK_DEADLOCK FALSE
