SPECIFICATION Steps
CONSTANTS
  Buyers = {b1, b2, b3}
  Tokens = {t1}
  None = None
SYMMETRY BuyersAlike
INVARIANT OneBuyerPerToken
CHECK_DEADLOCK FALSE
