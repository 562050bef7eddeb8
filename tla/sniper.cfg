SPECIFICATION Spec
CONSTANTS
  Buyers = {b1, b2}
  Tokens = {t1, t2}
  None = None
INVARIANTS TypeOK OpenIsSellable PlaceholderExclusiveWithoutRugWatch NothingLostSilentlyWithoutRugWatch
PROPERTY PlaceholderResolves
CHECK_DEADLOCK FALSE
