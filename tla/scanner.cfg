SPECIFICATION FairSpec
CONSTANTS
  p1 = p1
  p2 = p2
  a = a
  Pools <- TwoPools
  Tokens = {a}
  Version <- VersionOf2
  TokenOf <- TokenOf2
  Wbnb <- Wbnb2
  Handlers = {"h1", "h2"}
  CacheSize = 1
  ChannelSize = 1
  AuditTries = 2
  MaxHangs = 2
  None = None
  Garbled = Garbled
INVARIANTS TypeOK RepeatsNeedRaceOrEviction AlertedIsSaved
PROPERTY SubscriptionsGoOn
