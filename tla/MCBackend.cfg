CONSTANTS
  Tokens = {t1, t2}
  Handlers = {h1, h2}
  Secrets = {1, 2}
  Sec = 2
  Life = 3
  MaxClock = 9
  Feeds = {1, 2}
  Watchers = {3}
  ChannelsOf <- MCChannels
  Jobs = {j1}
  Workers = {w1, w2}
  MaxCopies = 3
  Unit = 10
  Slip = 1
  Com = 1
  Initial = 2000
  Prices = {1, 2, 4}
  Orders <- MCOrders
  MaxCandles = 5
  Levels <- MCLevels
  Markets <- MCMarkets
SPECIFICATION Spec
INVARIANTS
  TypesOK
  RevokedUntilEdge
  SecondFactorIsConfirmed
  FeedsAreTended
  StuckHasCause
  OutcomeIsWhole
  BooksBalance
  EvaluatesAsWritten
PROPERTY
  JobsRefine
CHECK_DEADLOCK FALSE
