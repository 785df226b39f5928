CONSTANTS
  s1 = s1
  s2 = s2
  s3 = s3
  Strategies = {s1, s2, s3}
  Requests = {}
  InitialRows <- ActiveOrPaused
  MaxRecords = 0
  NoStrategy = NoStrategy
  Symbol <- OneSymbol
  Priority <- TwoOfEqual
  Dispatchers = {d1}
  MaxRetries = 0
  MaxQueue = 1
  Workers = {w1}
  Advisory = {s1}
  BuyQty = 1
  DailyLimit = 1
  MaxOrders = 0
  Accounts = {0, 2, 1}
  Halts = {TRUE, FALSE}
  MaxFaults = 0
SPECIFICATION FairSpec
INVARIANTS
  LogAgreesWithDispatch
PROPERTIES
  HaltDrains
