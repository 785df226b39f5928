CONSTANTS
  s1 = s1
  Strategies = {s1}
  Requests = {}
  InitialRows <- OnlyActive
  MaxRecords = 0
  NoStrategy = NoStrategy
  Symbol <- OneSymbol
  Priority <- OnePriority
  Dispatchers = {}
  MaxRetries = 1
  MaxQueue = 1
  Workers = {w1}
  Advisory = {s1}
  BuyQty = 2
  DailyLimit = 4
  MaxOrders = 3
  Accounts = {1}
  Halts <- NeverHalted
  MaxFaults = 0
SPECIFICATION OrdersSpec
INVARIANTS
  ConsultationsAreSaved
