CONSTANTS
  s1 = s1
  Strategies = {s1}
  Requests = {}
  InitialRows <- OnlyActive
  MaxRecords = 0
  NoStrategy = NoStrategy
  Symbol <- OneSymbol
  Priority <- OnePriority
  Dispatchers = {}
  MaxRetries = 0
  MaxQueue = 1
  Workers = {w1, w2}
  Advisory = {}
  BuyQty = 2
  DailyLimit = 1
  MaxOrders = 3
  Accounts = {1}
  Halts <- NeverHalted
  MaxFaults = 1
SPECIFICATION OrdersSpec
SYMMETRY WorkerSymmetry
INVARIANTS
  TypeOK
  PositionIsHolding
  RowsAreSound
