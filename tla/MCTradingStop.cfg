CONSTANTS
  s1 = s1
  Strategies = {s1}
  Requests = {r1, r2}
  InitialRows <- OnlyActive
  MaxRecords = 1
  NoStrategy = NoStrategy
  Symbol <- OneSymbol
  Priority <- OnePriority
  Dispatchers = {d1}
  MaxRetries = 1
  MaxQueue = 1
  Workers = {w1}
  Advisory = {}
  BuyQty = 1
  DailyLimit = 1
  MaxOrders = 0
  Accounts = {1}
  Halts = {FALSE}
  MaxFaults = 1
SPECIFICATION Spec
SYMMETRY RequestSymmetry
INVARIANTS
  StopHolds
  ResumeHolds
PROPERTIES
  OnlyResumeLifts
  StopDrains
