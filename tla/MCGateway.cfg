CONSTANTS
  Slots = {s1, s2}
  Capacity = 4
  Cost = 2
  Grace = 1
  MaxSkew = 1
  MaxDelay = 2
  MaxTime = 5
  MaxAsked = 4
  MaxRestarts = 1
  RouteIds = {"a", "b"}
  Bodies = {1, 2}
  NoRoute = NoRoute
  Edits <- MCEdits
  MaxEntries = 2
  MaxCommands = 4
  MaxUpsets = 2
  Bootstrap = {b1, b2}
  Rotated = {k1, k2}
  MaxFaults = 2
  InFlight = {q1, q2}
  Routes = {"http", "grpc"}
  Grpc = {"grpc"}
  PluginsOf <- MCPlugins
  Targets <- MCTargets
  Retries <- MCRetries
  Tables <- MCTables
  Globals <- MCGlobals
  Order <- MCOrder
  MaxArrivals = 3
  MaxReloads = 2
  NoMatch = NoMatch
  MaxSaid = 3
SPECIFICATION Spec
INVARIANTS
  TypesOK
  GrantsAreBounded
  ExtraHasCause
  HistoryExplains
  RollbackRestores
  RollbackIsIdempotent
  RouteIdsAreUnique
  RevokedIsRefused
  RoundRobinIsFair
  RetriesAreFaithful
  OldKeysAreRefused
  RelayIsFaithful
PROPERTIES
  RequestsAreAnswered
  SessionsEnd
CHECK_DEADLOCK FALSE
