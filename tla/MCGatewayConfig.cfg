CONSTANTS
  ClusterModes = {TRUE, FALSE}
  Faults = {"read", "stat", "redis"}
  MaxWrites = 4
  MaxPending = 2
SPECIFICATION FairSpec
INVARIANTS
  TypeOK
  QuietIsCurrent
PROPERTIES
  Converges
