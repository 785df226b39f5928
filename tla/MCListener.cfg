CONSTANTS
  ClusterModes = {TRUE, FALSE}
  Faults = {}
  MaxWrites = 4
  MaxPending = 2
SPECIFICATION Spec
INVARIANTS
  EveryPodListens
