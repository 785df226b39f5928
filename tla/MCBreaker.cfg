CONSTANTS
  c1 = c1
  c2 = c2
  c3 = c3
  Calls = {c1, c2, c3}
  Threshold = 2
  Window = 2
  Recovery = 2
  MaxFails = 4
SPECIFICATION FairSpec
INVARIANTS
  TypeOK
  CountIsTended
PROPERTIES
  BreakerRefines
  Recovers
  FailuresExpire
