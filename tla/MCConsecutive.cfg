CONSTANTS
  c1 = c1
  c2 = c2
  c3 = c3
  Calls = {c1}
  Threshold = 2
  Window = 2
  Recovery = 2
  MaxFails = 4
SPECIFICATION FaultlessSpec
PROPERTIES
  OpensOnConsecutiveFailures
