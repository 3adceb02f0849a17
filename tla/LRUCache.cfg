\* Four users compete for three places in the cache.
SPECIFICATION Spec
CONSTANTS
  Key = {k1, k2, k3, k4}
  Value = {v1, v2}
  NoValue = NoValue
  Dummy = Dummy
  Dangling = Dangling
  Capacity = 3
INVARIANTS RingMatchesMap  
PROPERTY ImplementsLRUMap
\* The cache stops at the first undefined behaviour.
CHECK_DEADLOCK FALSE
