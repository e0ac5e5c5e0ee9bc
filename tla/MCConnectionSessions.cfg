CONSTANTS
  c1 = c1
  c2 = c2
  k1 = k1
  k2 = k2
  Conns <- MCConns
  Keys <- MCKeys
  Nobody = nobody
  SessionCapacity = 2
  Limits = {1, 2}
SPECIFICATION FairSpec
INVARIANTS OneStorePerSession
PROPERTIES NoReclaim NoWaitForever
CHECK_DEADLOCK FALSE
