CONSTANTS
  c1 = c1
  c2 = c2
  w1 = w1
  w2 = w2
  v1 = v1
  Connections <- MCConnections
  Workers <- MCWorkers
  Values <- MCValues
  Initial = initial
  Absent = absent
  Free = free
  MaxGeneration = 2
SPECIFICATION FairSpec
INVARIANTS
  LeaseExclusive
  SnapshotDurable
PROPERTIES
  NoResurrection
  ImplementsFencedSession
  TakeoverEnds
CHECK_DEADLOCK FALSE
