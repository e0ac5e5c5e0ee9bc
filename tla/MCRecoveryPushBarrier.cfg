CONSTANTS
  p1 = p1
  p2 = p2
  r1 = r1
  r2 = r2
  Publishers <- MCPublishers
  Requests <- MCRequests
  Shutdown = shutdown
  Nobody = nobody
  MaxPushes <- MCPushes
  Sizes <- MCSizes
  MaxCount = 2
  MaxBytes = 3
SPECIFICATION FairSpec
INVARIANTS
  NoOvertaking
  AcceptedNotLost
  QueueWithinLimits
PROPERTIES
  ProtectedSilence
  HeldPushesLeave
  CallsEnd
CHECK_DEADLOCK FALSE
