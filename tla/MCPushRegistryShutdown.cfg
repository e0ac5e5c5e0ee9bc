CONSTANTS
  p1 = p1
  p2 = p2
  r1 = r1
  r2 = r2
  Publishers <- MCPublishers
  Requests <- MCRequests
  Mutators <- MCMutators
  Original = original
  Shutdown = shutdown
  Nobody = nobody
  MaxPushes <- MCPushes
  Sizes <- MCSizes
  MaxCount = 1
  MaxBytes = 1
SPECIFICATION RegistryFairSpec
PROPERTIES
  ShutdownEnds
CHECK_DEADLOCK FALSE
