CONSTANTS
  l1 = l1
  l2 = l2
  c1 = c1
  c2 = c2
  c3 = c3
  r1 = r1
  r2 = r2
  Listeners <- MCListeners
  Conns <- MCConns
  Requests <- MCRequests
  Nobody = nobody
  IpOf <- MCIpOf
  AuthOf <- MCAuthOf
  ConnOf <- MCConnOf
  MaxConnections = 2
  MaxPerIP = 1
  MaxPerAuthKey = 1
  MaxHandlers = 1
SPECIFICATION FairSpec
INVARIANTS CountsExact StopIsComplete
PROPERTIES StopReturns
CHECK_DEADLOCK FALSE
