CONSTANTS
  m1 = m1
  m2 = m2
  Requests <- MCRequests
  Binders <- MCBinders
  Reader = Reader
  Pusher = Pusher
  Writer = Writer
  Nobody = Nobody
  Window = 2
  MaxSends = 2
  MaxPushes = 0
CHECK_DEADLOCK FALSE
SPECIFICATION SessionSpec
INVARIANTS AtMostOnce
