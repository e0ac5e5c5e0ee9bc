CONSTANTS
  c1 = c1
  c2 = c2
  p = p
  k1 = k1
  k2 = k2
  Conns <- MCConns
  KeyIds <- MCKeyIds
  NoKey = nokey
  Known <- MCKnown
  Lifetimes = {2}
  Delays = {1}
  Capacity = 1
  TTL = 1
  TempCapacity = 1
  MaxTime = 2
  MaxResets = 2
SPECIFICATION Spec
INVARIANTS BoundToStoredKey ExchangeIsFresh
PROPERTIES ExpiryOnlyShrinks ClosedOnlyWhenDue
CHECK_DEADLOCK FALSE
SYMMETRY MCSymmetry
CONSTRAINT MCOneWorkload
