SPECIFICATION Spec
CONSTANTS
  Ids <- MCIds
  Envelopes <- MCEnvelopes
  Limit = 2
  SeqLimit = 2
  MaxInt32 = 11
  LedgerCap = 2
  ActiveCap = 2
  ShortTTL = TRUE
INVARIANTS AcceptedStaysRefused ExecutedOnce SequenceOnce
PROPERTIES RetryIsFinal
CHECK_DEADLOCK FALSE
