CONSTANTS
  p1 = p1
  p2 = p2
  x1 = x1
  x2 = x2
  Pushers <- MCPushers
  Handler = handler
  Actor = actor
  Contexts <- MCContexts
  Request = request
  None = none
  Capacity = 6
  MaxBatch = 2
  MaxSubmissions = 2
  MaxPrograms = 1
  MaxOwners = 2
CHECK_DEADLOCK FALSE
SPECIFICATION Spec
SYMMETRY Symmetry
CONSTRAINT MCFewDone
INVARIANTS CancellationIsOwnOrFinal SequenceUnique WireIsRetained OneAnswer NobodyStranded
PROPERTIES OutcomeTruth
