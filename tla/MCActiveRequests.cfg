CONSTANTS
  Ids = {1, 2, 3}
  Deps <- MCDeps
  MaxBegins = 2
  MaxRegistrations = 3
  Capacity = 2
  MaxOthers = 1
CHECK_DEADLOCK FALSE
SPECIFICATION FairSpec
INVARIANTS AdmissionExact DependenciesHold QuietAfterRelease
PROPERTIES OwnCompletionOnly WaitersWake ShutdownEnds
