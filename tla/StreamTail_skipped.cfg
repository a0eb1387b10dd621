CONSTANTS
  NumSubs = 1
  MaxEvents = 1
  MaxReleases = 0
  MaxReconnects = 0
  Memory = TRUE
SPECIFICATION Spec
INVARIANTS StreamComplete
CHECK_DEADLOCK FALSE
