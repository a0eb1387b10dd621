CONSTANTS
  P = P
  Loop = Loop
  k1 = k1
  k2 = k2
  Kids <- OneChild
  MaxChildren = 1
  BoundedWait = TRUE
  MaxAttempts = 1
  MaxCrashes = 0
  Lossy = FALSE
SPECIFICATION Spec
INVARIANTS SettledHasRecord
