CONSTANTS
  P = P
  Loop = Loop
  k1 = k1
  k2 = k2
  Kids <- TwoChildren
  MaxChildren = 1
  BoundedWait = FALSE
  MaxAttempts = 1
  MaxCrashes = 0
  Lossy = FALSE
SPECIFICATION Spec
INVARIANTS ResumeFindsAnswers
