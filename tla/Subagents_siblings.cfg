CONSTANTS
  P = P
  Loop = Loop
  k1 = k1
  k2 = k2
  Kids <- TwoChildren
  MaxChildren = 2
  BoundedWait = FALSE
  MaxAttempts = 1
  MaxCrashes = 0
  Lossy = FALSE
SPECIFICATION Spec
SYMMETRY Siblings
INVARIANTS WokenByChildren
CONSTRAINT FewAttempts
