CONSTANTS
  NumSubs = 2
  MaxEvents = 1
  MaxReleases = 1
  MaxReconnects = 1
  Memory = FALSE
SPECIFICATION FairSpec
INVARIANTS TypeOK DeliveredPrefix NoLostWake CloseIsClean
PROPERTIES StreamEnds
CHECK_DEADLOCK FALSE
