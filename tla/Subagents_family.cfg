CONSTANTS
  P = P
  Loop = Loop
  k1 = k1
  k2 = k2
  Kids <- OneChild
  MaxChildren = 1
  BoundedWait = TRUE
  MaxAttempts = 2
  MaxCrashes = 1
  Lossy = TRUE
SPECIFICATION FairSpec
INVARIANTS TypeOK ResumeFindsAnswers CancelReachesRun AnswerIsOutcome NoFabricatedError 
PROPERTIES OrphansCancelled SubmissionsSettle
