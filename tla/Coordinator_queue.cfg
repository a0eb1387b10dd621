CONSTANTS
  k1 = k1
  k2 = k2
  NumSubs = 2
  Sessions <- OneSession
  SessionOf <- InOneSession
  NumRuntimes = 2
  MaxAttempts = 2
  Deadlined <- NoneDeadlined
  MaxStoreFails = 1
  Overlap = FALSE
SPECIFICATION FairSpec
INVARIANTS TypeOK OneSettledRecord InputAuthoredOnce BudgetRespected HeadOfLine Invariant
 
