CONSTANTS
  k1 = k1
  k2 = k2
  NumSubs = 2
  Sessions <- OneSession
  SessionOf <- InOneSession
  NumRuntimes = 2
  MaxAttempts = 1
  Deadlined <- FirstDeadlined
  MaxStoreFails = 0
  Overlap = TRUE
SPECIFICATION Spec
PROPERTIES SettledIsFinal FencedTransitions ImplementsLifecycle
CONSTRAINT FewClaims
