CONSTANTS
  Requests <- MCRequests
  Callers = {g1, g2}
  Waiters = {w1}
  Awaited = {"d"}
  MaxChildren = 1
  MaxCalls = 3
  MaxFaults = 2
SPECIFICATION FairSpec
INVARIANTS TypeOK ReceiptsAgree FanOutBounded
PROPERTIES WaitReturns
