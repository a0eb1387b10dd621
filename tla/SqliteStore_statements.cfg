SPECIFICATION Spec
CONSTANTS
  Subs = {s1}
  Clients = {loop, worker}
  Loop = loop
  Inputs = {a, b}
  Batches <- MCBatches
  MaxClaims = 2
INVARIANT TypeOK
PROPERTY ImplementsContract
