SPECIFICATION Spec
CONSTANTS
  w1 = w1
  w2 = w2
  w3 = w3
  j1 = j1
  None = None
  Workers = {w1, w2, w3}
  Jobs = {j1}
  Requests = {}
  MaxAttempts = 3
  BatchLimit = 1
  Recoverers = {w1, w2, w3}
  Mortal = {w1}
  Faults = {}
  MaxClaims = 4
INVARIANTS NoConcurrentExecution
CHECK_DEADLOCK FALSE
