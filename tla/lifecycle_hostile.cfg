SPECIFICATION Spec
CONSTANTS
  w1 = w1
  w2 = w2
  j1 = j1
  r1 = r1
  None = None
  Workers = {w1, w2}
  Jobs = {j1}
  Requests = {r1, r2}
  MaxAttempts = 2
  BatchLimit = 1
  Recoverers = {w1, w2}
  Mortal = {w1, w2}
  Faults = {"lateLease", "rateLimit", "noSlot", "cancel", "retry", "apiCrash"}
  MaxClaims = 2
SYMMETRY WorkerSymmetry
INVARIANTS DeadLetterExhausted HistoryAccounts DeadLetterListed
CHECK_DEADLOCK FALSE
