SPECIFICATION FairSpec
CONSTANTS
  w1 = w1
  w2 = w2
  j1 = j1
  j2 = j2
  None = None
  Workers = {w1, w2, w3}
  w3 = w3
  Jobs = {j1, j2}
  Requests = {}
  MaxAttempts = 2
  BatchLimit = 2
  Recoverers = {w1}
  Mortal = {w2, w3}
  Faults = {"noSlot"}
  MaxClaims = 3
INVARIANTS ExclusionInv NoConcurrentExecution AtMostOneSuccess
PROPERTIES ContractHolds EventuallySettled
CHECK_DEADLOCK FALSE
