SPECIFICATION Spec
CONSTANTS
  Jobs = {j1, j2}
  Limit = 1
  Window = 4
  Policy <- MCPolicy
  MaxAttempts = 4
  Requeue = 1
  MaxLag = 1
SYMMETRY JobSymmetry
INVARIANT LimitHolds
PROPERTIES RefusalsJustified BackoffGrows
CHECK_DEADLOCK FALSE
