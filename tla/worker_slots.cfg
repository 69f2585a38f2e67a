SPECIFICATION Spec
CONSTANTS
  t1 = t1
  t2 = t2
  t3 = t3
  t4 = t4
  q1 = q1
  q2 = q2
  p1 = p1
  p2 = p2
  Tasks = {t1, t2, t3}
  MaxConcurrency = 2
  Queues = {q1, q2}
  QueueOf <- TwoAndOne
  QueueTables <- TightTables
  Limits = {1, 2}
  Changes = 1
  Polls = {p1, p2}
  RateLimits = TRUE
  SlowHandlers = TRUE
INVARIANTS SlotsAccounted LimitsRespected DrainWaits EveryClaimGetsSlot
SYMMETRY Alike
CHECK_DEADLOCK FALSE
