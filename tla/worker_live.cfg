SPECIFICATION FairSpec
CONSTANTS
  t1 = t1
  t2 = t2
  t3 = t3
  t4 = t4
  q1 = q1
  q2 = q2
  p1 = p1
  Tasks = {t1, t2, t3, t4}
  MaxConcurrency = 2
  Queues = {q1, q2}
  QueueOf <- ThreeAndOne
  QueueTables <- WideTable
  Limits = {1, 2}
  Changes = 0
  Polls = {p1}
  RateLimits = TRUE
  SlowHandlers = FALSE
INVARIANTS PoolInv WaitsForWindUpOnly
PROPERTIES SlotLeadsToEnd DrainEnds
CHECK_DEADLOCK FALSE
