SPECIFICATION FairSpec
CONSTANTS
  a = a
  b = b
  c = c
  d = d
  j1 = j1
  j2 = j2
  j3 = j3
  j4 = j4
  j5 = j5
  e1 = e1
  e2 = e2
  Creator = Creator
  None = None
  Nodes = {a, b, c, d}
  Deps <- Diamond
  Strays = {}
  Jobs = {j1, j2, j3, j4, j5}
  Executors = {e1}
  MaxAttempts = 2
  Failures = TRUE
  LinkFirst = TRUE
  Mortal = {}
INVARIANTS OneJobPerNode
 
CHECK_DEADLOCK FALSE
