SPECIFICATION Spec
CONSTANTS
  a = a
  b = b
  c = c
  d = d
  j1 = j1
  j2 = j2
  j3 = j3
  j4 = j4
  j5 = j5
  e1 = e1
  e2 = e2
  Creator = Creator
  None = None
  Nodes = {a, b, c}
  Deps <- Join
  Strays = {b}
  Jobs = {j1, j2, j3, j4}
  Executors = {e1, e2}
  MaxAttempts = 2
  Failures = TRUE
  LinkFirst = FALSE
  Mortal = {e1}
INVARIANTS DependenciesFirst CompletedTruthfully NodesNotForgotten
SYMMETRY JobSymmetry
CHECK_DEADLOCK FALSE
