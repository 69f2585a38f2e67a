SPECIFICATION FairSpec
CONSTANTS
  t1 = t1
  t2 = t2
  b1 = b1
  g1 = g1
  Start = Start
  Tasks = {t1, t2}
  Beats = {b1}
  Signals = {g1}
  Capacity = 2
PROPERTIES GoneIsNoticed LoadShown
CHECK_DEADLOCK FALSE
