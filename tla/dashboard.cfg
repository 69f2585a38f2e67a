SPECIFICATION DashboardSpec
CONSTANTS
  r1 = r1
  r2 = r2
  f1 = f1
  None = None
  Requests = {r1, r2, f1}
  Keyless = {f1}
  Recurring = {r1}
  Jobs = {j1, j2}
  Mortal = {r2}
  Reloads = 1
  Off = Off
  Asked = Asked
  Refusal = Refusal
INVARIANTS OneAnswer RepeatedGetsTheJob NoBlindResubmit
PROPERTIES ListGoesForward ListCatchesUp
CHECK_DEADLOCK FALSE
