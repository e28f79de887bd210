SPECIFICATION Spec
CONSTANTS
  j1 = j1  j2 = j2  boot = boot
  g1 = g1  g2 = g2
  Jobs = {j1, j2}
  Boot = boot
  Gateways = {g1, g2}
  MaxLogins = 2
  MaxLaunches = 2
  None = None  Torn = Torn
INVARIANTS CodesAreExchangedOnce ClearedStaysCleared
PROPERTIES SessionSurvives
CHECK_DEADLOCK FALSE
