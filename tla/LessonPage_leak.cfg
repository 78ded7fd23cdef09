CONSTANTS
  MaxTerms = 2
  MaxPod = 3
  MaxSock = 3
  Ping = {k1}
  Stopper = {j1}
  Tries = 1
  Scenario <- BootFailScenario
  MaxDrop = 0
  MaxReload = 1
  None = None
SPECIFICATION Spec
CHECK_DEADLOCK FALSE
INVARIANTS
  NothingForgotten
