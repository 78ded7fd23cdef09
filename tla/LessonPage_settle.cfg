CONSTANTS
  MaxTerms = 2
  MaxPod = 2
  MaxSock = 2
  Ping = {k1}
  Stopper = {j1}
  Tries = 1
  Scenario <- SettlingScenario
  MaxDrop = 1
  MaxReload = 1
  None = None
SPECIFICATION FairSpec
CHECK_DEADLOCK FALSE
PROPERTIES
  StopEnds
  Settles
