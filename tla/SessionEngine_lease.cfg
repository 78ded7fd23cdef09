CONSTANTS
  Pod = {p1, p2}
  Ping = {k1}
  TTL = 2
  IdleTTLs <- MCIdleTTLs
  LastBoot = 1
  MaxTime = 4
  MaxFail = 1
  MaxCrash = 1
  None = None
SPECIFICATION FairSpec
CHECK_DEADLOCK FALSE
INVARIANTS
  LifetimeCap
  ToldIsKept
  CondemnedIsExpired
  NotFoundMeansGone
  FailedBootIsCleanedUp
PROPERTIES
  NoLeak
