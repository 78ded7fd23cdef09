CONSTANTS
  Pod = {p1}
  Ping = {k1}
  TTL = 3
  IdleTTLs <- OneIdleTTL
  LastBoot = 1
  MaxTime = 5
  MaxFail = 0
  MaxCrash = 0
  None = None
SPECIFICATION Spec
CHECK_DEADLOCK FALSE
PROPERTY ReapsOnlyExpired
