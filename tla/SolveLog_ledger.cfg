CONSTANTS
  c1 = c1
  c2 = c2
  right = right
  wrong = wrong
  User = {u1, u2}
  Challenge <- MCChallenge
  Known <- MCKnown
  Assertive <- MCKnown
  Answer <- MCAnswer
  Accepted <- MCAccepted
  Req = {r1, r2, r3}
  Server = {s1}
  Scenario <- CrashScenario
  MaxCrash = 3
  NL = NL
  Frag = Frag
  None = None
SPECIFICATION FairSpec
CHECK_DEADLOCK FALSE
PROPERTIES
  LedgerSpec
  Answered
  DurableReturns
