CONSTANTS
  c1 = c1
  c2 = c2
  right = right
  wrong = wrong
  User = {u1, u2}
  Challenge <- MCChallenge
  Known <- MCKnown
  Assertive <- MCKnown
  Answer <- MCAnswer
  Accepted <- MCAccepted
  Req = {r1, r2}
  Server = {s1}
  Scenario <- ShortWriteScenario
  MaxCrash = 0
  NL = NL
  Frag = Frag
  None = None
SPECIFICATION Spec
CHECK_DEADLOCK FALSE
INVARIANT LoggedSurvives
