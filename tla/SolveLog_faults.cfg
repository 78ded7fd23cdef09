CONSTANTS
  c1 = c1
  c2 = c2
  right = right
  wrong = wrong
  User = {u1, u2}
  Challenge <- MCChallenge
  Known <- MCKnown
  Assertive <- MCKnown
  Answer <- MCAnswer
  Accepted <- MCAccepted
  Req = {r1, r2, r3}
  Server = {s1, s2}
  Scenario <- FaultScenario
  MaxCrash = 2
  NL = NL
  Frag = Frag
  None = None
SPECIFICATION Spec
SYMMETRY Symmetry
CHECK_DEADLOCK FALSE
INVARIANTS
  NoPhantomSolve
  LoggedIsDurable
  MemoryIsJournalled
  JournalIsASet
  OncePerProcess
  BoardShowsLog
PROPERTIES
  DurableNeverLost
