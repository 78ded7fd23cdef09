CONSTANTS
  t1 = t1
  t2 = t2
  p1 = p1
  j1 = j1
  j2 = j2
  alice = alice
  Tab <- Tabs
  Sender <- Senders
  Account = {alice}
  Scenario <- Scenarios
  Name = {n1, n2}
  Token = {k1, k2}
  Page = {p1}
  Job = {j1, j2}
  None = None
SPECIFICATION FairSpec
CHECK_DEADLOCK FALSE
INVARIANTS
  AcceptedIsCredited
  ProgressFollowsBrowser
  NeverStuck
  RefusedOnlyIfSpoiled
PROPERTIES
  EndsInVerdict
