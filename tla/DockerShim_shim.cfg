CONSTANTS
  a = a
  b = b
  pa = pa
  pb = pb
  c1 = c1
  c2 = c2
  c3 = c3
  Id = {a, b}
  PodName = {pa, pb}
  Net = {n1}
  Call = {c1, c2, c3}
  Scenario <- Scenarios
  None = None
SPECIFICATION Spec
SYMMETRY Symmetry
CHECK_DEADLOCK FALSE
INVARIANTS
  StartedIsManaged
  NoStrayPod
  RemovedIsGone
