CONSTANTS
  Chunk = 2
  Cap = 4
  MaxFrame = 3
  MaxTyped = 4
  MaxAsked = 5
SPECIFICATION Spec
CHECK_DEADLOCK FALSE
INVARIANTS
  TypedInOrder
  TtyFollows
PROPERTIES
  LineSpec
  Delivered
  ResizeLoopEnds
