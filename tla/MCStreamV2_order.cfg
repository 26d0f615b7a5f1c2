SPECIFICATION Spec
CONSTANTS
  N = 3
  Buffer = 1
  GenMayRaise = FALSE
  RxMayDrop = FALSE
INVARIANT YieldsTheGenerator
CHECK_DEADLOCK FALSE
