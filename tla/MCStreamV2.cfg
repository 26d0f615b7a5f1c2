SPECIFICATION FairSpec
CONSTANTS
  N = 5
  Buffer = 1
  GenMayRaise = TRUE
  RxMayDrop = TRUE
INVARIANTS TypeOK FirstItemsExact
PROPERTIES ImplementsForwardedStream StreamEnds AsideArrives
\* Once the stream has ended and every task is done nothing is left to happen.
CHECK_DEADLOCK FALSE
