SPECIFICATION FairSpec
CONSTANTS
  Call = {c1, c2}
  LoopMayStop = TRUE
  LoopMayClose = TRUE
  MayBeRefused = TRUE
  MayCollect = TRUE
INVARIANTS TypeOK SenderHeld
PROPERTIES ImplementsOneAnswer AnswerArrives
\* Once the loop is closed and every future is resolved nothing happens.
CHECK_DEADLOCK FALSE
