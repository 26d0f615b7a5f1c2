SPECIFICATION FairSpec
CONSTANTS
  N = 3
  Capacity = 1
  RxMayDrop = TRUE
  LoopMayStop = TRUE
  LoopMayClose = TRUE
  MayBeRefused = TRUE
  MayCollect = TRUE
INVARIANTS TypeOK InOrder OneRequest
PROPERTIES ImplementsStream ExhaustedEnds DropReleasesTask
\* The task ends with the stream, and only N requests are modelled.
CHECK_DEADLOCK FALSE
