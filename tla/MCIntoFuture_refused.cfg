SPECIFICATION Spec
CONSTANTS
  Call = {c1}
  LoopMayStop = FALSE
  LoopMayClose = FALSE
  MayBeRefused = TRUE
  MayCollect = FALSE
INVARIANT RefusalIsAnError
CHECK_DEADLOCK FALSE
