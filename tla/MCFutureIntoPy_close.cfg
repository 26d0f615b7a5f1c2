SPECIFICATION FairSpec
CONSTANTS
  Conv = {c1}
  LoopMayStop = TRUE
  LoopMayClose = TRUE
  MayAbort = FALSE
PROPERTY CancelAlwaysReachesRust
\* Once the loop is closed and every task has ended nothing is left to happen.
CHECK_DEADLOCK FALSE
