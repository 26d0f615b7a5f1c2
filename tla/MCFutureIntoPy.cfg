SPECIFICATION FairSpec
CONSTANTS
  Conv = {c1, c2}
  LoopMayStop = TRUE
  LoopMayClose = TRUE
  MayAbort = TRUE
INVARIANTS UnreachableUnused NoInvalidState NothingForgotten IInv
PROPERTIES ImplementsAwaitable CancelReachesRust OutcomeReachesPython
\* Once the loop is closed and every task has ended nothing is left to happen.
CHECK_DEADLOCK FALSE
