SPECIFICATION FairSpec
CONSTANTS
  Conv = {main, other}
  Main = {main}
  OtherYields = {"ok", "panic"}
  UserMayStop = TRUE
INVARIANTS TypeOK NeverUnwrapsNone ReturnsOwnOutcome
PROPERTIES CancelToldBeforeClose RunReturns
\* Once the loop is closed and every task has ended nothing is left to happen.
CHECK_DEADLOCK FALSE
