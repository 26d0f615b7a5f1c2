SPECIFICATION Spec
CONSTANTS
  Fut = {f1, f2, f3}
  Free = {"tokio"}
  EventLoop = {l1, l2}
  Context = {c1}
INVARIANTS TypeOK SeesOwnLocals
\* The task ends when all its futures have.
CHECK_DEADLOCK FALSE
