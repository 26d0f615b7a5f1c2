SPECIFICATION Spec
CONSTANTS
  Fut = {f1, f2}
  Free = {"tokio", "async_std"}
  EventLoop = {l1, l2}
  Context = {c1}
INVARIANT SeesOwnLocals
CHECK_DEADLOCK FALSE
