-------------------------- MODULE RunUntilComplete --------------------------
(***************************************************************************)
(* generic::run_until_complete and run: the main thread converts a future  *)
(* with module FutureIntoPy, lets the event loop run until the awaitable   *)
(* is done, takes the value of the future from a cell that the future      *)
(* itself has filled, and (run) shuts the loop down and closes it.         *)
(*                                                                         *)
(* Other conversions use the same loop.  asyncio leaves a run of the loop  *)
(* no earlier than all that was ready when it was entered has been run:    *)
(* todo counts these handles.                                              *)
(***************************************************************************)
EXTENDS Naturals, Sequences, Functions

CONSTANTS
  Conv,         \* conversions, see FutureIntoPy
  Main,         \* those made by run_until_complete
  OtherYields,  \* what the futures of the other conversions may yield
  UserMayStop   \* may the program call loop.stop()?

ASSUME MainAssumption ==
  /\ Main \subseteq Conv
  /\ "none" \notin Main
  /\ OtherYields \subseteq {"ok", "err", "refused", "panic"}
  /\ UserMayStop \in BOOLEAN

VARIABLES
  py_fut, cancel_tx, work, task, woken, rx_waker, poll_rx, result, ready,
  loop, invalid,  \* the conversions, see FutureIntoPy
  pc,    \* where the main thread is
  cur,   \* whose run_until_complete it is in
  cell,  \* the conversions whose Mutex holds Some(val)
  ret,   \* what each run_until_complete returned
  todo   \* how many handles this run of the loop owes

convVars == <<py_fut, cancel_tx, work, task, woken, rx_waker, poll_rx, result,
              ready, loop, invalid>>
vars == <<py_fut, cancel_tx, work, task, woken, rx_waker, poll_rx, result,
          ready, loop, invalid, pc, cur, cell, ret, todo>>

Loop == INSTANCE FutureIntoPy
          WITH LoopMayStop <- TRUE, LoopMayClose <- TRUE, MayAbort <- FALSE

Yields(c) == IF c \in Main THEN Loop!Outcome ELSE OtherYields

Shutdown == {"shutdown_asyncgens", "shutdown_default_executor"}

TypeOK ==
  /\ Loop!TypeOK
  /\ pc \in {"python", "run_until_complete", "close", "closed"} \cup Shutdown
  /\ cur \in Main \cup {"none"}
  /\ cell \subseteq Main
  /\ ret \in [Main -> {"none", "ok", "err", "panic", "cancelled", "stopped", "unwrap_none"}]
  /\ todo \in Nat

Init ==
  /\ Loop!Init /\ loop = "stopped"
  /\ pc = "python"
  /\ cur = "none"
  /\ cell = {}
  /\ ret = [c \in Main |-> "none"]
  /\ todo = 0

----------------------------------------------------------------------------
(* The main thread.                                                        *)

\* run_until_complete: the future is converted before the loop is entered.
RunUntilComplete(c) ==
  /\ pc = "python"
  /\ Loop!FutureIntoPyWithLocals(c)
  /\ pc' = "run_until_complete"
  /\ cur' = c
  /\ UNCHANGED <<cell, ret, todo>>

\* asyncio's own run_until_complete enters the loop.
Enter ==
  /\ pc \in {"run_until_complete"} \cup Shutdown
  /\ Loop!LoopRun
  /\ todo' = Len(ready)
  /\ UNCHANGED <<pc, cur, cell, ret>>

\* Mutants: the cell is read before the error; a loop that was stopped is not
\* noticed.
Returned_CellFirst(c) ==
  IF c \in cell THEN "ok"
  ELSE IF py_fut[c] = "pending" THEN "stopped" ELSE py_fut[c]

Returned_StopUnnoticed(c) ==
  IF py_fut[c] # "ok" THEN py_fut[c]
  ELSE IF c \in cell THEN "ok" ELSE "unwrap_none"

\* call_method1("run_until_complete")? raises the exception of the awaitable,
\* or RuntimeError if the loop was stopped; then take().unwrap().
Returned(c) ==
  IF py_fut[c] = "pending" THEN "stopped"
  ELSE IF py_fut[c] # "ok" THEN py_fut[c]
  ELSE IF c \in cell THEN "ok" ELSE "unwrap_none"

Leave(c) ==
  /\ pc = "run_until_complete" /\ cur = c
  /\ todo = 0
  /\ Loop!LoopStop
  /\ ret' = [ret EXCEPT ![c] = Returned(c)]
  /\ cell' = IF Returned(c) = "ok" THEN cell \ {c} ELSE cell
  /\ pc' = "python" /\ cur' = "none"
  /\ UNCHANGED todo

\* The callback that stops the loop comes right after PyDoneCallback.
LeaveDone(c) ==
  /\ py_fut[c] # "pending" /\ ~Loop!Queued(Loop!DoneHandle(c))
  /\ Leave(c)

\* The program calls loop.stop(), whatever the state of the awaitable.
LeaveStopped(c) == UserMayStop /\ Leave(c)

\* Mutant: the loop is closed without being run again.
Close_NoShutdown ==
  /\ pc = "python"
  /\ \E c \in Main : ret[c] # "none"
  /\ pc' = "close"
  /\ UNCHANGED <<convVars, cur, cell, ret, todo>>

\* run closes its loop: first run_until_complete(shutdown_asyncgens()).
Close ==
  /\ pc = "python"
  /\ \E c \in Main : ret[c] # "none"
  /\ pc' = "shutdown_asyncgens"
  /\ UNCHANGED <<convVars, cur, cell, ret, todo>>

\* One of the two shutdown coroutines is done.  Before Python 3.9 there is only
\* the first; close returns early if the loop was stopped.
LeaveShutdown ==
  /\ todo = 0
  /\ Loop!LoopStop
  /\ \/ pc = "shutdown_asyncgens" /\ pc' \in {"shutdown_default_executor", "close"}
     \/ pc = "shutdown_default_executor" /\ pc' = "close"
     \/ pc \in Shutdown /\ UserMayStop /\ pc' = "python"
  /\ UNCHANGED <<cur, cell, ret, todo>>

CloseLoop ==
  /\ pc = "close"
  /\ Loop!LoopClose
  /\ pc' = "closed"
  /\ UNCHANGED <<cur, cell, ret, todo>>

----------------------------------------------------------------------------
(* The Rust runtime, the loop and other code.                              *)

\* Mutants: the cell is filled by nobody; the main thread holds its lock.
StoreResult_Missing(c) == UNCHANGED cell

StoreResult_LockHeld(c) ==
  /\ c \in Main /\ work[c] = "ok" => pc # "run_until_complete"
  /\ cell' = IF c \in Main /\ work[c] = "ok" THEN cell \cup {c} ELSE cell

\* The poll in which the user's future is Ready(Ok(val)) stores val and goes
\* on to return Ok(()).
StoreResult(c) == cell' = IF c \in Main /\ work[c] = "ok" THEN cell \cup {c} ELSE cell

RustStep(c) ==
  /\ \/ Loop!PollFuture(c) /\ StoreResult(c)
     \/ /\ \/ Loop!SpawnInner(c) \/ Loop!PollCancelRx(c) \/ Loop!JoinErr(c)
           \/ Loop!CheckCancelled(c) \/ Loop!SetResult(c)
        /\ UNCHANGED cell
  /\ UNCHANGED <<pc, cur, ret, todo>>

RunHandle ==
  /\ Loop!RunHandle
  /\ todo' = IF todo = 0 THEN 0 ELSE todo - 1
  /\ UNCHANGED <<pc, cur, cell, ret>>

\* Conversions that are not run_until_complete's, the progress of the futures,
\* and cancellation at any time.
Others ==
  /\ \/ \E c \in Conv \ Main : Loop!FutureIntoPyWithLocals(c)
     \/ \E c \in Conv :
          \/ Loop!PyCancel(c)
          \/ \E o \in Yields(c) : Loop!FutureProgress(c, o)
  /\ UNCHANGED <<pc, cur, cell, ret, todo>>

----------------------------------------------------------------------------
Next ==
  \/ \E c \in Main : RunUntilComplete(c) \/ LeaveDone(c) \/ LeaveStopped(c)
  \/ Enter \/ Close \/ LeaveShutdown \/ CloseLoop
  \/ \E c \in Conv : RustStep(c)
  \/ RunHandle
  \/ Others

Spec == Init /\ [][Next]_vars

\* The runtime polls woken tasks; the main thread enters the loop, which runs
\* what is ready and stops when it is told to.
Fairness ==
  /\ \A c \in Conv : WF_vars(RustStep(c))
  /\ \A c \in Main : WF_vars(LeaveDone(c))
  /\ WF_vars(Enter) /\ WF_vars(RunHandle)

FairSpec == Spec /\ Fairness

----------------------------------------------------------------------------
(* Properties.                                                             *)

\* result_rx.lock().unwrap().take().unwrap() never panics: an awaitable that
\* completes without an exception belongs to a future that filled the cell.
NeverUnwrapsNone == \A c \in Main : ret[c] # "unwrap_none"

\* run_until_complete returns what its own future yielded; a value that comes
\* too late, after a cancellation or a stop, is not returned.
ReturnsOwnOutcome == \A c \in Main :
  /\ ret[c] \in {"ok", "err", "panic"} => py_fut[c] = ret[c] /\ result[c] = ret[c]
  /\ ret[c] = "cancelled" => py_fut[c] = "cancelled"

\* run never closes the loop over a cancellation: a conversion, whoever started
\* it, that is cancelled before run begins to shut the loop down has told its
\* Rust future by the time the loop is closed, although the loop may have been
\* stopped before the callback of the cancellation ran.
CancelToldBeforeClose == \A c \in Conv :
  [](Loop!cancelled(c) /\ pc \in {"python", "run_until_complete"} =>
       [](loop = "closed" => cancel_tx[c] = "sent"))

\* run_until_complete returns once its future is ready, panics or is cancelled;
\* for an exception that set_exception refuses it waits for ever.
RunReturns == \A c \in Main :
  cur = c /\ (work[c] \notin {"pending", "refused"} \/ py_fut[c] = "cancelled") ~>
    ret[c] # "none"
=============================================================================
