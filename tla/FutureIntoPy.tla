---------------------------- MODULE FutureIntoPy ----------------------------
(***************************************************************************)
(* The conversion of a Rust future into a Python awaitable                 *)
(* (generic::future_into_py_with_locals).                                  *)
(*                                                                         *)
(* Three parties touch one conversion c concurrently:                      *)
(*   - the Rust runtime, which runs an outer task that awaits an inner     *)
(*     task that polls the user's future wrapped in a Cancellable;         *)
(*   - the thread of the asyncio event loop, which runs the handles of its *)
(*     ready queue in order: PyDoneCallback and CheckedCompletor;          *)
(*   - Python code, which may cancel the asyncio.Future at any moment.     *)
(*                                                                         *)
(* A block under the GIL is not atomic: call_soon_threadsafe is Python     *)
(* code, so another thread may take the GIL between the test of            *)
(* `cancelled` and the append to the ready queue.  They are two steps.     *)
(***************************************************************************)
EXTENDS Naturals, Sequences, Functions

CONSTANTS
  Conv,          \* conversions: one call of future_into_py_with_locals each
  LoopMayStop,   \* may the program stop (and run again) the event loop?
  LoopMayClose,  \* may the program close a stopped event loop?
  MayAbort       \* may the runtime drop an inner task (JoinError, no panic)?

ASSUME SwitchesAssumption ==
  /\ LoopMayStop \in BOOLEAN
  /\ LoopMayClose \in BOOLEAN
  /\ MayAbort \in BOOLEAN

VARIABLES
  py_fut,     \* state of the asyncio.Future: pending, cancelled or an outcome
  cancel_tx,  \* oneshot sender held by PyDoneCallback: live, sent or dropped
  work,       \* what the next poll of the user's Rust future will find
  task,       \* where the pair of Rust tasks of the conversion is
  woken,      \* is the inner task in the run queue of the runtime?
  rx_waker,   \* has cancel_rx registered the waker of the inner task?
  poll_rx,    \* Cancellable::poll_cancel_rx
  result,     \* what the tasks have to hand over to Python
  ready,      \* the ready queue of the event loop, a FIFO of handles
  loop,       \* running, stopped or closed
  invalid     \* did a handle raise InvalidStateError into the loop's handler?

rustVars == <<work, task, woken, rx_waker, poll_rx, result>>
vars == <<py_fut, cancel_tx, work, task, woken, rx_waker, poll_rx, result,
          ready, loop, invalid>>

----------------------------------------------------------------------------
(* "panic" stands for the RustPanic exception, "refused" for an exception  *)
(* that asyncio.Future.set_exception does not take (StopIteration), and    *)
(* "unreachable" for the PyBaseException that Cancellable returns once it  *)
(* is cancelled.                                                           *)
Outcome == {"ok", "err", "refused", "panic"}
TaskState == {"none", "spawned", "idle", "polled", "panicked", "aborted",
              "finished", "checked", "done"}

DoneHandle(c) == [kind |-> "done_callback", conv |-> c, value |-> "none"]
CompletorHandle(c, v) == [kind |-> "completor", conv |-> c, value |-> v]
Handle == {DoneHandle(c) : c \in Conv}
            \cup {CompletorHandle(c, v) : c \in Conv, v \in Outcome \cup {"unreachable"}}

Queued(h) == h \in Range(ready)

\* future.cancelled()
cancelled(c) == py_fut[c] = "cancelled"

\* On a closed loop call_soon_threadsafe raises, and the callers print it.
call_soon_threadsafe(h) == ready' = IF loop = "closed" THEN ready ELSE Append(ready, h)

\* The inner task owns the user's future until Cancellable returns.
FutureAlive(c) == task[c] \in {"spawned", "idle", "polled"}

TypeOK ==
  /\ py_fut \in [Conv -> Outcome \cup {"none", "pending", "cancelled", "unreachable"}]
  /\ cancel_tx \in [Conv -> {"none", "live", "sent", "dropped"}]
  /\ work \in [Conv -> Outcome \cup {"pending"}]
  /\ task \in [Conv -> TaskState]
  /\ woken \in [Conv -> BOOLEAN]
  /\ rx_waker \in [Conv -> BOOLEAN]
  /\ poll_rx \in [Conv -> BOOLEAN]
  /\ result \in [Conv -> Outcome \cup {"none", "unreachable", "aborted"}]
  /\ ready \in Seq(Handle)
  /\ loop \in {"running", "stopped", "closed"}
  /\ invalid \in BOOLEAN

Init ==
  /\ py_fut = [c \in Conv |-> "none"]
  /\ cancel_tx = [c \in Conv |-> "none"]
  /\ work = [c \in Conv |-> "pending"]
  /\ task = [c \in Conv |-> "none"]
  /\ woken = [c \in Conv |-> FALSE]
  /\ rx_waker = [c \in Conv |-> FALSE]
  /\ poll_rx = [c \in Conv |-> TRUE]
  /\ result = [c \in Conv |-> "none"]
  /\ ready = <<>>
  /\ loop \in {"running", "stopped"}
  /\ invalid = FALSE

----------------------------------------------------------------------------
(* The Rust side.                                                          *)

\* create_future, add_done_callback(PyDoneCallback), R::spawn(outer task).
FutureIntoPyWithLocals(c) ==
  /\ task[c] = "none"
  /\ py_fut' = [py_fut EXCEPT ![c] = "pending"]
  /\ cancel_tx' = [cancel_tx EXCEPT ![c] = "live"]
  /\ task' = [task EXCEPT ![c] = "spawned"]
  /\ UNCHANGED <<work, woken, rx_waker, poll_rx, result, ready, loop, invalid>>

\* The outer task runs for the first time: it spawns the inner task around
\* Cancellable::new_with_cancel_rx(fut, cancel_rx) and awaits its JoinHandle.
SpawnInner(c) ==
  /\ task[c] = "spawned"
  /\ task' = [task EXCEPT ![c] = "idle"]
  /\ woken' = [woken EXCEPT ![c] = TRUE]
  /\ UNCHANGED <<py_fut, cancel_tx, work, rx_waker, poll_rx, result, ready,
                 loop, invalid>>

\* The user's future makes progress somewhere: its next poll returns Ok or
\* Err, or panics.  It wakes the task that polls it.
FutureProgress(c, o) ==
  /\ FutureAlive(c)
  /\ work[c] = "pending"
  /\ work' = [work EXCEPT ![c] = o]
  /\ woken' = [woken EXCEPT ![c] = task[c] # "spawned"]
  /\ UNCHANGED <<py_fut, cancel_tx, task, rx_waker, poll_rx, result, ready,
                 loop, invalid>>

\* A panic of the inner task ends that task and nothing else: tokio and
\* AsyncStdRuntime::spawn catch it, and its JoinHandle yields a JoinError.
CatchUnwind(c) ==
  /\ work[c] = "panic"
  /\ task' = [task EXCEPT ![c] = "panicked"]

\* Cancellable::poll, first half: poll the user's future.
PollFuture(c) ==
  /\ task[c] = "idle" /\ woken[c]
  /\ woken' = [woken EXCEPT ![c] = FALSE]
  /\ \/ /\ work[c] = "pending"
        /\ task' = [task EXCEPT ![c] = "polled"]
        /\ UNCHANGED result
     \/ /\ work[c] \in {"ok", "err", "refused"}
        /\ task' = [task EXCEPT ![c] = "finished"]
        /\ result' = [result EXCEPT ![c] = work[c]]
     \/ CatchUnwind(c) /\ UNCHANGED result
  /\ UNCHANGED <<py_fut, cancel_tx, work, rx_waker, poll_rx, ready, loop, invalid>>

\* Mutant: a pending cancel_rx is not polled with the waker of the task.
PollCancelRx_NoWaker(c) ==
  /\ task[c] = "polled"
  /\ IF poll_rx[c] /\ cancel_tx[c] = "sent"
     THEN /\ task' = [task EXCEPT ![c] = "finished"]
          /\ result' = [result EXCEPT ![c] = "unreachable"]
     ELSE /\ task' = [task EXCEPT ![c] = "idle"]
          /\ UNCHANGED result
  /\ UNCHANGED <<py_fut, cancel_tx, work, woken, rx_waker, poll_rx, ready, loop, invalid>>

\* Cancellable::poll, second half: the future was pending, poll cancel_rx.
PollCancelRx(c) ==
  /\ task[c] = "polled"
  /\ \/ /\ poll_rx[c] /\ cancel_tx[c] = "sent"
        /\ poll_rx' = [poll_rx EXCEPT ![c] = FALSE]
        /\ task' = [task EXCEPT ![c] = "finished"]
        /\ result' = [result EXCEPT ![c] = "unreachable"]
        /\ UNCHANGED rx_waker
     \/ /\ poll_rx[c] /\ cancel_tx[c] = "dropped"
        /\ poll_rx' = [poll_rx EXCEPT ![c] = FALSE]
        /\ task' = [task EXCEPT ![c] = "idle"]
        /\ UNCHANGED <<result, rx_waker>>
     \/ /\ poll_rx[c] /\ cancel_tx[c] = "live"
        /\ rx_waker' = [rx_waker EXCEPT ![c] = TRUE]
        /\ task' = [task EXCEPT ![c] = "idle"]
        /\ UNCHANGED <<poll_rx, result>>
     \/ /\ ~poll_rx[c]
        /\ task' = [task EXCEPT ![c] = "idle"]
        /\ UNCHANGED <<poll_rx, result, rx_waker>>
  /\ UNCHANGED <<py_fut, cancel_tx, work, woken, ready, loop, invalid>>

\* A runtime behind the generic trait may drop a task that is not running.
RuntimeAbort(c) ==
  /\ MayAbort
  /\ task[c] = "idle"
  /\ task' = [task EXCEPT ![c] = "aborted"]
  /\ result' = [result EXCEPT ![c] = "aborted"]
  /\ UNCHANGED <<py_fut, cancel_tx, work, woken, rx_waker, poll_rx, ready,
                 loop, invalid>>

\* Mutants: every JoinError is handed over; none is; a panic is an ordinary error.
JoinErr_NoIsPanic(c) ==
  /\ task[c] \in {"panicked", "aborted"}
  /\ task' = [task EXCEPT ![c] = "finished"]
  /\ result' = [result EXCEPT ![c] = IF task[c] = "panicked" THEN "panic" ELSE "aborted"]
  /\ UNCHANGED <<py_fut, cancel_tx, work, woken, rx_waker, poll_rx, ready, loop, invalid>>

JoinErr_Ignored(c) ==
  /\ task[c] \in {"panicked", "aborted"}
  /\ task' = [task EXCEPT ![c] = "done"]
  /\ UNCHANGED <<py_fut, cancel_tx, work, woken, rx_waker, poll_rx, result, ready, loop, invalid>>

JoinErr_PlainError(c) ==
  /\ task[c] = "panicked"
  /\ task' = [task EXCEPT ![c] = "finished"]
  /\ result' = [result EXCEPT ![c] = "err"]
  /\ UNCHANGED <<py_fut, cancel_tx, work, woken, rx_waker, poll_rx, ready, loop, invalid>>

\* JoinError::is_panic, for the error of an inner task that did not end.
is_panic(c) == task[c] = "panicked"

\* The outer task's await returns Err(e): only a panic is handed to Python.
JoinErr(c) ==
  /\ \/ /\ is_panic(c)
        /\ task' = [task EXCEPT ![c] = "finished"]
        /\ result' = [result EXCEPT ![c] = "panic"]
     \/ /\ task[c] = "aborted"
        /\ task' = [task EXCEPT ![c] = "done"]
        /\ UNCHANGED result
  /\ UNCHANGED <<py_fut, cancel_tx, work, woken, rx_waker, poll_rx, ready,
                 loop, invalid>>

\* Mutant: the result is handed over without the test.
CheckCancelled_NoTest(c) ==
  /\ task[c] = "finished"
  /\ task' = [task EXCEPT ![c] = "checked"]
  /\ UNCHANGED <<py_fut, cancel_tx, work, woken, rx_waker, poll_rx, result, ready, loop, invalid>>

\* Under the GIL: nothing is handed over to a future that is cancelled.
CheckCancelled(c) ==
  /\ task[c] = "finished"
  /\ task' = [task EXCEPT ![c] = IF cancelled(c) THEN "done" ELSE "checked"]
  /\ UNCHANGED <<py_fut, cancel_tx, work, woken, rx_waker, poll_rx, result,
                 ready, loop, invalid>>

\* set_result: call_soon_threadsafe(CheckedCompletor, future, complete, val).
SetResult(c) ==
  /\ task[c] = "checked"
  /\ task' = [task EXCEPT ![c] = "done"]
  /\ call_soon_threadsafe(CompletorHandle(c, result[c]))
  /\ UNCHANGED <<py_fut, cancel_tx, work, woken, rx_waker, poll_rx, result,
                 loop, invalid>>

----------------------------------------------------------------------------
(* The thread of the event loop.                                           *)

\* The end of cancel_tx, by send or by drop, wakes the task cancel_rx knows.
EndCancelTx(C, how) ==
  /\ cancel_tx' = [c \in Conv |-> IF c \in C THEN how ELSE cancel_tx[c]]
  /\ woken' = [c \in Conv |->
                 woken[c] \/ (c \in C /\ rx_waker[c] /\ FutureAlive(c))]

\* PyDoneCallback::__call__; once it returns the handle is released, and a
\* sender that was not taken goes with it.
RunDoneCallback(c) ==
  /\ loop = "running" /\ ready # <<>>
  /\ Head(ready) = DoneHandle(c)
  /\ ready' = Tail(ready)
  /\ EndCancelTx({c}, IF cancelled(c) THEN "sent" ELSE "dropped")
  /\ UNCHANGED <<py_fut, work, task, rx_waker, poll_rx, result, loop, invalid>>

\* Mutant: complete is called without testing `cancelled`.
RunCheckedCompletor_NoTest(c, v) ==
  /\ loop = "running" /\ ready # <<>>
  /\ Head(ready) = CompletorHandle(c, v)
  /\ IF py_fut[c] = "pending"
     THEN /\ py_fut' = [py_fut EXCEPT ![c] = v]
          /\ ready' = Append(Tail(ready), DoneHandle(c))
          /\ UNCHANGED invalid
     ELSE /\ invalid' = TRUE
          /\ ready' = Tail(ready)
          /\ UNCHANGED py_fut
  /\ UNCHANGED <<cancel_tx, rustVars, loop>>

\* CheckedCompletor::__call__: set_result or set_exception unless cancelled.
\* Completing a pending future schedules its done callback; set_exception raises
\* TypeError for what it refuses, and the future stays pending.
RunCheckedCompletor(c, v) ==
  /\ loop = "running" /\ ready # <<>>
  /\ Head(ready) = CompletorHandle(c, v)
  /\ \/ /\ cancelled(c) \/ (py_fut[c] = "pending" /\ v = "refused")
        /\ ready' = Tail(ready)
        /\ UNCHANGED <<py_fut, invalid>>
     \/ /\ py_fut[c] = "pending" /\ v # "refused"
        /\ py_fut' = [py_fut EXCEPT ![c] = v]
        /\ ready' = Append(Tail(ready), DoneHandle(c))
        /\ UNCHANGED invalid
     \/ /\ py_fut[c] \notin {"pending", "cancelled"}
        /\ invalid' = TRUE
        /\ ready' = Tail(ready)
        /\ UNCHANGED py_fut
  /\ UNCHANGED <<cancel_tx, rustVars, loop>>

RunHandle ==
  \E c \in Conv :
    \/ RunDoneCallback(c)
    \/ \E v \in Outcome \cup {"unreachable"} : RunCheckedCompletor(c, v)

----------------------------------------------------------------------------
(* Python code and the owner of the event loop.                            *)

\* asyncio.Future.cancel: the done callback is scheduled with call_soon,
\* which raises on a closed loop; the callback is released either way.
PyCancel(c) ==
  /\ py_fut[c] = "pending"
  /\ py_fut' = [py_fut EXCEPT ![c] = "cancelled"]
  /\ \/ /\ loop # "closed"
        /\ ready' = Append(ready, DoneHandle(c))
        /\ UNCHANGED <<cancel_tx, woken>>
     \/ /\ loop = "closed"
        /\ EndCancelTx({c}, "dropped")
        /\ UNCHANGED ready
  /\ UNCHANGED <<work, task, rx_waker, poll_rx, result, loop, invalid>>

LoopStop ==
  /\ LoopMayStop
  /\ loop = "running"
  /\ loop' = "stopped"
  /\ UNCHANGED <<py_fut, cancel_tx, rustVars, ready, invalid>>

LoopRun ==
  /\ loop = "stopped"
  /\ loop' = "running"
  /\ UNCHANGED <<py_fut, cancel_tx, rustVars, ready, invalid>>

\* loop.close() empties the ready queue; callbacks in it are released.
LoopClose ==
  /\ LoopMayClose
  /\ loop = "stopped"
  /\ loop' = "closed"
  /\ ready' = <<>>
  /\ EndCancelTx({c \in Conv : Queued(DoneHandle(c))}, "dropped")
  /\ UNCHANGED <<py_fut, work, task, rx_waker, poll_rx, result, invalid>>

----------------------------------------------------------------------------
RustStep(c) ==
  \/ SpawnInner(c) \/ PollFuture(c) \/ PollCancelRx(c)
  \/ JoinErr(c) \/ CheckCancelled(c) \/ SetResult(c)

Next ==
  \/ \E c \in Conv :
       \/ FutureIntoPyWithLocals(c)
       \/ \E o \in Outcome : FutureProgress(c, o)
       \/ RustStep(c)
       \/ RuntimeAbort(c)
       \/ PyCancel(c)
  \/ RunHandle
  \/ LoopStop \/ LoopRun \/ LoopClose

Spec == Init /\ [][Next]_vars

\* The runtime polls every task that is woken and hands the GIL over in turn.
\* A stopped loop is run again, and every run executes what is ready first.
Fairness ==
  /\ \A c \in Conv : WF_vars(RustStep(c))
  /\ WF_vars(LoopRun)
  /\ SF_vars(RunHandle)

FairSpec == Spec /\ Fairness

----------------------------------------------------------------------------
(* Properties.                                                             *)

\* The PyBaseException "unreachable" that Cancellable returns for a cancelled
\* future is never handed to the event loop, and no awaitable ends with it
\* ("this return value will never be used", Cancellable::poll).
UnreachableUnused ==
  /\ \A c \in Conv : ~Queued(CompletorHandle(c, "unreachable"))
  /\ \A c \in Conv : py_fut[c] # "unreachable"

\* No handle raises InvalidStateError into the exception handler of the loop:
\* a cancellation that races with the completion of the Rust future is noticed
\* by CheckedCompletor, however late it comes.
NoInvalidState == ~invalid

\* A future whose next poll finds a result, or finds that its sender told it to
\* stop, is in the run queue of the runtime.
NoLostWakeup == \A c \in Conv :
  task[c] = "idle" /\ (work[c] # "pending" \/ cancel_tx[c] = "sent") => woken[c]

\* A cancellation is queued for the loop or was told, unless the loop is closed.
CancelOnItsWay == \A c \in Conv : cancelled(c) =>
  \/ Queued(DoneHandle(c)) \/ cancel_tx[c] = "sent"
  \/ cancel_tx[c] = "dropped" /\ loop = "closed"

\* Python waits for a task that has ended only if its outcome is queued, the
\* loop is closed, the runtime dropped the task or Python refused the outcome.
OutcomeOnItsWay == \A c \in Conv : task[c] = "done" /\ py_fut[c] = "pending" =>
  \/ Queued(CompletorHandle(c, result[c]))
  \/ loop = "closed" \/ result[c] \in {"aborted", "refused"}

\* Nothing that somebody waits for is lost between the polls, the handles of the
\* loop and the GIL, however they interleave; the last disjuncts are all that
\* future_into_py_with_locals gives up: a closed loop, a JoinError that is no
\* panic and an exception that set_exception refuses.
NothingForgotten == NoLostWakeup /\ CancelOnItsWay /\ OutcomeOnItsWay

\* The conversion implements the awaitable of module Awaitable: an awaitable
\* ends with what its own Rust future yielded, at most once, and only its own
\* cancellation stops the Rust future (or a runtime that drops tasks).
job == [c \in Conv |->
  IF task[c] = "none" THEN "none"
  ELSE IF result[c] \in {"unreachable", "aborted"} THEN "dropped"
  ELSE IF result[c] # "none" THEN result[c]
  ELSE IF task[c] = "panicked" THEN "panic" ELSE "running"]

Promise == INSTANCE Awaitable WITH aw <- py_fut

ImplementsAwaitable == Promise!Spec

\* Cancelling the awaitable from Python cancels the Rust future: it is dropped
\* (or finishes by itself), even if it never becomes ready, unless the program
\* closes the loop.
CancelReachesRust ==
  \A c \in Conv : py_fut[c] = "cancelled" ~> ~FutureAlive(c) \/ loop = "closed"

\* So is it with the callback of the cancellation in the ready queue, whatever
\* becomes of the event loop: "if the asyncio.Future returned by this
\* conversion is cancelled via asyncio.Future.cancel, the Rust future will be
\* cancelled as well" (documentation of future_into_py_with_locals).
CancelAlwaysReachesRust ==
  \A c \in Conv : Queued(DoneHandle(c)) /\ py_fut[c] = "cancelled" ~> ~FutureAlive(c)

\* What the Rust future yields, a panic included, reaches the awaitable: Python
\* never waits for a Rust future that has ended, except on a closed loop or for
\* an exception that set_exception refuses.
OutcomeReachesPython ==
  \A c \in Conv : task[c] \in {"finished", "panicked"} ~>
    py_fut[c] # "pending" \/ loop = "closed" \/ result[c] = "refused"

----------------------------------------------------------------------------
(* Why the safety properties hold: the parts of an inductive invariant.    *)

\* The oneshot is sent only for a cancelled awaitable; Cancellable gives up
\* only once it was sent, and only an unfinished future is given up.
CancelChannel == \A c \in Conv :
  /\ cancel_tx[c] = "sent" => py_fut[c] = "cancelled"
  /\ result[c] = "unreachable" => cancel_tx[c] = "sent"
  /\ task[c] = "none" <=> py_fut[c] = "none"
  /\ py_fut[c] = "none" => cancel_tx[c] = "none"

\* How far the tasks are decides what they hold.
TaskProgress == \A c \in Conv :
  /\ task[c] \in {"none", "spawned", "idle", "polled", "panicked"} => result[c] = "none"
  /\ task[c] = "finished" => result[c] \in Outcome \cup {"unreachable"}
  /\ task[c] = "checked" => result[c] \in Outcome
  /\ task[c] = "aborted" => result[c] = "aborted"
  /\ task[c] = "done" => result[c] # "none"

\* A queued completor carries the outcome of its conversion and finds the
\* awaitable pending or cancelled; an awaitable with an outcome has no more, and
\* none has an outcome that Python refuses.
CompletorQueued == \A c \in Conv :
  /\ \A v \in Outcome \cup {"unreachable"} : Queued(CompletorHandle(c, v)) =>
       /\ v = result[c] /\ v \in Outcome
       /\ task[c] = "done"
       /\ py_fut[c] \in {"pending", "cancelled"}
  /\ py_fut[c] \notin {"none", "pending", "cancelled"} =>
       task[c] = "done" /\ py_fut[c] = result[c] /\ result[c] \in Outcome \ {"refused"}

\* A queued done callback still holds its sender, so cancel_tx.take().unwrap()
\* cannot panic; an awaitable that is pending has not scheduled it.
DoneQueued == \A c \in Conv :
  /\ Queued(DoneHandle(c)) => cancel_tx[c] = "live" /\ py_fut[c] # "pending"
  /\ py_fut[c] = "pending" => cancel_tx[c] = "live"

\* No handle is in the ready queue twice.
NoTwin == IsInjective(ready)

\* The inductive invariant of FutureIntoPyProofs: what is queued for the loop
\* agrees with how far the tasks are, with the oneshot and with the awaitable.
IInv ==
  /\ TypeOK
  /\ CancelChannel /\ TaskProgress /\ CompletorQueued /\ DoneQueued /\ NoTwin
  /\ NoInvalidState
=============================================================================
