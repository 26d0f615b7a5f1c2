----------------------------- MODULE IntoFuture -----------------------------
(***************************************************************************)
(* The conversion of a Python awaitable into a Rust future                 *)
(* (into_future_with_locals).                                              *)
(*                                                                         *)
(* For a call c, a oneshot sender travels: into_future_with_locals gives   *)
(* it to a PyEnsureFuture in the ready queue of the event loop;            *)
(* PyEnsureFuture makes a Python task of the awaitable and gives the       *)
(* sender to a PyTaskCompleter, the done callback of that task; and        *)
(* PyTaskCompleter sends the result of the task.  Whoever holds the sender *)
(* and is released without sending drops it, and the Rust future, which    *)
(* awaits the receiver, reads that as asyncio.CancelledError.              *)
(***************************************************************************)
EXTENDS Naturals, Sequences, Functions

CONSTANTS
  Call,           \* calls of into_future_with_locals
  LoopMayStop,    \* may the program stop (and run again) the event loop?
  LoopMayClose,   \* may the program close a stopped event loop?
  MayBeRefused,   \* may ensure_future raise (the object is no awaitable)?
  MayCollect      \* may Python collect a task that only the loop refers to?

ASSUME SwitchesAssumption ==
  /\ LoopMayStop \in BOOLEAN
  /\ LoopMayClose \in BOOLEAN
  /\ MayBeRefused \in BOOLEAN
  /\ MayCollect \in BOOLEAN

VARIABLES
  fut,    \* the Rust future: none, failed, waiting, dropped or an answer
  tx,     \* who holds the sender, or how it ended: sent or dropped
  py,     \* the Python task: none, running, refused, collected or a result
  ready,  \* the ready queue of the event loop, a FIFO of handles
  loop    \* running, stopped or closed

vars == <<fut, tx, py, ready, loop>>

Result == {"ok", "err", "cancelled"}

EnsureHandle(c) == [kind |-> "ensure_future", call |-> c]
CompleterHandle(c) == [kind |-> "task_completer", call |-> c]
Handle == {EnsureHandle(c) : c \in Call} \cup {CompleterHandle(c) : c \in Call}

Queued(h) == h \in Range(ready)

TypeOK ==
  /\ fut \in [Call -> {"none", "failed", "waiting", "dropped"} \cup Result]
  /\ tx \in [Call -> {"none", "ensure_future", "task_completer", "sent", "dropped"}]
  /\ py \in [Call -> {"none", "running", "refused", "collected"} \cup Result]
  /\ ready \in Seq(Handle)
  /\ loop \in {"running", "stopped", "closed"}

Init ==
  /\ fut = [c \in Call |-> "none"]
  /\ tx = [c \in Call |-> "none"]
  /\ py = [c \in Call |-> "none"]
  /\ ready = <<>>
  /\ loop = "running"

----------------------------------------------------------------------------
(* The Rust side.                                                          *)

\* call_soon_threadsafe(PyEnsureFuture); on a closed loop it raises and the
\* call returns Err.
IntoFutureWithLocals(c) ==
  /\ fut[c] = "none"
  /\ \/ /\ loop = "closed"
        /\ fut' = [fut EXCEPT ![c] = "failed"]
        /\ UNCHANGED <<tx, ready>>
     \/ /\ loop # "closed"
        /\ fut' = [fut EXCEPT ![c] = "waiting"]
        /\ tx' = [tx EXCEPT ![c] = "ensure_future"]
        /\ ready' = Append(ready, EnsureHandle(c))
  /\ UNCHANGED <<py, loop>>

\* Mutants: the state of the task is read before it was sent; a sender that was
\* dropped is not an answer.
AwaitRx_NoWait(c) ==
  /\ fut[c] = "waiting"
  /\ fut' = [fut EXCEPT ![c] = py[c]]
  /\ UNCHANGED <<tx, py, ready, loop>>

AwaitRx_OnlySent(c) ==
  /\ fut[c] = "waiting"
  /\ tx[c] = "sent"
  /\ fut' = [fut EXCEPT ![c] = py[c]]
  /\ UNCHANGED <<tx, py, ready, loop>>

\* rx.await: the result that was sent, or CancelledError if none will be.
AwaitRx(c) ==
  /\ fut[c] = "waiting"
  /\ \/ /\ tx[c] = "sent"
        /\ fut' = [fut EXCEPT ![c] = py[c]]
     \/ /\ tx[c] = "dropped"
        /\ fut' = [fut EXCEPT ![c] = "cancelled"]
  /\ UNCHANGED <<tx, py, ready, loop>>

\* The Rust future is dropped.  Nothing tells the Python task.
DropFuture(c) ==
  /\ fut[c] = "waiting"
  /\ fut' = [fut EXCEPT ![c] = "dropped"]
  /\ UNCHANGED <<tx, py, ready, loop>>

----------------------------------------------------------------------------
(* The thread of the event loop.                                           *)

\* Mutant: the sender is taken before ensure_future is known to succeed.
RunEnsureFuture_Forgets(c) ==
  /\ loop = "running" /\ ready # <<>>
  /\ Head(ready) = EnsureHandle(c)
  /\ \/ /\ MayBeRefused
        /\ py' = [py EXCEPT ![c] = "refused"]
        /\ tx' = [tx EXCEPT ![c] = "task_completer"]
     \/ /\ py' = [py EXCEPT ![c] = "running"]
        /\ tx' = [tx EXCEPT ![c] = "task_completer"]
  /\ ready' = Tail(ready)
  /\ UNCHANGED <<fut, loop>>

\* PyEnsureFuture::__call__.  If ensure_future raises, the handle still holds
\* the sender and drops it.  If the awaitable is a future that is done, adding
\* the callback schedules it.
RunEnsureFuture(c) ==
  /\ loop = "running" /\ ready # <<>>
  /\ Head(ready) = EnsureHandle(c)
  /\ \/ /\ MayBeRefused
        /\ py' = [py EXCEPT ![c] = "refused"]
        /\ tx' = [tx EXCEPT ![c] = "dropped"]
        /\ ready' = Tail(ready)
     \/ /\ py' = [py EXCEPT ![c] = "running"]
        /\ tx' = [tx EXCEPT ![c] = "task_completer"]
        /\ ready' = Tail(ready)
     \/ /\ \E r \in Result : py' = [py EXCEPT ![c] = r]
        /\ tx' = [tx EXCEPT ![c] = "task_completer"]
        /\ ready' = Append(Tail(ready), CompleterHandle(c))
  /\ UNCHANGED <<fut, loop>>

\* Mutant: the completer of a failed task sends nothing.
RunTaskCompleter_OnlyOk(c) ==
  /\ loop = "running" /\ ready # <<>>
  /\ Head(ready) = CompleterHandle(c)
  /\ ready' = Tail(ready)
  /\ tx' = [tx EXCEPT ![c] = IF py[c] = "ok" THEN "sent" ELSE "dropped"]
  /\ UNCHANGED <<fut, py, loop>>

\* PyTaskCompleter::__call__: send task.result(), whoever is listening.
RunTaskCompleter(c) ==
  /\ loop = "running" /\ ready # <<>>
  /\ Head(ready) = CompleterHandle(c)
  /\ ready' = Tail(ready)
  /\ tx' = [tx EXCEPT ![c] = "sent"]
  /\ UNCHANGED <<fut, py, loop>>

RunHandle == \E c \in Call : RunEnsureFuture(c) \/ RunTaskCompleter(c)

----------------------------------------------------------------------------
(* Python code and the owner of the event loop.                            *)

\* The Python task returns, raises or is cancelled: its callback is scheduled.
TaskFinish(c) ==
  /\ loop # "closed"
  /\ py[c] = "running"
  /\ \E r \in Result : py' = [py EXCEPT ![c] = r]
  /\ ready' = Append(ready, CompleterHandle(c))
  /\ UNCHANGED <<fut, tx, loop>>

\* asyncio refers to its tasks weakly, and PyEnsureFuture keeps no reference:
\* a task that waits for nothing else that is alive may be collected.
TaskCollected(c) ==
  /\ MayCollect
  /\ py[c] = "running"
  /\ py' = [py EXCEPT ![c] = "collected"]
  /\ tx' = [tx EXCEPT ![c] = "dropped"]
  /\ UNCHANGED <<fut, ready, loop>>

LoopStop ==
  /\ LoopMayStop
  /\ loop = "running"
  /\ loop' = "stopped"
  /\ UNCHANGED <<fut, tx, py, ready>>

LoopRun ==
  /\ loop = "stopped"
  /\ loop' = "running"
  /\ UNCHANGED <<fut, tx, py, ready>>

\* loop.close() empties the ready queue and releases what is in it.
LoopClose ==
  /\ LoopMayClose
  /\ loop = "stopped"
  /\ loop' = "closed"
  /\ tx' = [c \in Call |->
       IF Queued(EnsureHandle(c)) \/ Queued(CompleterHandle(c)) THEN "dropped" ELSE tx[c]]
  /\ ready' = <<>>
  /\ UNCHANGED <<fut, py>>

----------------------------------------------------------------------------
Next ==
  \/ \E c \in Call :
       \/ IntoFutureWithLocals(c) \/ AwaitRx(c) \/ DropFuture(c)
       \/ TaskFinish(c) \/ TaskCollected(c)
  \/ RunHandle
  \/ LoopStop \/ LoopRun \/ LoopClose

Spec == Init /\ [][Next]_vars

\* The runtime polls the Rust future when the sender has ended, a stopped loop
\* is run again, and every run of the loop executes what is ready first.
Fairness ==
  /\ \A c \in Call : WF_vars(AwaitRx(c))
  /\ WF_vars(LoopRun)
  /\ SF_vars(RunHandle)

FairSpec == Spec /\ Fairness

----------------------------------------------------------------------------
(* Properties.                                                             *)

\* No handle is in the ready queue twice.
NoTwin == IsInjective(ready)

\* How a sender ended says what became of the Python task.
SenderEnd == \A c \in Call :
  /\ tx[c] = "none" => py[c] = "none" /\ fut[c] \in {"none", "failed"}
  /\ tx[c] = "ensure_future" => py[c] = "none"
  /\ tx[c] = "sent" => py[c] \in Result
  /\ tx[c] = "dropped" => py[c] \in {"refused", "collected"} \/ loop = "closed"
  /\ Queued(CompleterHandle(c)) => py[c] \in Result
  /\ fut[c] \in {"none", "failed"} => tx[c] = "none"

\* There is always exactly one holder of the sender: a Rust future that waits
\* waits for a handle in the queue, a task that runs, or an end it can see.
SenderHeld == \A c \in Call :
  /\ tx[c] = "ensure_future" <=> Queued(EnsureHandle(c))
  /\ tx[c] = "task_completer" <=> py[c] = "running" \/ Queued(CompleterHandle(c))
  /\ ~(py[c] = "running" /\ Queued(CompleterHandle(c)))
  /\ fut[c] = "waiting" => tx[c] # "none"

\* The calls implement module OneAnswer: a Rust future resolves once, to what the
\* Python task of its own call ended with, and to CancelledError otherwise only
\* where no result can come any more: ensure_future raised, the task was collected
\* or the loop was closed before the completer ran.
NoResultComes(c) == py[c] \in {"refused", "collected"} \/ loop = "closed"

answer == [c \in Call |->
  CASE tx[c] = "none" -> "none"
    [] tx[c] = "sent" -> py[c]
    [] tx[c] = "dropped" -> IF NoResultComes(c) THEN "lost" ELSE "forgotten"
    [] OTHER -> "pending"]

open == loop # "closed"
Promise == INSTANCE OneAnswer
ImplementsOneAnswer == Promise!Spec

\* Every Rust future whose Python task has ended, or can no longer start, resolves:
\* whatever raises on the way drops the sender, and so do the handles that are
\* lost with the loop.
AnswerArrives == \A c \in Call :
  fut[c] = "waiting" /\ py[c] # "running" /\ (py[c] # "none" \/ loop = "closed")
    ~> fut[c] # "waiting"

\* An exception of ensure_future is the exception of the Rust future, as with
\* the asyncio.run_coroutine_threadsafe that the documentation of
\* into_future_with_locals names.
RefusalIsAnError == \A c \in Call :
  py[c] = "refused" => fut[c] \in {"waiting", "dropped", "err"}
=============================================================================
