# pyo3-asyncio in TLA+

A verification development for [`pyo3-asyncio`](../src/README.md): TLA+ models
of the conversions between Rust futures and Python awaitables, of the streams,
the task locals, the runner, the start of a program and the test harness, TLC
configurations that check them on small
instances, and TLAPS proofs of what matters most for every instance.

Source paths below are relative to the repository (`src/generic.rs` is the file
`generic.rs` of the crate). `PROJECT.json` maps every definition to the lines it
stands for and lists the hazards, each with the property that is about it.

## 1. Inventory

The crate connects two schedulers. A **Rust runtime** (tokio or async-std,
behind the traits of `generic.rs`) polls tasks on its own threads. A **Python
event loop** (asyncio) runs the handles of its ready queue on one thread. The
crate owns no thread and no scheduler: it is the set of callbacks, channels and
tasks that carry a result, a cancellation or an item from one to the other. All
of it runs under the GIL or beside it, and a block under the GIL is not atomic
as soon as it calls Python code.

| Component | Where | State it keeps | Operations |
|---|---|---|---|
| Rust future to awaitable | `generic.rs` 336-347, 566-733 | an `asyncio.Future`, a oneshot `cancel_tx`/`cancel_rx`, an outer and an inner Rust task, `poll_cancel_rx` | `future_into_py*`, `Cancellable::poll`, `PyDoneCallback`, `set_result`, `CheckedCompletor` |
| local (`!Send`) variant | `generic.rs` 966-1046 | the same | `local_future_into_py*` |
| awaitable to Rust future | `lib.rs` 522-661 | a oneshot that moves through `PyEnsureFuture` and `PyTaskCompleter`, a Python task | `into_future*` |
| stream v1 | `generic.rs` 1284-1326 | a Rust task, a bounded `async_channel` | `into_stream_v1*` |
| stream v2 | `generic.rs` 1437-1681 | a Python task `forward`, a `futures` mpsc channel with parked senders, a Rust task per item that found it full | `into_stream_v2*`, `GenericSender`, `SenderGlue` |
| task locals | `generic.rs` 65-112, `tokio.rs` 100-138, `async_std.rs` 79-124, `lib.rs` 475-520 | one slot per Rust task, which holds a `TaskLocals`: a loop and a context | `scope`, `scope_local`, `get_current_loop`, `get_current_locals` |
| runner | `generic.rs` 193-314, `lib.rs` 424-441 | a `Mutex<Option<T>>`, the loop it made | `run`, `run_until_complete`, `close` |
| tokio singleton | `tokio.rs` 54-69, 172-201 | `TOKIO_BUILDER`, `TOKIO_RUNTIME` | `init`, `init_with_runtime`, `get_runtime` |
| cached Python objects | `lib.rs` 406-469, `generic.rs` 1437-1447 | `OnceCell`s filled under the GIL | `asyncio`, `ensure_future`, `py_true`, ... |
| test harness | `testing.rs` | the list of tests | `test_harness`, `parse_args`, `main` |
| macros | `pyo3-asyncio-macros` | the `Configuration` of one expansion | `main`, `test` |

How they interact:

* `future_into_py` gives Python an `asyncio.Future` and Rust two tasks. Rust
  talks to Python through `call_soon_threadsafe(CheckedCompletor, ..)`; Python
  talks to Rust through the done callback `PyDoneCallback`, which sends on the
  oneshot only if the future was cancelled.
* `into_future` goes the other way: `call_soon_threadsafe(PyEnsureFuture)`,
  `ensure_future`, a done callback `PyTaskCompleter`, a oneshot to Rust. A
  sender that is dropped anywhere on the way is read as `CancelledError`.
* stream v1 is a loop of `into_future` on `__anext__()`. Stream v2 turns it
  around: a Python task pushes, and uses `future_into_py` when it cannot.
* `run_until_complete` is `future_into_py` plus asyncio's `run_until_complete`
  plus a cell for the value; `run` adds a new loop and its shutdown.
* every conversion takes its event loop and `contextvars` from the task locals.
* the generated `main` calls `init`, starts what drives the runtime and calls
  `run`; every accessor it goes through fills a `OnceCell`, and other threads
  may be filling others.
* a test program is `run` around `test_harness`, whose tests use both
  conversions, often on one object.

What is hard about it: cancellation races with completion across two threads;
the oneshot and the wakers must not lose a wakeup between two halves of a poll;
either side may end first (a loop that is stopped or closed, a task that is
aborted, panics or is collected, a stream that is dropped); queues at their
limit; and errors that have no one to go to. Nothing is persisted, and messages
are neither lost nor duplicated except by closing the loop.

What makes each component correct:

* **future_into_py**: the awaitable ends with the outcome of its own Rust future
  and at most once; no callback raises in the loop, however cancellation races;
  cancellation reaches the Rust future; a panic reaches Python.
* **into_future**: the Rust future gets the result of its own Python task; the
  sender always has one holder; whatever ends resolves the Rust future.
* **streams**: items arrive once and in order; the stream ends when the generator
  does; dropping the stream releases the tasks behind it; limits are respected.
* **task locals**: code finds the locals of its own innermost scope.
* **runner**: returns its own future's outcome, never unwraps an empty cell, and
  does not close the loop over a cancellation that has not been told.
* **tokio singleton**: there is one runtime, the configured or the lent one,
  however the threads race, and a failed build is not forgotten.
* **cached Python objects**: no thread that holds the GIL waits for a cell whose
  initialiser waits for the GIL.
* **macros**: an attribute compiles if it makes sense and configures what it
  says; the generated `main` gets to poll the async `main`.
* **test harness**: the verdict of the program is that of its tests.

## 2. Modules

| Module | Models | State and actions |
|---|---|---|
| `Awaitable` | what `future_into_py` promises | `aw`, `job`; `Start`, `Finish`, `Stop`, `Deliver`, `Cancel` |
| `FutureIntoPy` | `future_into_py_with_locals` | see below; implements `Awaitable` |
| `OneAnswer` | what `into_future` promises | `fut`, `answer`, `open`; `Ask`, `Settle`, `Resolve`, `GiveUp`, `Close` |
| `IntoFuture` | `into_future_with_locals`; implements `OneAnswer` | `fut` (Rust future), `tx` (who holds the sender), `py` (Python task), `ready`, `loop` |
| `OrderedStream` | what a stream of an async generator promises | `answer`, `out`, `rx`; `Answer`, `Yield`, `End`, `Drop` |
| `StreamV1` | `into_stream_with_locals_v1`; composes `IntoFuture`, request k is conversion k; implements `OrderedStream` | `pc`, `next`, `chan`, `rx`, `received`, `stop` |
| `ForwardedStream` | what a stream promises whose generator does not wait for its reader | `gen`, `next`, `aside`, `out`, `rx`; `Yield`, `Exhausted`, `Raise`, `Abandon`, `Deliver`, `End`, `Drop` |
| `StreamV2` | `into_stream_with_locals_v2`, `GenericSender`, `STREAM_GLUE`; implements `ForwardedStream` | `forward`, `task`, `queue`, `parked`, `open`, `rx`, `received` |
| `TaskScope` | `ContextExt::scope` of tokio and of async-std, `TaskLocals`, `get_current_locals` | `stack`, `state`, `owner`, `slot`, `saved`, `locals`, `own` |
| `RunUntilComplete` | `run_until_complete`, `run`, `close`; composes `FutureIntoPy` | `pc`, `cur`, `cell`, `ret`, `todo` |
| `Singletons` | `OnceCell`s of `lib.rs` and `generic.rs`, `init`, `init_with_runtime`, `get_runtime`; no `Next` of its own | `gil`, `mode`, `stack`, `cell`, `builder`, `poisoned`, `runtime`, `lent` |
| `TokioMain` | the `main` attributes, what they generate, and programs without them; composes `Singletons` | `item`, `rest`, `config`, `pc`, `calls`, `driver`, `main_fut` |
| `TestProgram` | `test_harness`, the `test` attributes and the tests of `pytests`; composes `FutureIntoPy` and `IntoFuture` over one ready queue | `state`, `joined`, `at`, `harness`, `process` |
| `MCIntoFuture` | the symmetry set for TLC | |
| `QueueLemmas`, `*Proofs` | theorems and proofs | |

**FutureIntoPy.** One action per atomic step of the code. `SpawnInner` is the
outer task's first poll. A poll of the inner task is two actions, `PollFuture`
and `PollCancelRx`, because a cancellation may come between them. `JoinErr`,
`CheckCancelled` and `SetResult` are the end of the tasks; the test of
`cancelled` and the append to the ready queue are separate, since
`call_soon_threadsafe` is Python code and may give up the GIL. `RunDoneCallback`
and `RunCheckedCompletor` are the two handles the loop runs, in queue order.
`PyCancel`, `LoopStop`, `LoopRun`, `LoopClose` and `RuntimeAbort` are what the
program and the runtime may do at any time. What the code relies on outside the
repository is modelled from how it is used: a oneshot whose end wakes the task
its receiver knows; a ready queue that `close()` empties, which releases the
callbacks in it; `call_soon_threadsafe` that raises on a closed loop. An outcome is what a job ends
with as far as the code tells it apart: `"refused"` is an exception that
`asyncio.Future.set_exception` does not take (`StopIteration`), with which
`complete.call1` raises in the loop and the awaitable stays pending.

**IntoFuture.** `tx[c]` follows the sender: in the ready queue, with the done
callback of the Python task, sent, or dropped. `RunEnsureFuture` covers an
awaitable that is refused, one that is a future already done, and one that
becomes a running task. A running task may be collected: asyncio refers to it
weakly. The abstract call sees only its answer, which is settled when the sender
is sent or dropped; a sender that is dropped where a result could still come is
an answer that `OneAnswer` does not have.

**StreamV1.** A request is a conversion of `IntoFuture`, and each step of the Rust
task that changes one is that module's action. The abstract stream sees the
answer of a request as soon as the Rust task has it, and nothing of the channel:
`out` is the answers of what was received, and `Ahead` is `Capacity + 1`, what
the channel holds and the item in the task's hands.

**StreamV2.** `Push` is `futures`' `do_send`: a message is always queued and its
sender parked if the channel was at its buffer. So `mpsc::channel(10)` holds 11
messages of one sender before `try_send` is full; the models use a buffer of 1.
What `do_send` tests is a count of its own, which senders raise before they queue
and the receiver lowers after it has unparked a sender. `Push` has the outcomes
this allows and no more: a sender may be parked although there is room, but not
before `Buffer` messages were sent; beyond the buffer it may be left unparked only
while another sender is parked.
The flush of a fresh clone returns at once, so `TaskSend` and `TaskFlushed` are
the two polls of `tx.send(item)`. The abstract stream knows no channel: an item
that went to a Rust task is `aside` for good, even when it is sent at last, and
its `First` is `Buffer + 1`, what the channel takes before a reader comes.

**TaskScope.** tokio swaps the locals in and out around every poll; async-std
replaces them once in `scope` and restores them at completion. `Free` names the
runtimes whose programs may do more than plain `.await` with a scoped future
(join, select, drop, catch a panic). A scope is given `TaskLocals` by the
program or inherits the current ones, as every conversion does; `locals` is what
the code gives it, `own` what it would be given if slots were never confused.
The thread of the task may run a Python loop or none: `running`.

**RunUntilComplete.** asyncio's loop is entered with all that is ready owed to
it: `todo` counts these handles, and the loop is left no earlier than when it is
0. The callback that stops the loop is added after `PyDoneCallback` and both are
scheduled together, so `LeaveDone` waits until `PyDoneCallback` has run.
A `KeyboardInterrupt` out of the loop is not modelled.

**Singletons.** An accessor is a stack of calls: `Call` enters it, `Found`
returns when the cell is full, `Enter` makes the thread its initialiser, and one
action per cell completes the initialisation. A cell that another thread
initialises blocks, whether or not the GIL is held. What differs is what an
initialiser does to the GIL: `asyncio`, `contextvars` and `from_code` run Python
code under it and may give it up (`YieldGil`), `py_true` and `py_false` take it,
`ensure_future` and `get_running_loop` need another cell. `py_true` is called
without the GIL only after it has been called with it: the first
`try_send` of an item succeeds on the loop's thread. `Build` and `BuildPanics`
are `get_runtime`'s initialiser: a panic under the lock of `TOKIO_BUILDER`
poisons it, and leaves the cell empty.

**TokioMain.** `Expand` is the attribute: `Refuse` for a function that cannot be
a main (`RustcRefuses` is the one case that `async_std::main` expands and the
compiler stops: a `main` with inputs, which the generated code calls without
arguments), `ParseArg` for each turn of the loop of `parse_knobs`, whose arguments
still to come are `rest`, and `parse_knobs` for what follows the loop. Arguments
are abstract (known and unknown names, literals that are strings, integers,
zero, the largest `usize` and one more). Then the steps of
the generated `main` in their order: `MainInit` (`init(builder)`), `RtInit` (the
thread that drives a current_thread runtime), `MainCall` for each accessor that
`run` goes through, `SpawnMain`. Programs without a generated `main` are an
extension module and the `run_forever` tests. `ProgramCalls` is the code of the
program on any thread: accessors, the GIL, and an `init` that may be too late.

**TestProgram.** `test_harness`, `Unwrap`, `HarnessReturns` and `Exit` are the
harness. Each test of `pytests` is a script of steps; `Returns` and `Join` are
what the test attributes make of an async or a blocking function. The handles
of both conversions are in the one queue; where a Rust future's
`asyncio.Future` is the awaitable of `into_future`, completing it schedules both
of its callbacks, in the order in which they were added.

## 3. What TLC checks

| Run | Shows | Bounds |
|---|---|---|
| `future_into_py` | `UnreachableUnused`, `NoInvalidState`, `NothingForgotten`, the inductive invariant `IInv`, `ImplementsAwaitable`; `CancelReachesRust`, `OutcomeReachesPython` | 2 conversions, loop stops and closes, tasks may be aborted |
| `future_close` (violation) | `CancelAlwaysReachesRust` fails when the loop is closed | 1 conversion |
| `into_future` | `SenderHeld`, `ImplementsOneAnswer`, `AnswerArrives` | 2 calls, everything may go wrong |
| `into_future_refused` (violation) | `RefusalIsAnError` fails | 1 call |
| `stream_v1` | `InOrder`, `OneRequest`, `ImplementsStream`, `ExhaustedEnds`, `DropReleasesTask` | 3 requests, capacity 1 (as in the code) |
| `stream_v2` | `FirstItemsExact`, `ImplementsForwardedStream`, `StreamEnds`, `AsideArrives` | 5 items, buffer 1 |
| `stream_v2_order` (violation) | `YieldsTheGenerator` fails | 3 items, buffer 1 |
| `task_scope` | `SeesOwnLocals` on tokio for every program, on async-std for plain await | 3 scoped futures, 2 loops, 1 context |
| `task_scope_async_std` (violation) | `SeesOwnLocals` fails on async-std with join or select | 2 scoped futures |
| `run_until_complete` | `NeverUnwrapsNone`, `ReturnsOwnOutcome`, `CancelToldBeforeClose`, `RunReturns` | 1 main future, 1 other conversion |
| `tokio_main` | `ConfigAsWritten`, `RuntimeAsConfigured`, `WhoWaits`, `MainStarts`, `CallsReturn` | up to 2 arguments; the seven programs of `Executed`; the main thread and one other |
| `test_program` | `RoundTripFaithful`, `Verdict`, `ProgramEnds` | 2 of the 11 tests at a time, or 3 of the 4 in `Mixed`; at most 2 tests at once |

Why the bounds suffice. Conversions share only the ready queue and the loop:
two give every order of their handles, and a third only lengthens the queue. In
`StreamV2` buffer 1 and five items let the sender park, be unparked, park again,
and let up to three Rust tasks exist at once. `OtherYields` leaves out of
`run_until_complete` how a conversion beside the main one may fail: the loop
handles each of its outcomes like the others, and `future_into_py` has them all. In `StreamV1` three requests
include one before, one at and one after a lost answer. Three scoped futures
are the least that nest two deep beside a sibling. `N`, `Capacity`, `Buffer`
bound what is unbounded in the program (items of a generator) or large (10).
In `TokioMain` two arguments are enough for a duplicate, for a flavour and a
number of workers in both orders, and for an error beside a good argument; of
the attributes that are enumerated only the four examples are also run. Two
threads are enough for every wait of one for another and for a circle of two; that
there is no circle of more is `LockOrder`, proved for any set of threads. `Uses`
bounds what the code of a program calls: every cell is used by some program
beside every cell it could wait with. `LateBuilder` and `Lendable` hold one
builder and one runtime that differ from every configured one's. In
`TestProgram` tests share the queue and the harness only; programs of two cover
each pair, and with `Limit` 2 a program of three has a test that waits for its
turn. The filter excludes at most one test.

Fairness, and why the code justifies it:

* a woken Rust task is polled, and a task that wants the GIL gets it: weak
  fairness of `RustStep`, `AwaitRx`, the stream tasks;
* a loop that the program stops is run again, and each run executes what was
  ready when it began, which is how asyncio's `_run_once` works: weak fairness of
  `LoopRun`, strong fairness of `RunHandle` (it is disabled while the loop is
  stopped). Runs with a closed loop only claim what needs no loop any more;
* in `RunUntilComplete` the loop is left when its stop callback has run
  (`LeaveDone`); that the program calls `loop.stop()` is never assumed;
* the Rust code that owns a stream keeps reading it; nothing is assumed of a
  generator, of a user's future or of a Python task;
* in `TokioMain` the GIL is a lock that others take in between: strong fairness
  of the steps that need it, because the interpreter makes a running thread
  give it up (`YieldGil`) and wakes who waits for it. `WF` of what needs no lock.
  Nothing is assumed of `ProgramCalls` or of the async `main`'s end;
* in `TestProgram` something that can be done is done (`WF_vars(Next)`). Its
  sleeps end only when nothing else can be done: the tests sleep a second, and
  their other steps take none. That is the assumption under which the tests of
  cancellation are written.

Deadlock checking is off (`CHECK_DEADLOCK FALSE`) where the system really stops:
the loop is closed, the stream has ended or the tasks are done.

### Disagreements with the documentation

1. **`CancelAlwaysReachesRust`.** The documentation of `future_into_py_with_locals`
   promises that cancelling the awaitable cancels the Rust future. If the loop
   is stopped and closed with `PyDoneCallback` still queued, the sender is
   dropped; `Cancellable` takes that for a completed awaitable and never polls
   `cancel_rx` again (`generic.rs:705`).
2. **`RefusalIsAnError`.** `into_future` is documented in terms of
   `run_coroutine_threadsafe`, which passes the exception of `ensure_future` on.
   Here it goes to the loop's exception handler and the Rust future reads
   `CancelledError` (`lib.rs:561`).
3. **`YieldsTheGenerator`.** `STREAM_GLUE` awaits the send only if
   `asyncio.iscoroutine(should_continue)`; a full channel returns an
   `asyncio.Future`, which is no coroutine. With more than eleven items a slow
   reader sees items reordered, or loses them when the generator ends
   (`generic.rs:1523`). The tests send ten.
4. **`SeesOwnLocals` on async-std.** `scope` changes the slot of the task when it
   is called and until the future completes, so joined or dropped futures leave
   their locals to others (`async_std.rs:84`).

### Two locks

`CallsReturn` and `WhoWaits` are stated with their exceptions, `MayBlock`, and
these are what the run shows. The
initialiser of `FALSE` takes the GIL inside the cell; a Rust task that is there
without the GIL and a loop thread that has the GIL and wants the cell wait for
each other for good (`generic.rs:1444`). `GLUE_MOD` runs Python code inside the
cell, which may give the GIL to a thread that then waits for the cell
(`generic.rs:1648`). The same holds of the imports in `ASYNCIO` and
`CONTEXTVARS` (`lib.rs:445`), but not in a program with a generated `main`: `run`
fills both before any other thread runs code of the program. That is the mutant
`MainCalls_NoContext`: one step later and it is lost. `TRUE` has the form of
`FALSE` and not its problem, because its first call holds the GIL. Whether an
import gives the GIL up is Python's choice; the model lets it.

## 4. What is proved

| Theorem | Module | Statement |
|---|---|---|
| `Inductive`, `TypeCorrect`, `SentinelNeverUsed`, `NeverInvalidState` | `FutureIntoPyProofs` | `Spec => []` `IInv`, `TypeOK`, `UnreachableUnused`, `NoInvalidState` |
| `Refinement` | `FutureIntoPyProofs` | `Spec => Promise!Spec`: every step is a step of `Awaitable` or a stutter |
| `AlwaysUnderWay` | `FutureIntoPyProofs` | `Spec => []NothingForgotten` |
| `TypeCorrect`, `Answers`, `SenderNeverLost` | `IntoFutureProofs` | `Spec => []` `TypeOK`, `AnswerFaithful`, `SenderHeld` |
| `Refinement` | `IntoFutureProofs` | `Spec => Promise!Spec`: every step is a step of `OneAnswer` or a stutter |
| `TypeCorrect`, `OwnScope` | `TaskScopeProofs` | `Spec => []TypeOK`; `Spec => []SeesOwnLocals` if `"async_std" \notin Free` |
| `TypeCorrect`, `NothingLostOrTwice`, `FirstItems`, `OvertakenOnlyAside` | `StreamV2Proofs` | `Spec => []` `TypeOK`, `Accounted`, `FirstItemsExact`, `OnlyFullOvertaken` |
| `Refinement` | `StreamV2Proofs` | `Spec => Promise!Spec`: every step is a step of `ForwardedStream` or a stutter |
| `TypeCorrect`, `AnswersInOrder`, `NeverTwoAnext` | `StreamV1Proofs` | `Spec => []` `TypeOK`, `InOrder`, `OneRequest` |
| `Refinement` | `StreamV1Proofs` | `Spec => Promise!Spec`: every step is a step of `OrderedStream` or a stutter |
| `TypeCorrect`, `CellNeverEmpty`, `OwnOutcome` | `RunUntilCompleteProofs` | `Spec => []` `TypeOK`, `NeverUnwrapsNone`, `ReturnsOwnOutcome` |
| `ToldBeforeClose` | `RunUntilCompleteProofs` | `Spec => CancelToldBeforeClose`, for every conversion that is cancelled before the shutdown |
| `Composition` | `RunUntilCompleteProofs` | the runner implements `FutureIntoPy`, and so `Awaitable` |
| `TypeCorrect`, `AttributeAsWritten`, `ConfiguredRuntime` | `TokioMainProofs` | `Spec => []` `TypeOK`, `ConfigAsWritten`, `RuntimeAsConfigured` |
| `LockOrder` | `TokioMainProofs` | `Spec => []WhoWaits` |

They hold for every set of conversions, calls, scoped futures or threads, every
number of items and requests, every capacity and every value of the switches;
the only assumptions are the named `ASSUME`s of the modules, which say that
switches are Booleans, that bounds are naturals, that a channel of v1 has room
for one item (`async_channel::bounded` panics otherwise), that `"task"` is no
future, that a thread is no state of a cell, and that what stands for no loop and
no context is none. `QueueLemmas` holds what the proofs share about sequences.

Each module has one inductive invariant, `IInv`, to which a second section of
three of them adds what its own theorem needs (`WakerKnown`, `Kept`, `Locks` and
`ImportsFirst`). TLC checked them on the instance of the module's run before they
were proved.

*FutureIntoPy.* `NoInvalidState` is not inductive: a queued completor must be
known to find its awaitable pending or cancelled, so it must be the only one,
and the task that queued it must be done. `IInv` adds `CompletorQueued` and
`TaskProgress` (what is queued agrees with how far the tasks are), `CancelChannel`
and `DoneQueued` (the oneshot is sent only for a cancelled awaitable, and a
queued `PyDoneCallback` still has its sender, so `cancel_tx.take().unwrap()` does
not panic) and `NoTwin` (no handle is queued twice: popping one removes it).
`UnreachableUnused` follows because `cancel_tx[c] = "sent"` implies that the
awaitable is cancelled for good, and `CheckCancelled` sees it. The refinement
uses the same invariant: a completor delivers `result[c]`, the outcome of its own
job.

`NothingForgotten` is the safety half of `CancelReachesRust` and
`OutcomeReachesPython`: whatever somebody waits for is in a run queue or in the
ready queue, and the disjuncts of its parts are all that is given up. For its
queue, `HandleLeaves` says that a handle leaves it only to be run or with the
loop. For the run queue, a future that is idle must be known to be woken again,
which is `WakerKnown`: its sender has its waker, or it was woken, or it does not
poll `cancel_rx` any more because the sender is gone. That is the order of the two
halves of `Cancellable::poll`: the future first, then the oneshot, which takes
the waker only if it has nothing yet.

*IntoFuture.* `SenderHeld` and `SenderEnd` are proved together with `NoTwin`;
`AnswerFaithful` follows from how the sender ended, and is kept as a theorem of
its own; the refinement says the same of every step. It maps the sender to an
answer: `AnswerOf` lists the four cases, and `SenderEnd` is what keeps a dropped
sender of a call that could still be answered from being one of them. Only
`LoopClose` settles more than one answer in a step.

*TaskScope.* On tokio the slot is that of the top of the stack, and each poll
under way has saved the locals of its owner. On async-std with plain `.await` the
unfinished futures form one chain from the task to the innermost await, whose
end holds the slot; that chain is what join, select and drop break. `LocalsInv`
adds that what each begun scope was given is what it should have been given: a
scope that inherits does so while the slot is right.

*StreamV1.* The stream takes no step of a conversion that `IntoFuture` does not
have, so `IntoFutureProofs` is reused through `INSTANCE` and its invariant is one
conjunct (`AnextRaises` is the one exception: `__anext__()` itself may raise
before there is a conversion). `InTurn` says that the requests before `next` are
answered, those after it not made, and that the task awaits the current one;
`AnsweredAtEnd` that an answer is only read from a sender that has ended, whence
`OneRequest`. For the refinement `Taken` adds that `next` runs ahead of the
reader by `Capacity + 1` at most, and that while somebody reads only
`StopAsyncIteration` ends the task: without it `RecvEnd` could end a stream that
still owes an item.

*StreamV2.* `Accounted` says where each item is: received, in the channel or with
its Rust task, and nowhere twice. `OpenWhileForwarding` says that the
channel is closed only by what ends `forward` or drops the receiver, so an item
is never refused while there is somebody to have it. `FirstItemsExact` and
`OnlyFullOvertaken` rest on two more: `FullIsLate` (only items beyond the first
`Buffer + 1` find the channel full) and `NoneAside` (until an item has gone to a
Rust task of its own, `forward` has pushed every item itself, in the order of the
generator). The refinement puts them together: `Recv` is `Deliver`, whose item is
in no reader's hands yet (`Accounted`) and after none but items that were set
aside (`OnlyFullOvertaken`), none of which is among the first (`FullIsLate`). For
`RecvEnd` it needs `Kept`: an item is refused by a closed channel only when the
generator ended by itself and `forward` closed it. A generator that raises leaves
the channel to the senders of its Rust tasks, so that nothing it yielded is lost.

*RunUntilComplete.* Every step is one of `FutureIntoPy` or leaves its variables
alone (`StepIsConversion`), so all that is proved of the conversion holds here:
that is `Composition`. What is left is the runner's own: `CellFilled` (once the
main awaitable is done with a value, the cell has it) and `MainThread` (where the
runner is, and which conversion is the current one).
`CancelToldBeforeClose` speaks of two moments, the cancellation and the close, so
it is no invariant. Its proof has a fact that holds from the first to the second,
`ToldByShutdown`, one for each conversion: while the loop runs for
`shutdown_asyncgens`, the cancellation is told or its `PyDoneCallback` is among the
first `todo` handles of the queue, and afterwards it is told. A count is needed
because other handles may stand before it, and the loop is left when `todo` is 0.
`IInv` and a step preserve the fact; `PTL` makes `[]` of it. A conversion that is
cancelled during the shutdown may lose its callback with the loop: that is
`CancelAlwaysReachesRust` again, and no part of the promise.

*TokioMain.* The proof has two halves. For the attribute, `AsRead` says after
each argument that the `Configuration` holds what those read so far say, each
known, usable and given once; the end of the loop is then `ConfigAsWritten`, for
lists of any length. For the runtime, `Chosen` is the argument the code relies
on without saying so: until there is a runtime, the builder is the configured
one and nobody lends another, because other code of the program runs only after
the main thread has spawned the async main, and it does that only after it was
in `get_runtime` itself, as an accessor still to call, as the one it is in, or
with a runtime or a panic to show for it. `StackShape` bounds an accessor's
nesting, and `NothingYet` says that no thread is in one before `rt_init` is over.

`WhoWaits` has two parts. That there is no circle of cells is `Owner`: a thread
initialises the cell it is in or the attribute around `ASYNCIO`, so a thread that
is waited for and waits itself waits for `ASYNCIO`, whose initialiser needs no
other cell. That the GIL is not held while waiting for one that needs it, but
for `MayBlock`, is `Holds` (who is in an accessor of the Python objects has the
GIL, unless it is in the middle of an import) with `ImportsFirst`: while
`ASYNCIO` or `CONTEXTVARS` is empty in a program with a generated `main`, no other
thread has run Python code or has the GIL. `OwnOnly` says once for all accessors
what a step of a thread leaves to the others.

Model-checked only:

* everything about fairness (`~>` and `<>` properties), which is beyond the
  prover;
* `TestProgram`: its tests are a fixed list of scripts, so that a theorem would
  say little more than the run does, which has every pair of them. Its type
  invariant needs that `SelectSeq` returns a subsequence, which is induction over
  the sequence, and its clock (`Time`) is stated with `ENABLED`; both are beyond
  the prover;
* the violations, which are counterexamples and need no proof.

## 5. Not modelled

* async-std's `spawn_local`, which lets a panic out (`async_std.rs:105`): what
  happens then is the executor's business.
* the wrappers of `tokio.rs` and `async_std.rs` that only name a runtime.
* an error of `py.import` or `from_code`, which leaves its cell empty and is
  returned; the initialisers are modelled as ending in success.
* macros: what `syn` parses and the `Configuration` of a tokio without
  `rt-multi-thread`, which `tokio_main` never asks for.
* tests of `pytests` beside those of `TestProgram`: `test_multiple_asyncio_run`,
  `test_contextvars` and the tests of the streams. The environments of `TaskScope`,
  `StreamV1` and `StreamV2` include what they do, except for a loop nested in a
  blocking test.
* `contextvars`: the context is a value handed through; only where it is taken
  from is modelled (`TaskScope`).
* data: values, exceptions and panic messages are their kinds.

## 6. Plan

Done: all modules of section 2, the runs of section 3 and the proofs of
section 4.

Left:

1. `RoundTripFaithful` for any test script, from the invariants of both
   conversions over their two halves of the one queue.
2. An abstract specification of the program's statics that `Singletons` implements
   (one runtime, each cell filled once), which would let `TokioMain` and an
   extension module be proved from it.
3. The errors of `py.import` and `from_code`, which leave a cell to its next
   caller.
