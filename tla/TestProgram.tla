----------------------------- MODULE TestProgram -----------------------------
(***************************************************************************)
(* A test program of the crate: testing::main runs the tests of the        *)
(* inventory inside run_until_complete, and the tests use both conversions *)
(* on the one event loop, most of them on the same object: what a Rust     *)
(* future yields goes to Python and comes back.                            *)
(*                                                                         *)
(* The program composes modules FutureIntoPy and IntoFuture, with one      *)
(* conversion of each kind for a test.  Their handles share the ready      *)
(* queue of the loop, in the order in which they are scheduled.            *)
(*                                                                         *)
(* An async test is part of the future of the harness; a blocking test has *)
(* a thread of its own, which goes on when the harness is dropped.  The    *)
(* sleeps of the tests are long: they end only when nothing else can be    *)
(* done.                                                                   *)
(***************************************************************************)
EXTENDS Naturals, Sequences, FiniteSets

CONSTANTS
  Limit,     \* how many tests for_each_concurrent polls at a time: Some(4)
  MaxTests   \* bound: the tests of a program

ASSUME TestProgramAssumption == Limit \in Nat \ {0} /\ MaxTests \in Nat

VARIABLES
  py_fut, cancel_tx, work, task, woken, rx_waker, poll_rx, result, invalid,
            \* the Rust futures, see FutureIntoPy
  fut, tx, py,  \* the Python awaitables, see IntoFuture
  ready,    \* the ready queue of the loop
  ignored,  \* the tests whose name does not contain the filter
  state,    \* where each test is
  joined,   \* how the thread of a blocking test ended: none, ok, err or panic
  at,       \* the next step of each test
  harness,  \* running, ok or panicked
  process   \* running, passed or failed

convVars == <<py_fut, cancel_tx, work, task, woken, rx_waker, poll_rx, result, invalid>>
callVars == <<fut, tx, py>>
testVars == <<ignored, state, joined, at, harness, process>>
vars == <<convVars, callVars, ready, testVars>>

----------------------------------------------------------------------------
(* The tests: how the attribute makes a task of the function, what it      *)
(* awaits, and what it does.  A step "ok", "panic" or "cancelled" awaits   *)
(* the Rust future of into_future and asserts that this is its end.        *)

sleep == [fn |-> "async", awaitable |-> "python", body |-> "sleep", steps |-> <<"sleep">>]

test_future_into_py ==
  [sleep EXCEPT !.awaitable = "coroutine", !.steps = <<"into_future", "ok">>]
test_async_sleep == [sleep EXCEPT !.steps = <<"sleep", "into_future", "ok">>]
test_blocking_sleep == [sleep EXCEPT !.fn = "blocking"]
test_into_future == [sleep EXCEPT !.steps = <<"into_future", "ok">>]
test_other_awaitables == [sleep EXCEPT !.steps = <<"into_future", "ok">>]
test_local_future_into_py ==
  [fn |-> "blocking", awaitable |-> "rust", body |-> "sleep",
   steps |-> <<"local_future_into_py", "into_future", "ok">>]
test_panic ==
  [fn |-> "async", awaitable |-> "rust", body |-> "panic",
   steps |-> <<"future_into_py", "into_future", "panic">>]
test_cancel ==
  [fn |-> "async", awaitable |-> "rust", body |-> "sleep",
   steps |-> <<"future_into_py", "cancel", "into_future", "cancelled", "sleep", "not_completed">>]
test_local_cancel ==
  [test_cancel EXCEPT !.fn = "blocking", !.steps[1] = "local_future_into_py"]

\* Tests of other programs, which fail.
fails == [sleep EXCEPT !.steps = <<"sleep", "err">>]
blocking_fails == [fails EXCEPT !.fn = "blocking"]

Script ==
  [test_future_into_py |-> test_future_into_py, test_async_sleep |-> test_async_sleep,
   test_blocking_sleep |-> test_blocking_sleep, test_into_future |-> test_into_future,
   test_other_awaitables |-> test_other_awaitables,
   test_local_future_into_py |-> test_local_future_into_py, test_panic |-> test_panic,
   test_cancel |-> test_cancel, test_local_cancel |-> test_local_cancel,
   fails |-> fails, blocking_fails |-> blocking_fails]

Test == DOMAIN Script
Sound == Test \ {"fails", "blocking_fails"}

\* Bound: the programs have two of the tests, or more of the mixed ones.
Mixed == {"test_panic", "test_cancel", "test_blocking_sleep", "blocking_fails"}
Suites ==
  {suite \in SUBSET Test : Cardinality(suite) = 2}
    \cup {suite \in SUBSET Mixed : Cardinality(suite) = MaxTests}

Suite == {t \in Test : state[t] # "absent"}

\* Bound: the name that the program is given, if any, excludes at most one test.
parse_args == {S \in SUBSET Suite : Cardinality(S) <= 1}

----------------------------------------------------------------------------
IsConvHandle(h) == h.kind \in {"done_callback", "completor"}
convReady == SelectSeq(ready, IsConvHandle)
callReady == SelectSeq(ready, LAMBDA h : ~IsConvHandle(h))

Conversion == INSTANCE FutureIntoPy
  WITH Conv <- Test, ready <- convReady, loop <- "running",
       LoopMayStop <- FALSE, LoopMayClose <- FALSE, MayAbort <- FALSE

Call == INSTANCE IntoFuture
  WITH Call <- Test, ready <- callReady, loop <- "running",
       LoopMayStop <- FALSE, LoopMayClose <- FALSE,
       MayBeRefused <- FALSE, MayCollect <- FALSE

TypeOK ==
  /\ Conversion!TypeOK /\ Call!TypeOK
  /\ ignored \subseteq Suite
  /\ state \in [Test -> {"absent", "waiting", "running", "passed", "failed", "dropped", "filtered"}]
  /\ joined \in [Test -> {"none", "ok", "err", "panic"}]
  /\ \A t \in Test : at[t] \in 1..Len(Script[t].steps) + 1
  /\ harness \in {"running", "ok", "panicked"}
  /\ process \in {"running", "passed", "failed"}

Init ==
  /\ ready = <<>>
  /\ Conversion!Init /\ Call!Init
  /\ state \in {[t \in Test |-> IF t \in suite THEN "waiting" ELSE "absent"] : suite \in Suites}
  /\ ignored \in parse_args
  /\ joined = [t \in Test |-> "none"]
  /\ at = [t \in Test |-> 1]
  /\ harness = "running" /\ process = "running"

----------------------------------------------------------------------------
(* The harness.                                                            *)

Running == {t \in Test : state[t] = "running"}
Blocking(t) == Script[t].fn = "blocking"

\* for_each_concurrent takes the next test, in the unknown order of the
\* inventory.  A test that the filter excludes has an empty future.
test_harness(t) ==
  /\ harness = "running"
  /\ state[t] = "waiting"
  /\ Cardinality(Running) < Limit
  /\ state' = [state EXCEPT ![t] = IF t \in ignored THEN "filtered" ELSE "running"]
  /\ UNCHANGED <<convVars, callVars, ready, ignored, at, joined, harness, process>>

\* Mutant: the result of a test is not unwrapped.
Unwrap_Ignored(t, r) ==
  /\ state' = [state EXCEPT ![t] = "passed"]
  /\ UNCHANGED <<convVars, callVars, ready, ignored, at, joined, harness, process>>

\* test.task().await.unwrap().  A panic, of unwrap or of the test itself, drops
\* the future of the harness, and with it what the async tests wait for.
Unwrap(t, r) ==
  /\ state[t] = "running"
  /\ \/ /\ r = "ok"
        /\ state' = [state EXCEPT ![t] = "passed"]
        /\ UNCHANGED <<fut, harness>>
     \/ /\ r # "ok"
        /\ harness' = "panicked"
        /\ state' = [u \in Test |-> IF u = t THEN "failed"
                                    ELSE IF u \in Running THEN "dropped" ELSE state[u]]
        /\ fut' = [u \in Test |->
             IF u \in Running \ {t} /\ ~Blocking(u) /\ fut[u] = "waiting"
             THEN "dropped" ELSE fut[u]]
  /\ UNCHANGED <<convVars, tx, py, ready, ignored, at, joined, process>>

\* What the task of a blocking test yields when its thread has ended: the
\* attribute of tokio makes a RustPanic of a panic, that of async-std resumes it.
tokio_test(r) == IF r = "panic" THEN "err" ELSE r
async_std_test(r) == r

\* The function of the test returns Ok or Err, or panics.  A blocking one ends
\* its thread, even if nobody waits for it any more.
Returns(t, r) ==
  \/ ~Blocking(t) /\ Unwrap(t, r)
  \/ /\ Blocking(t)
     /\ \E end \in {tokio_test(r), async_std_test(r)} : joined' = [joined EXCEPT ![t] = end]
     /\ UNCHANGED <<convVars, callVars, ready, ignored, state, at, harness, process>>

Join(t) == joined[t] # "none" /\ Unwrap(t, joined[t])

HarnessReturns ==
  /\ harness = "running"
  /\ Running = {} /\ \A t \in Test : state[t] # "waiting"
  /\ harness' = "ok"
  /\ UNCHANGED <<convVars, callVars, ready, ignored, state, joined, at, process>>

\* run_until_complete returns what the harness ended with (see module
\* RunUntilComplete), and the program exits whatever is still running.
Exit ==
  /\ harness # "running"
  /\ process' = IF harness = "ok" THEN "passed" ELSE "failed"
  /\ UNCHANGED <<convVars, callVars, ready, ignored, state, joined, at, harness>>

----------------------------------------------------------------------------
(* The steps of a test.                                                    *)

AtStep(t, s) ==
  /\ state[t] = "running" \/ (state[t] = "dropped" /\ Blocking(t))
  /\ joined[t] = "none"
  /\ (at[t] <= Len(Script[t].steps) /\ Script[t].steps[at[t]] = s)
     \/ (at[t] > Len(Script[t].steps) /\ s = "return")

NextStep(t) ==
  /\ at' = [at EXCEPT ![t] = @ + 1]
  /\ UNCHANGED <<ignored, state, joined, harness, process>>

FutureIntoPy(t) ==
  /\ AtStep(t, "future_into_py")
  /\ UNCHANGED <<callVars, ready>>
  /\ Conversion!FutureIntoPyWithLocals(t)
  /\ NextStep(t)

\* The same with a future that is not Send.
LocalFutureIntoPy(t) ==
  /\ AtStep(t, "local_future_into_py")
  /\ UNCHANGED <<callVars, ready>>
  /\ Conversion!FutureIntoPyWithLocals(t)
  /\ NextStep(t)

Cancel(t) ==
  /\ AtStep(t, "cancel")
  /\ ready' = Append(ready, Conversion!DoneHandle(t))
  /\ Conversion!PyCancel(t)
  /\ NextStep(t)
  /\ UNCHANGED callVars

IntoFuture(t) ==
  /\ AtStep(t, "into_future")
  /\ ready' = Append(ready, Call!EnsureHandle(t))
  /\ Call!IntoFutureWithLocals(t)
  /\ NextStep(t)
  /\ UNCHANGED convVars

Await(t) ==
  /\ UNCHANGED <<convVars, ready, testVars>>
  /\ Call!AwaitRx(t)

\* What the test finds: an exception of Python is RustPanic if that is what
\* the asyncio.Future was completed with.
Answer(t) ==
  IF fut[t] = "err" /\ Script[t].awaitable # "python" THEN py_fut[t] ELSE fut[t]

\* The inner future sets `completed` right before it is ready.
completed(t) == result[t] = "ok"

Assert(t) == \E s \in {"ok", "panic", "cancelled"} :
  /\ AtStep(t, s) /\ fut[t] \in Call!Result
  /\ \/ Answer(t) = s /\ NextStep(t) /\ UNCHANGED <<convVars, callVars, ready>>
     \/ Answer(t) # s /\ Returns(t, "panic")

AssertNotCompleted(t) ==
  /\ AtStep(t, "not_completed")
  /\ \/ ~completed(t) /\ NextStep(t) /\ UNCHANGED <<convVars, callVars, ready>>
     \/ completed(t) /\ Returns(t, "panic")

TestStep(t) ==
  \/ FutureIntoPy(t) \/ LocalFutureIntoPy(t) \/ Cancel(t) \/ IntoFuture(t) \/ Await(t)
  \/ Assert(t) \/ AssertNotCompleted(t)
  \/ (AtStep(t, "err") /\ Returns(t, "err"))
  \/ (AtStep(t, "return") /\ Returns(t, "ok"))
  \/ Join(t)

----------------------------------------------------------------------------
(* The tasks of the runtime and the loop.                                  *)

\* spawn_local: the tasks of a local conversion belong to the LocalSet on the
\* thread of the test, and go when the test ends.
Driven(t) ==
  Script[t].steps[1] = "local_future_into_py" => joined[t] = "none"

RustStep(t) ==
  /\ Driven(t)
  /\ ready' = IF task[t] = "checked"
              THEN Append(ready, Conversion!CompletorHandle(t, result[t])) ELSE ready
  /\ Conversion!RustStep(t)
  /\ UNCHANGED <<callVars, testVars>>

Panic(t) ==
  /\ Script[t].body = "panic"
  /\ UNCHANGED <<callVars, ready, testVars>>
  /\ Conversion!FutureProgress(t, "panic")

\* The result of a Python task that awaits an asyncio.Future.
Ends(o) == IF o \in {"ok", "cancelled"} THEN o ELSE "err"

RunDoneCallback(t) ==
  /\ ready # <<>> /\ Head(ready) = Conversion!DoneHandle(t)
  /\ ready' = Tail(ready)
  /\ Conversion!RunDoneCallback(t)
  /\ UNCHANGED <<callVars, testVars>>

\* ensure_future of an asyncio.Future is that future: when it is completed its
\* two callbacks are scheduled, in the order in which they were added.
RunCheckedCompletor(t, v) ==
  /\ ready # <<>> /\ Head(ready) = Conversion!CompletorHandle(t, v)
  /\ \/ /\ py_fut[t] = "pending"
        /\ Script[t].awaitable = "rust" /\ py[t] = "running"
        /\ ready' = Tail(ready) \o <<Conversion!DoneHandle(t), Call!CompleterHandle(t)>>
        /\ py' = [py EXCEPT ![t] = Ends(v)]
        /\ Call!TaskFinish(t)
     \/ /\ py_fut[t] = "pending"
        /\ ~(Script[t].awaitable = "rust" /\ py[t] = "running")
        /\ ready' = Append(Tail(ready), Conversion!DoneHandle(t))
        /\ UNCHANGED callVars
     \/ /\ py_fut[t] # "pending"
        /\ ready' = Tail(ready)
        /\ UNCHANGED callVars
  /\ Conversion!RunCheckedCompletor(t, v)
  /\ UNCHANGED testVars

\* A future that is done already schedules the callback that is added to it.
RunEnsureFuture(t) ==
  /\ ready # <<>> /\ Head(ready) = Call!EnsureHandle(t)
  /\ \/ /\ Script[t].awaitable = "rust" /\ py_fut[t] # "pending"
        /\ ready' = Append(Tail(ready), Call!CompleterHandle(t))
        /\ py' = [py EXCEPT ![t] = Ends(py_fut[t])]
     \/ /\ ~(Script[t].awaitable = "rust" /\ py_fut[t] # "pending")
        /\ ready' = Tail(ready)
        /\ py' = [py EXCEPT ![t] = "running"]
  /\ Call!RunEnsureFuture(t)
  /\ UNCHANGED <<convVars, testVars>>

RunTaskCompleter(t) ==
  /\ ready # <<>> /\ Head(ready) = Call!CompleterHandle(t)
  /\ ready' = Tail(ready)
  /\ Call!RunTaskCompleter(t)
  /\ UNCHANGED <<convVars, testVars>>

\* The coroutine sleep_for_1s calls the Rust function sleep and awaits what it
\* returns.
CoroutineCalls(t) ==
  /\ Script[t].awaitable = "coroutine" /\ py[t] = "running"
  /\ UNCHANGED <<callVars, ready, testVars>>
  /\ Conversion!FutureIntoPyWithLocals(t)

CoroutineEnds(t) ==
  /\ Script[t].awaitable = "coroutine"
  /\ py_fut[t] \notin {"none", "pending"}
  /\ ready' = Append(ready, Call!CompleterHandle(t))
  /\ py' = [py EXCEPT ![t] = Ends(py_fut[t])]
  /\ Call!TaskFinish(t)
  /\ UNCHANGED <<convVars, testVars>>

----------------------------------------------------------------------------
(* Time.                                                                   *)

Work ==
  \/ HarnessReturns \/ Exit
  \/ \E t \in Test :
       \/ test_harness(t) \/ TestStep(t) \/ RustStep(t) \/ Panic(t)
       \/ RunDoneCallback(t) \/ RunEnsureFuture(t) \/ RunTaskCompleter(t)
       \/ \E v \in Conversion!Outcome \cup {"unreachable"} : RunCheckedCompletor(t, v)
       \/ CoroutineCalls(t) \/ CoroutineEnds(t)

\* A sleep of the test, of the Rust future or of the Python coroutine is over.
TestSleeps(t) ==
  /\ AtStep(t, "sleep")
  /\ NextStep(t)
  /\ UNCHANGED <<convVars, callVars, ready>>

RustSleeps(t) ==
  /\ Script[t].body = "sleep" /\ Driven(t)
  /\ UNCHANGED <<callVars, ready, testVars>>
  /\ Conversion!FutureProgress(t, "ok")

PythonSleeps(t) ==
  /\ Script[t].awaitable = "python"
  /\ ready' = Append(ready, Call!CompleterHandle(t))
  /\ py' = [py EXCEPT ![t] = "ok"]
  /\ Call!TaskFinish(t)
  /\ UNCHANGED <<convVars, testVars>>

Time == ~ENABLED Work /\ \E t \in Test : TestSleeps(t) \/ RustSleeps(t) \/ PythonSleeps(t)

Next == process = "running" /\ (Work \/ Time)

Spec == Init /\ [][Next]_vars

\* Something that can be done is done: every thread of the program runs.
FairSpec == Spec /\ WF_vars(Next)

----------------------------------------------------------------------------
(* Properties.                                                             *)

\* What comes back to Rust from an asyncio.Future that a Rust future completes
\* is what that Rust future ended with, a panic included, and it is
\* CancelledError exactly if the asyncio.Future was cancelled.
RoundTripFaithful ==
  \A t \in Test : Script[t].awaitable # "python" /\ fut[t] \in Call!Result =>
    IF py_fut[t] = "cancelled" THEN fut[t] = "cancelled"
    ELSE Answer(t) = result[t] /\ fut[t] = Ends(result[t])

\* A program of the tests of pytests always passes; with a test that fails it
\* fails, whatever the tests beside it do, and only then.
Verdict ==
  /\ \A t \in Sound : state[t] # "failed"
  /\ process = "passed" => \A t \in Suite : state[t] \in {"passed", "filtered"}
  /\ process = "failed" => \E t \in Suite \ Sound : state[t] = "failed"
  /\ process = "passed" => Suite \ ignored \subseteq Sound

\* The program ends: no test waits for ever for a future, a task or the loop.
ProgramEnds == <>(process # "running")
=============================================================================
