----------------------- MODULE RunUntilCompleteProofs -----------------------
(***************************************************************************)
(* The safety of run_until_complete and run for any set of conversions.    *)
(* Every step is a step of FutureIntoPy or leaves its variables alone, so  *)
(* what FutureIntoPyProofs proves of the conversions holds here too.       *)
(***************************************************************************)
EXTENDS RunUntilComplete, QueueLemmas

LP == INSTANCE FutureIntoPyProofs
        WITH LoopMayStop <- TRUE, LoopMayClose <- TRUE, MayAbort <- FALSE

\* The loop runs only while the main thread is in it, and a conversion of
\* run_until_complete returns once.
MainThread ==
  /\ pc \in {"python", "close"} => loop = "stopped"
  /\ pc = "closed" <=> loop = "closed"
  /\ cur # "none" <=> pc = "run_until_complete"
  /\ cur # "none" => ret[cur] = "none" /\ task[cur] # "none"
  /\ \A c \in Main : ret[c] # "none" => task[c] # "none"

\* The cell of a future that yielded a value holds it until it is returned.
CellFilled == \A c \in Main : result[c] = "ok" /\ ret[c] = "none" => c \in cell

\* A cancellation was sent to the Rust future, or its callback is queued, or
\* the loop was closed over it.
CancelUnderWay == \A c \in Conv :
  py_fut[c] = "cancelled" =>
    cancel_tx[c] = "sent" \/ Loop!Queued(Loop!DoneHandle(c)) \/ loop = "closed"

\* The conversion was cancelled before the shutdown, whose run of the loop for
\* shutdown_asyncgens still owes its callback until the cancellation is sent;
\* after that run it has been.
Owed(c) == \E i \in 1..Len(ready) : i <= todo /\ ready[i] = Loop!DoneHandle(c)
ToldByShutdown(c) ==
  /\ py_fut[c] = "cancelled"
  /\ pc = "shutdown_asyncgens" /\ loop = "running" => cancel_tx[c] = "sent" \/ Owed(c)
  /\ pc \in {"shutdown_default_executor", "close", "closed"} => cancel_tx[c] = "sent"

IInv ==
  /\ TypeOK
  /\ Loop!IInv
  /\ MainThread
  /\ CellFilled
  /\ NeverUnwrapsNone /\ ReturnsOwnOutcome
  /\ CancelUnderWay

----------------------------------------------------------------------------
(* The conversions.                                                        *)

\* The handles and the ready queue of the loop are those the proofs about the
\* conversions speak of, and so is their invariant.
LEMMA SameState ==
  /\ LP!Outcome = Loop!Outcome /\ LP!Handle = Loop!Handle
  /\ \A c, v : /\ LP!DoneHandle(c) = Loop!DoneHandle(c)
               /\ LP!CompletorHandle(c, v) = Loop!CompletorHandle(c, v)
  /\ \A h : LP!Queued(h) <=> Loop!Queued(h)
  /\ LP!IInv <=> Loop!IInv
<1>1. /\ LP!Outcome = Loop!Outcome /\ LP!TaskState = Loop!TaskState
      /\ \A c : LP!DoneHandle(c) = Loop!DoneHandle(c)
      /\ \A c, v : LP!CompletorHandle(c, v) = Loop!CompletorHandle(c, v)
  BY DEF LP!Outcome, Loop!Outcome, LP!TaskState, Loop!TaskState, LP!DoneHandle,
         Loop!DoneHandle, LP!CompletorHandle, Loop!CompletorHandle
<1>2. LP!Handle = Loop!Handle
  BY <1>1 DEF LP!Handle, Loop!Handle
<1>3. \A h : LP!Queued(h) <=> Loop!Queued(h)
  BY DEF LP!Queued, Loop!Queued, LP!Range, Loop!Range
<1>4. LP!TypeOK <=> Loop!TypeOK
  BY <1>1, <1>2 DEF LP!TypeOK, Loop!TypeOK
<1>5. /\ LP!CancelChannel <=> Loop!CancelChannel
      /\ LP!NoTwin <=> Loop!NoTwin
      /\ LP!NoInvalidState <=> Loop!NoInvalidState
  BY DEF LP!CancelChannel, Loop!CancelChannel, LP!NoTwin, Loop!NoTwin, LP!IsInjective,
         Loop!IsInjective, LP!NoInvalidState, Loop!NoInvalidState
<1>6. LP!TaskProgress <=> Loop!TaskProgress
  BY <1>1 DEF LP!TaskProgress, Loop!TaskProgress
<1>7. LP!CompletorQueued <=> Loop!CompletorQueued
  BY <1>1, <1>3 DEF LP!CompletorQueued, Loop!CompletorQueued
<1>8. LP!DoneQueued <=> Loop!DoneQueued
  BY <1>1, <1>3 DEF LP!DoneQueued, Loop!DoneQueued
<1> QED BY <1>1, <1>2, <1>3, <1>4, <1>5, <1>6, <1>7, <1>8 DEF LP!IInv, Loop!IInv

\* So are the actions.
LEMMA SameNext == Loop!Next => LP!Next
<1>1. ASSUME NEW c \in Conv
      PROVE  /\ Loop!FutureIntoPyWithLocals(c) => LP!FutureIntoPyWithLocals(c)
             /\ \A o \in Loop!Outcome : Loop!FutureProgress(c, o) => LP!FutureProgress(c, o)
             /\ Loop!RustStep(c) => LP!RustStep(c)
             /\ Loop!RuntimeAbort(c) => LP!RuntimeAbort(c)
  <2>1. /\ Loop!FutureIntoPyWithLocals(c) => LP!FutureIntoPyWithLocals(c)
        /\ \A o \in Loop!Outcome : Loop!FutureProgress(c, o) => LP!FutureProgress(c, o)
        /\ Loop!RuntimeAbort(c) => LP!RuntimeAbort(c)
    BY DEF LP!FutureIntoPyWithLocals, Loop!FutureIntoPyWithLocals, LP!FutureProgress,
           Loop!FutureProgress, LP!FutureAlive, Loop!FutureAlive,
           LP!RuntimeAbort, Loop!RuntimeAbort
  <2>2. /\ Loop!SpawnInner(c) => LP!SpawnInner(c)
        /\ Loop!PollFuture(c) => LP!PollFuture(c)
        /\ Loop!JoinErr(c) => LP!JoinErr(c)
        /\ Loop!CheckCancelled(c) => LP!CheckCancelled(c)
    BY DEF LP!SpawnInner, Loop!SpawnInner, LP!PollFuture, Loop!PollFuture, LP!CatchUnwind,
           Loop!CatchUnwind, LP!JoinErr, Loop!JoinErr, LP!is_panic, Loop!is_panic,
           LP!CheckCancelled, Loop!CheckCancelled, LP!cancelled, Loop!cancelled
  <2>3. Loop!PollCancelRx(c) => LP!PollCancelRx(c)
    BY DEF LP!PollCancelRx, Loop!PollCancelRx
  <2>4. Loop!SetResult(c) => LP!SetResult(c)
    BY SameState DEF LP!SetResult, Loop!SetResult, LP!call_soon_threadsafe,
                     Loop!call_soon_threadsafe
  <2> QED BY <2>1, <2>2, <2>3, <2>4 DEF LP!RustStep, Loop!RustStep
<1>2. ASSUME NEW C, NEW how
      PROVE  Loop!EndCancelTx(C, how) => LP!EndCancelTx(C, how)
  BY DEF LP!EndCancelTx, Loop!EndCancelTx, LP!FutureAlive, Loop!FutureAlive
<1>3. ASSUME NEW c \in Conv
      PROVE  /\ Loop!PyCancel(c) => LP!PyCancel(c)
             /\ Loop!RunDoneCallback(c) => LP!RunDoneCallback(c)
             /\ \A v : Loop!RunCheckedCompletor(c, v) => LP!RunCheckedCompletor(c, v)
  <2>1. Loop!PyCancel(c) => LP!PyCancel(c)
    BY <1>2, SameState DEF LP!PyCancel, Loop!PyCancel
  <2>2. Loop!RunDoneCallback(c) => LP!RunDoneCallback(c)
    BY <1>2, SameState DEF LP!RunDoneCallback, Loop!RunDoneCallback, LP!cancelled, Loop!cancelled
  <2>3. \A v : Loop!RunCheckedCompletor(c, v) => LP!RunCheckedCompletor(c, v)
    BY SameState DEF LP!RunCheckedCompletor, Loop!RunCheckedCompletor, LP!cancelled,
                     Loop!cancelled, LP!rustVars, Loop!rustVars
  <2> QED BY <2>1, <2>2, <2>3
<1>4. Loop!RunHandle => LP!RunHandle
  BY <1>3, SameState DEF LP!RunHandle, Loop!RunHandle
<1>5. /\ Loop!LoopStop => LP!LoopStop
      /\ Loop!LoopRun => LP!LoopRun
  BY DEF LP!LoopStop, Loop!LoopStop, LP!LoopRun, Loop!LoopRun, LP!rustVars, Loop!rustVars
<1>6. Loop!LoopClose => LP!LoopClose
  <2>1. {c \in Conv : Loop!Queued(Loop!DoneHandle(c))} = {c \in Conv : LP!Queued(LP!DoneHandle(c))}
    BY SameState
  <2> QED BY <1>2, <2>1 DEF LP!LoopClose, Loop!LoopClose
<1>7. /\ LP!Outcome = Loop!Outcome
  BY SameState
<1> QED BY <1>1, <1>3, <1>4, <1>5, <1>6, <1>7 DEF LP!Next, Loop!Next

\* A step of the conversions, or one that leaves them alone, keeps their
\* invariant.
LEMMA ConversionStep == Loop!IInv /\ [Loop!Next]_convVars => Loop!IInv'
<1> SUFFICES ASSUME Loop!IInv, [Loop!Next]_convVars PROVE Loop!IInv'
  OBVIOUS
<1>1. [LP!Next]_(LP!vars)
  BY SameNext DEF convVars, LP!vars
<1>2. LP!IInv'
  BY <1>1, SameState, LP!NextIInv
<1>3. LP!IInv' => Loop!IInv'
  BY SameState, PTL
<1> QED BY <1>2, <1>3

\* What a future may yield here is an outcome of its conversion.
LEMMA YieldsFacts ==
  ASSUME NEW c \in Conv
  PROVE  Yields(c) \subseteq Loop!Outcome
BY MainAssumption DEF Yields, Loop!Outcome

\* Every step of the main thread and of the rest is a step of the conversions
\* or leaves them alone.
LEMMA StepIsConversion == [Next]_vars => [Loop!Next]_convVars
<1> SUFFICES ASSUME [Next]_vars PROVE [Loop!Next]_convVars
  OBVIOUS
<1> USE DEF Loop!Next
<1>1. ASSUME NEW c \in Main, RunUntilComplete(c) \/ LeaveDone(c) \/ LeaveStopped(c)
      PROVE  Loop!Next
  BY <1>1, MainAssumption DEF RunUntilComplete, LeaveDone, LeaveStopped, Leave
<1>2. CASE Enter \/ LeaveShutdown \/ CloseLoop
  BY <1>2 DEF Enter, LeaveShutdown, CloseLoop
<1>3. CASE Close \/ UNCHANGED vars
  BY <1>3 DEF Close, vars, convVars
<1>4. ASSUME NEW c \in Conv, RustStep(c)
      PROVE  Loop!Next
  BY <1>4 DEF RustStep, Loop!RustStep
<1>5. CASE RunHandle
  BY <1>5 DEF RunHandle
<1>6. CASE Others
  BY <1>6, YieldsFacts DEF Others
<1> QED BY <1>1, <1>2, <1>3, <1>4, <1>5, <1>6 DEF Next

----------------------------------------------------------------------------
(* What one step of the conversions changes.                               *)

\* The ready queue in terms of its positions.
LEMMA ReadyFacts ==
  ASSUME Loop!IInv
  PROVE  /\ ready \in Seq(Loop!Handle) /\ Len(ready) \in Nat
         /\ \A h : Loop!Queued(h) <=> \E i \in 1..Len(ready) : ready[i] = h
<1>1. ready \in Seq(Loop!Handle)
  BY DEF Loop!IInv, Loop!TypeOK
<1>2. Len(ready) \in Nat /\ DOMAIN ready = 1..Len(ready)
  BY <1>1, SequenceFacts
<1> QED BY <1>1, <1>2 DEF Loop!Queued, Loop!Range

\* The same of the next state.
ReadyPositions ==
  /\ ready \in Seq(Loop!Handle) /\ Len(ready) \in Nat
  /\ \A h : Loop!Queued(h) <=> \E i \in 1..Len(ready) : ready[i] = h

LEMMA ReadyNext == Loop!IInv' => ReadyPositions'
<1>1. Loop!IInv => ReadyPositions
  BY ReadyFacts DEF ReadyPositions
<1> QED BY <1>1, PTL

\* Done callbacks of two conversions differ, and no completor is one.
LEMMA DoneHandleFacts ==
  ASSUME NEW c \in Conv, NEW d \in Conv, NEW v
  PROVE  /\ Loop!DoneHandle(c) = Loop!DoneHandle(d) <=> c = d
         /\ Loop!DoneHandle(c) # Loop!CompletorHandle(d, v)
         /\ Loop!DoneHandle(c) \in Loop!Handle
BY LP!HandleFacts, SameState

\* What a step leaves of the ready queue: it appends one handle at most, or the
\* loop takes the head, or it closes and drops everything.
QueueGrows == ready' = ready \/ \E h \in Loop!Handle : ready' = Append(ready, h)
HeadTaken ==
  /\ ready # <<>>
  /\ ready' = Tail(ready) \/ \E h \in Loop!Handle : ready' = Append(Tail(ready), h)

\* Handles that stay in the queue keep their position, or move up by one.
LEMMA Positions ==
  ASSUME Loop!IInv
  PROVE  /\ QueueGrows =>
              \A i \in 1..Len(ready) : i \in 1..Len(ready') /\ ready'[i] = ready[i]
         /\ HeadTaken =>
              \A i \in 1..Len(ready) : i # 1 =>
                i - 1 \in 1..Len(ready') /\ ready'[i - 1] = ready[i]
<1>1. ready \in Seq(Loop!Handle) /\ Len(ready) \in Nat
  BY ReadyFacts
<1>2. ASSUME NEW q \in Seq(Loop!Handle), NEW h \in Loop!Handle
      PROVE  /\ Len(q) \in Nat /\ Len(Append(q, h)) = Len(q) + 1
             /\ \A i \in 1..Len(q) : Append(q, h)[i] = q[i]
  BY AppendProperties, LenProperties
<1>3. QueueGrows =>
        \A i \in 1..Len(ready) : i \in 1..Len(ready') /\ ready'[i] = ready[i]
  BY <1>1, <1>2 DEF QueueGrows
<1>4. ASSUME HeadTaken, NEW i \in 1..Len(ready), i # 1
      PROVE  i - 1 \in 1..Len(ready') /\ ready'[i - 1] = ready[i]
  <2> DEFINE t == Tail(ready)
  <2>1. /\ t \in Seq(Loop!Handle) /\ Len(t) = Len(ready) - 1
        /\ \A j \in 1..(Len(ready) - 1) : t[j] = ready[j + 1]
    BY <1>1, <1>4, HeadTailProperties, EmptySeq DEF HeadTaken
  <2> HIDE DEF t
  <2>2. i - 1 \in 1..Len(t) /\ t[i - 1] = ready[i]
    <3>1. i - 1 \in 1..(Len(ready) - 1) /\ (i - 1) + 1 = i
      BY <1>1, <1>4
    <3> QED BY <2>1, <3>1
  <2>3. ready' = t \/ \E h \in Loop!Handle : ready' = Append(t, h)
    BY <1>4 DEF HeadTaken, t
  <2>4. \A h \in Loop!Handle : /\ Len(t) \in Nat /\ Len(Append(t, h)) = Len(t) + 1
                               /\ Append(t, h)[i - 1] = t[i - 1]
    BY <1>2, <2>1, <2>2
  <2> QED BY <2>2, <2>3, <2>4
<1> QED BY <1>3, <1>4

\* What no step of the conversions takes back.
Keeps == \A d \in Conv :
  /\ task[d] # "none" => task'[d] # "none"
  /\ py_fut[d] \notin {"none", "pending"} => py_fut'[d] = py_fut[d]
  /\ result[d] # "none" => result'[d] = result[d]
  /\ cancel_tx[d] = "sent" => cancel_tx'[d] = "sent"

\* The Rust side appends at most a completor; only the poll that finds the
\* value of the future makes its result one.
LEMMA RustSide ==
  ASSUME Loop!IInv, NEW c \in Conv, Loop!RustStep(c)
  PROVE  /\ Keeps /\ QueueGrows
         /\ UNCHANGED <<py_fut, cancel_tx, loop>>
         /\ \A d \in Conv : result'[d] = "ok" =>
              \/ result[d] = "ok"
              \/ d = c /\ Loop!PollFuture(c) /\ work[c] = "ok"
<1> USE DEF Keeps, QueueGrows
<1>t. /\ task \in [Conv -> Loop!TaskState]
      /\ result \in [Conv -> Loop!Outcome \cup {"none", "unreachable", "aborted"}]
      /\ \A d \in Conv :
           task[d] \in {"none", "spawned", "idle", "polled", "panicked"} => result[d] = "none"
  BY DEF Loop!IInv, Loop!TypeOK, Loop!TaskProgress
<1>1. CASE Loop!PollFuture(c)
  BY <1>t, <1>1 DEF Loop!PollFuture, Loop!CatchUnwind
<1>2. CASE Loop!PollCancelRx(c)
  BY <1>t, <1>2 DEF Loop!PollCancelRx
<1>3. CASE Loop!SpawnInner(c) \/ Loop!JoinErr(c) \/ Loop!CheckCancelled(c)
  BY <1>t, <1>3 DEF Loop!SpawnInner, Loop!JoinErr, Loop!is_panic, Loop!CheckCancelled
<1>4. CASE Loop!SetResult(c)
  <2>1. Loop!CompletorHandle(c, result[c]) \in Loop!Handle
    BY <1>4, LP!HandleFacts, SameState DEF Loop!SetResult, Loop!IInv, Loop!TaskProgress
  <2> QED BY <1>t, <1>4, <2>1 DEF Loop!SetResult, Loop!call_soon_threadsafe
<1> QED BY <1>1, <1>2, <1>3, <1>4 DEF Loop!RustStep

\* Python code and new conversions append at most the callback of a
\* cancellation.
LEMMA PythonSide ==
  ASSUME Loop!IInv, NEW c \in Conv,
         \/ Loop!FutureIntoPyWithLocals(c) \/ Loop!PyCancel(c)
         \/ \E o \in Loop!Outcome : Loop!FutureProgress(c, o)
  PROVE  /\ Keeps /\ QueueGrows
         /\ UNCHANGED <<result, loop>>
         /\ task'[c] # "none"
         /\ \A d \in Conv : py_fut'[d] = "cancelled" =>
              \/ py_fut[d] = "cancelled"
              \/ loop = "closed"
              \/ ready' # <<>> /\ ready'[Len(ready')] = Loop!DoneHandle(d)
<1> USE DEF Keeps, QueueGrows
<1>t. /\ task \in [Conv -> Loop!TaskState]
      /\ py_fut \in [Conv -> Loop!Outcome \cup {"none", "pending", "cancelled", "unreachable"}]
      /\ cancel_tx \in [Conv -> {"none", "live", "sent", "dropped"}]
      /\ task[c] = "none" <=> py_fut[c] = "none"
      /\ cancel_tx[c] = "sent" => py_fut[c] = "cancelled"
      /\ ready \in Seq(Loop!Handle)
  BY DEF Loop!IInv, Loop!TypeOK, Loop!CancelChannel
<1>1. CASE Loop!FutureIntoPyWithLocals(c)
  BY <1>t, <1>1 DEF Loop!FutureIntoPyWithLocals
<1>2. CASE Loop!PyCancel(c)
  <2> DEFINE h == Loop!DoneHandle(c)
  <2>1. h \in Loop!Handle
    BY DoneHandleFacts
  <2>2. /\ UNCHANGED <<task, result, loop>>
        /\ py_fut[c] = "pending" /\ py_fut' = [py_fut EXCEPT ![c] = "cancelled"]
        /\ \A d \in Conv : d # c => cancel_tx'[d] = cancel_tx[d]
        /\ \/ loop # "closed" /\ ready' = Append(ready, h)
           \/ loop = "closed" /\ ready' = ready
    BY <1>2 DEF Loop!PyCancel, Loop!EndCancelTx
  <2>3. Keeps /\ task'[c] # "none"
    BY <1>t, <2>2
  <2> HIDE DEF h
  <2>4. /\ Len(ready) \in Nat /\ Append(ready, h) # <<>>
        /\ Len(Append(ready, h)) = Len(ready) + 1
        /\ Append(ready, h)[Len(ready) + 1] = h
    BY <1>t, <2>1, AppendProperties, LenProperties
  <2>5. \A d \in Conv : py_fut'[d] = "cancelled" => py_fut[d] = "cancelled" \/ d = c
    BY <1>t, <2>2
  <2>6. \/ loop = "closed"
        \/ ready' # <<>> /\ ready'[Len(ready')] = h
    BY <2>2, <2>4
  <2> QED BY <2>1, <2>2, <2>3, <2>5, <2>6 DEF h
<1>3. CASE \E o \in Loop!Outcome : Loop!FutureProgress(c, o)
  BY <1>t, <1>3 DEF Loop!FutureProgress, Loop!FutureAlive
<1> QED BY <1>1, <1>2, <1>3

\* The loop takes the head of its queue; if that is the callback of a
\* cancelled awaitable the cancellation is sent.
LEMMA LoopSide ==
  ASSUME Loop!IInv, Loop!RunHandle
  PROVE  /\ Keeps /\ HeadTaken
         /\ UNCHANGED <<task, result, loop>>
         /\ loop = "running"
         /\ \A d \in Conv : /\ py_fut'[d] = "cancelled" => py_fut[d] = "cancelled"
                            /\ py_fut[d] = "cancelled" /\ ready[1] = Loop!DoneHandle(d) =>
                                 cancel_tx'[d] = "sent"
<1> USE DEF Keeps, HeadTaken
<1>t. /\ py_fut \in [Conv -> Loop!Outcome \cup {"none", "pending", "cancelled", "unreachable"}]
      /\ \A d \in Conv : Loop!Queued(Loop!DoneHandle(d)) => cancel_tx[d] = "live"
      /\ ready \in Seq(Loop!Handle)
      /\ ~invalid
  BY DEF Loop!IInv, Loop!TypeOK, Loop!DoneQueued, Loop!NoInvalidState
<1>h. ready # <<>> => Head(ready) = ready[1] /\ Loop!Queued(ready[1])
  <2>1. ready # <<>> => Len(ready) \in Nat \ {0} /\ Head(ready) = ready[1]
    BY <1>t, HeadTailProperties, EmptySeq
  <2> QED BY <2>1, ReadyFacts
<1>1. ASSUME NEW c \in Conv, Loop!RunDoneCallback(c)
      PROVE  /\ Keeps /\ HeadTaken /\ UNCHANGED <<task, result, loop>> /\ loop = "running"
             /\ \A d \in Conv : /\ py_fut'[d] = "cancelled" => py_fut[d] = "cancelled"
                                /\ py_fut[d] = "cancelled" /\ ready[1] = Loop!DoneHandle(d) =>
                                     cancel_tx'[d] = "sent"
  <2>1. /\ ready # <<>> /\ ready' = Tail(ready) /\ ready[1] = Loop!DoneHandle(c)
        /\ loop = "running" /\ UNCHANGED <<py_fut, task, result, loop>>
        /\ \A d \in Conv : d # c => cancel_tx'[d] = cancel_tx[d]
        /\ cancel_tx'[c] = IF py_fut[c] = "cancelled" THEN "sent" ELSE "dropped"
    BY <1>h, <1>1 DEF Loop!RunDoneCallback, Loop!EndCancelTx, Loop!cancelled
  <2>2. cancel_tx[c] = "live"
    BY <1>t, <1>h, <2>1
  <2>3. \A d \in Conv : ready[1] = Loop!DoneHandle(d) => d = c
    BY <2>1, DoneHandleFacts
  <2> QED BY <2>1, <2>2, <2>3
<1>2. ASSUME NEW c \in Conv, NEW v \in Loop!Outcome \cup {"unreachable"},
             Loop!RunCheckedCompletor(c, v)
      PROVE  /\ Keeps /\ HeadTaken /\ UNCHANGED <<task, result, loop>> /\ loop = "running"
             /\ \A d \in Conv : /\ py_fut'[d] = "cancelled" => py_fut[d] = "cancelled"
                                /\ py_fut[d] = "cancelled" /\ ready[1] = Loop!DoneHandle(d) =>
                                     cancel_tx'[d] = "sent"
  <2>1. /\ ready # <<>> /\ ready[1] = Loop!CompletorHandle(c, v)
        /\ \/ ready' = Tail(ready)
           \/ ready' = Append(Tail(ready), Loop!DoneHandle(c))
        /\ py_fut' = py_fut \/ (py_fut[c] = "pending" /\ py_fut' = [py_fut EXCEPT ![c] = v])
        /\ loop = "running" /\ UNCHANGED <<cancel_tx, task, result, loop>>
    BY <1>h, <1>2 DEF Loop!RunCheckedCompletor, Loop!rustVars
  <2>2. v # "cancelled"
    BY DEF Loop!Outcome
  <2>3. \A d \in Conv : ready[1] # Loop!DoneHandle(d)
    BY <2>1, DoneHandleFacts
  <2>4. Loop!DoneHandle(c) \in Loop!Handle
    BY DoneHandleFacts
  <2> QED BY <1>t, <2>1, <2>2, <2>3, <2>4
<1> QED BY <1>1, <1>2 DEF Loop!RunHandle

\* The main thread enters and leaves the loop, or closes it over callbacks that
\* have not run.
LEMMA OwnerSide ==
  ASSUME Loop!IInv, Loop!LoopStop \/ Loop!LoopRun \/ Loop!LoopClose
  PROVE  Keeps /\ UNCHANGED <<py_fut, task, result>>
<1>1. CASE Loop!LoopStop \/ Loop!LoopRun
  BY <1>1 DEF Keeps, Loop!LoopStop, Loop!LoopRun, Loop!rustVars
<1>2. CASE Loop!LoopClose
  BY <1>2 DEF Keeps, Loop!LoopClose, Loop!EndCancelTx, Loop!IInv, Loop!DoneQueued
<1> QED BY <1>1, <1>2

\* All of this together.
LEMMA StepKeeps ==
  ASSUME Loop!IInv, [Loop!Next]_convVars
  PROVE  Keeps
<1>1. CASE UNCHANGED convVars
  BY <1>1 DEF Keeps, convVars
<1>3. CASE Loop!Next
  <2>1. \A c \in Conv : ~Loop!RuntimeAbort(c)
    BY DEF Loop!RuntimeAbort
  <2> QED BY <1>3, <2>1, RustSide, PythonSide, LoopSide, OwnerSide DEF Loop!Next
<1> QED BY <1>1, <1>3

\* A reported cancellation stays under way until it is sent or the loop closed.
LEMMA CancelStep ==
  ASSUME Loop!IInv, Loop!IInv', CancelUnderWay, [Loop!Next]_convVars
  PROVE  CancelUnderWay'
<1> SUFFICES ASSUME NEW d \in Conv, NEW h, h = Loop!DoneHandle(d),
                    py_fut'[d] = "cancelled", cancel_tx'[d] # "sent", loop' # "closed"
             PROVE  Loop!Queued(h)'
  BY DEF CancelUnderWay
<1>1. /\ \A i : i \in 1..Len(ready') /\ ready'[i] = h => Loop!Queued(h)'
      /\ Len(ready') \in Nat /\ Len(ready) \in Nat
      /\ ready' # <<>> => Len(ready') \in 1..Len(ready')
      /\ Loop!Queued(h) <=> \E i \in 1..Len(ready) : ready[i] = h
  <2>1. /\ ready' \in Seq(Loop!Handle)
        /\ \A g : Loop!Queued(g)' <=> \E i \in 1..Len(ready') : ready'[i] = g
    BY ReadyNext DEF ReadyPositions
  <2>2. ready' # <<>> => Len(ready') \in Nat \ {0}
    BY <2>1, EmptySeq, LenProperties
  <2> QED BY <2>1, <2>2, ReadyFacts, LenProperties
<1>2. py_fut[d] = "cancelled" => cancel_tx[d] = "sent" \/ Loop!Queued(h) \/ loop = "closed"
  BY DEF CancelUnderWay
<1>3. Keeps
  BY StepKeeps
<1>4. CASE /\ QueueGrows /\ loop # "closed"
           /\ py_fut[d] = "cancelled" \/ (ready' # <<>> /\ ready'[Len(ready')] = h)
  BY <1>1, <1>2, <1>3, <1>4, Positions DEF Keeps
<1>5. CASE UNCHANGED convVars
  BY <1>4, <1>5 DEF convVars, QueueGrows
<1>6. ASSUME NEW c \in Conv, Loop!RustStep(c)
      PROVE  Loop!Queued(h)'
  BY <1>4, <1>6, RustSide
<1>7. ASSUME NEW c \in Conv,
             \/ Loop!FutureIntoPyWithLocals(c) \/ Loop!PyCancel(c)
             \/ \E o \in Loop!Outcome : Loop!FutureProgress(c, o)
      PROVE  Loop!Queued(h)'
  BY <1>4, <1>7, PythonSide
<1>8. CASE Loop!RunHandle
  <2>1. /\ HeadTaken /\ loop' = loop /\ py_fut[d] = "cancelled"
        /\ ready[1] # h
    BY <1>8, LoopSide
  <2>2. Loop!Queued(h)
    BY <1>2, <1>3, <2>1 DEF Keeps
  <2>3. PICK i \in 1..Len(ready) : ready[i] = h
    BY <1>1, <2>2
  <2>4. i - 1 \in 1..Len(ready') /\ ready'[i - 1] = h
    BY <2>1, <2>3, Positions
  <2> QED BY <1>1, <2>4
<1>9. CASE Loop!LoopStop \/ Loop!LoopRun
  BY <1>4, <1>9 DEF Loop!LoopStop, Loop!LoopRun, QueueGrows
<1>10. CASE Loop!LoopClose
  BY <1>10 DEF Loop!LoopClose
<1>11. \A c \in Conv : ~Loop!RuntimeAbort(c)
  BY DEF Loop!RuntimeAbort
<1> QED BY <1>5, <1>6, <1>7, <1>8, <1>9, <1>10, <1>11 DEF Loop!Next

----------------------------------------------------------------------------
(* The inductive invariant.                                                *)

\* The loop that has not been entered, with no conversion under way.
LEMMA InitIInv == Init => IInv
<1> SUFFICES ASSUME Init PROVE IInv
  OBVIOUS
<1>1. Loop!IInv
  <2>1. LP!Init
    BY DEF Init, Loop!Init, LP!Init
  <2> QED BY <2>1, LP!InitIInv, SameState
<1>2. TypeOK
  BY <1>1 DEF Init, TypeOK, Loop!IInv
<1>3. MainThread /\ CellFilled /\ NeverUnwrapsNone /\ ReturnsOwnOutcome
  BY MainAssumption DEF Init, Loop!Init, MainThread, CellFilled, NeverUnwrapsNone,
                        ReturnsOwnOutcome
<1>4. CancelUnderWay
  BY DEF Init, Loop!Init, CancelUnderWay
<1> QED BY <1>1, <1>2, <1>3, <1>4 DEF IInv

\* What every step shares: the conversions stay consistent, and what was
\* returned stays what the future yielded.
LEMMA EveryStep ==
  ASSUME IInv, [Next]_vars
  PROVE  /\ Loop!IInv' /\ Loop!TypeOK' /\ CancelUnderWay' /\ Keeps
         /\ UNCHANGED ret => /\ NeverUnwrapsNone' /\ ReturnsOwnOutcome'
                             /\ \A c \in Main : ret'[c] # "none" => task'[c] # "none"
         /\ cur # "none" => task'[cur] # "none"
<1>1. [Loop!Next]_convVars
  BY StepIsConversion
<1>2. Loop!IInv' /\ Keeps
  BY <1>1, ConversionStep, StepKeeps DEF IInv
<1>3. CancelUnderWay'
  BY <1>1, <1>2, CancelStep DEF IInv
<1>4. Loop!TypeOK'
  BY <1>2 DEF Loop!IInv
<1>5. ASSUME UNCHANGED ret
      PROVE  /\ NeverUnwrapsNone' /\ ReturnsOwnOutcome'
             /\ \A c \in Main : ret'[c] # "none" => task'[c] # "none"
  BY <1>2, <1>5, MainAssumption
     DEF IInv, MainThread, NeverUnwrapsNone, ReturnsOwnOutcome, Keeps
<1>6. cur # "none" => task'[cur] # "none"
  BY <1>2, MainAssumption DEF IInv, TypeOK, MainThread, Keeps
<1> QED BY <1>2, <1>3, <1>4, <1>5, <1>6

\* Starting run_until_complete.
LEMMA RunUntilCompleteIInv ==
  ASSUME IInv, NEW c \in Main, RunUntilComplete(c), [Next]_vars
  PROVE  IInv'
<1> USE DEF IInv
<1>1. /\ Loop!IInv' /\ Loop!TypeOK' /\ CancelUnderWay' /\ Keeps
      /\ NeverUnwrapsNone' /\ ReturnsOwnOutcome'
      /\ \A d \in Main : ret'[d] # "none" => task'[d] # "none"
  BY EveryStep DEF RunUntilComplete
<1>2. /\ c \in Conv /\ c # "none" /\ task[c] = "none" /\ task'[c] # "none"
      /\ UNCHANGED <<result, loop, cell, ret, todo>>
      /\ pc = "python" /\ pc' = "run_until_complete" /\ cur' = c
  BY MainAssumption, PythonSide DEF RunUntilComplete, Loop!FutureIntoPyWithLocals
<1>3. TypeOK'
  BY <1>1, <1>2 DEF TypeOK
<1>4. MainThread'
  BY <1>1, <1>2 DEF MainThread
<1>5. CellFilled'
  BY <1>2 DEF CellFilled
<1> QED BY <1>1, <1>3, <1>4, <1>5

\* Leaving the loop: an awaitable that completed without an exception belongs
\* to a future that yielded a value, which is in the cell.
LEMMA LeaveIInv ==
  ASSUME IInv, NEW c \in Main, Leave(c), [Next]_vars
  PROVE  IInv'
<1> USE DEF IInv
<1>1. Loop!IInv' /\ Loop!TypeOK' /\ CancelUnderWay' /\ Keeps
  BY EveryStep
<1>2. /\ c \in Conv /\ c # "none" /\ task[c] # "none" /\ ret[c] = "none"
      /\ pc = "run_until_complete" /\ cur = c
      /\ pc' = "python" /\ cur' = "none" /\ loop' = "stopped"
      /\ UNCHANGED <<py_fut, task, result, todo>>
      /\ ret' = [ret EXCEPT ![c] = Returned(c)]
      /\ cell' = IF Returned(c) = "ok" THEN cell \ {c} ELSE cell
  BY MainAssumption DEF Leave, Loop!LoopStop, Loop!rustVars, MainThread
<1>3. /\ py_fut[c] \in {"pending", "cancelled"} \cup (Loop!Outcome \ {"refused"})
      /\ py_fut[c] \in Loop!Outcome => py_fut[c] = result[c]
  <2>1. py_fut[c] \in Loop!Outcome \cup {"none", "pending", "cancelled", "unreachable"}
    BY <1>2 DEF Loop!IInv, Loop!TypeOK
  <2>2. py_fut[c] # "none"
    BY <1>2 DEF Loop!IInv, Loop!CancelChannel
  <2>3. py_fut[c] \notin {"none", "pending", "cancelled"} =>
          py_fut[c] = result[c] /\ result[c] \in Loop!Outcome \ {"refused"}
    BY <1>2 DEF Loop!IInv, Loop!CompletorQueued
  <2> QED BY <2>1, <2>2, <2>3 DEF Loop!Outcome
<1>4. /\ Returned(c) = IF py_fut[c] = "pending" THEN "stopped" ELSE py_fut[c]
      /\ Returned(c) # "none"
  <2>1. py_fut[c] = "ok" => c \in cell
    BY <1>2, <1>3 DEF CellFilled, Loop!Outcome
  <2> QED BY <1>3, <2>1 DEF Returned, Loop!Outcome
<1>5. Returned(c) \in {"ok", "err", "panic", "cancelled", "stopped"}
  BY <1>3, <1>4 DEF Loop!Outcome
<1>6. \A d \in Main : ret'[d] = IF d = c THEN Returned(c) ELSE ret[d]
  BY <1>2 DEF TypeOK
<1>7. TypeOK'
  BY <1>1, <1>2, <1>5 DEF TypeOK
<1>8. MainThread'
  BY <1>2, <1>6 DEF MainThread
<1>9. CellFilled'
  BY <1>2, <1>4, <1>6 DEF CellFilled
<1>10. NeverUnwrapsNone'
  BY <1>5, <1>6 DEF NeverUnwrapsNone
<1>11. ReturnsOwnOutcome'
  BY <1>2, <1>3, <1>4, <1>6 DEF ReturnsOwnOutcome, Loop!Outcome
<1> QED BY <1>1, <1>7, <1>8, <1>9, <1>10, <1>11

\* The steps with which run enters, shuts down and closes its loop.
LEMMA OwnerStepIInv ==
  ASSUME IInv, Enter \/ Close \/ LeaveShutdown \/ CloseLoop, [Next]_vars
  PROVE  IInv'
<1> USE DEF IInv
<1>1. /\ Loop!IInv' /\ Loop!TypeOK' /\ CancelUnderWay' /\ Keeps
      /\ NeverUnwrapsNone' /\ ReturnsOwnOutcome'
      /\ UNCHANGED <<cur, cell, ret, task, result>>
      /\ \A d \in Main : ret'[d] # "none" => task'[d] # "none"
  <2>1. UNCHANGED <<cur, cell, ret>>
    BY DEF Enter, Close, LeaveShutdown, CloseLoop
  <2>2. UNCHANGED <<task, result>>
    BY OwnerSide DEF Enter, Close, LeaveShutdown, CloseLoop, convVars
  <2> QED BY <2>1, <2>2, EveryStep
<1>2. CellFilled'
  BY <1>1 DEF CellFilled
<1>3. TypeOK' /\ MainThread'
  <2>1. CASE Enter
    <3>1. /\ loop = "stopped" /\ loop' = "running" /\ pc' = pc
          /\ pc \in {"run_until_complete"} \cup Shutdown
          /\ todo' = Len(ready) /\ Len(ready) \in Nat
      BY <2>1, ReadyFacts DEF Enter, Loop!LoopRun
    <3> QED BY <1>1, <3>1 DEF TypeOK, MainThread, Shutdown
  <2>2. CASE Close
    <3>1. pc = "python" /\ pc' = "shutdown_asyncgens" /\ UNCHANGED <<loop, todo>>
      BY <2>2 DEF Close, convVars
    <3> QED BY <1>1, <3>1 DEF TypeOK, MainThread, Shutdown
  <2>3. CASE LeaveShutdown
    <3>1. /\ todo' = todo /\ loop = "running" /\ loop' = "stopped"
          /\ pc \in Shutdown /\ pc' \in {"shutdown_default_executor", "close", "python"}
      BY <2>3 DEF LeaveShutdown, Loop!LoopStop, Shutdown
    <3> QED BY <1>1, <3>1 DEF TypeOK, MainThread, Shutdown
  <2>4. CASE CloseLoop
    <3>1. pc = "close" /\ pc' = "closed" /\ loop' = "closed" /\ todo' = todo
      BY <2>4 DEF CloseLoop, Loop!LoopClose
    <3> QED BY <1>1, <3>1 DEF TypeOK, MainThread
  <2> QED BY <2>1, <2>2, <2>3, <2>4
<1> QED BY <1>1, <1>2, <1>3

\* The steps of the Rust side: the poll that yields a value stores it.
LEMMA RustStepIInv ==
  ASSUME IInv, NEW c \in Conv, RustStep(c), [Next]_vars
  PROVE  IInv'
<1> USE DEF IInv
<1>1. /\ UNCHANGED <<pc, cur, ret, todo>>
      /\ Loop!RustStep(c)
  BY DEF RustStep, Loop!RustStep
<1>2. /\ Loop!IInv' /\ Loop!TypeOK' /\ CancelUnderWay' /\ Keeps
      /\ NeverUnwrapsNone' /\ ReturnsOwnOutcome'
      /\ \A d \in Main : ret'[d] # "none" => task'[d] # "none"
      /\ cur # "none" => task'[cur] # "none"
  BY <1>1, EveryStep
<1>3. /\ QueueGrows /\ UNCHANGED <<cancel_tx, loop>>
      /\ \A d \in Conv : result'[d] = "ok" =>
           \/ result[d] = "ok"
           \/ d = c /\ Loop!PollFuture(c) /\ work[c] = "ok"
  BY <1>1, RustSide
<1>4. /\ cell \subseteq cell' /\ cell' \subseteq cell \cup (Main \cap {c})
      /\ c \in Main /\ Loop!PollFuture(c) /\ work[c] = "ok" => c \in cell'
  <2>1. CASE StoreResult(c)
    BY <2>1 DEF StoreResult
  <2>2. CASE cell' = cell
    <3>1. \A d : Loop!PollFuture(d) => task[d] = "idle"
      BY DEF Loop!PollFuture
    <3>2. /\ Loop!SpawnInner(c) => task[c] = "spawned"
          /\ Loop!PollCancelRx(c) => task[c] = "polled"
          /\ Loop!JoinErr(c) => task[c] \in {"panicked", "aborted"}
          /\ Loop!CheckCancelled(c) => task[c] = "finished"
          /\ Loop!SetResult(c) => task[c] = "checked"
      BY DEF Loop!SpawnInner, Loop!PollCancelRx, Loop!JoinErr, Loop!is_panic,
             Loop!CheckCancelled, Loop!SetResult
    <3>3. Loop!PollFuture(c) => StoreResult(c)
      BY <3>1, <3>2 DEF RustStep
    <3> QED BY <2>1, <2>2, <3>3
  <2> QED BY <2>1, <2>2 DEF RustStep
<1>5. TypeOK'
  BY <1>1, <1>2, <1>4 DEF TypeOK
<1>6. MainThread'
  BY <1>1, <1>2, <1>3 DEF MainThread
<1>7. CellFilled'
  BY <1>1, <1>3, <1>4, MainAssumption DEF CellFilled
<1> QED BY <1>2, <1>5, <1>6, <1>7

\* A handle that the loop runs.
LEMMA RunHandleIInv ==
  ASSUME IInv, RunHandle, [Next]_vars
  PROVE  IInv'
<1> USE DEF IInv
<1>1. /\ UNCHANGED <<pc, cur, cell, ret>> /\ Loop!RunHandle
      /\ todo' = IF todo = 0 THEN 0 ELSE todo - 1
  BY DEF RunHandle
<1>2. /\ Loop!IInv' /\ Loop!TypeOK' /\ CancelUnderWay' /\ Keeps
      /\ NeverUnwrapsNone' /\ ReturnsOwnOutcome'
  BY <1>1, EveryStep
<1>3. UNCHANGED <<task, result, loop>>
  BY <1>1, LoopSide
<1>4. TypeOK'
  <2>1. todo \in Nat
    BY DEF TypeOK
  <2>2. todo' \in Nat
    BY <1>1, <2>1
  <2> QED BY <1>1, <1>2, <2>2 DEF TypeOK
<1>5. MainThread' /\ CellFilled'
  BY <1>1, <1>3 DEF MainThread, CellFilled
<1> QED BY <1>2, <1>4, <1>5

\* Other conversions, the progress of the futures, and cancellation.
LEMMA OthersIInv ==
  ASSUME IInv, Others, [Next]_vars
  PROVE  IInv'
<1> USE DEF IInv
<1>1. UNCHANGED <<pc, cur, cell, ret, todo>>
  BY DEF Others
<1>2. /\ Loop!IInv' /\ Loop!TypeOK' /\ CancelUnderWay' /\ Keeps
      /\ NeverUnwrapsNone' /\ ReturnsOwnOutcome'
      /\ \A d \in Main : ret'[d] # "none" => task'[d] # "none"
      /\ cur # "none" => task'[cur] # "none"
  BY <1>1, EveryStep
<1>3. UNCHANGED <<result, loop>>
  BY PythonSide, YieldsFacts DEF Others
<1>4. TypeOK'
  BY <1>1, <1>2 DEF TypeOK
<1>5. MainThread' /\ CellFilled'
  BY <1>1, <1>2, <1>3 DEF MainThread, CellFilled
<1> QED BY <1>2, <1>4, <1>5

\* Every step preserves the inductive invariant.
LEMMA NextIInv == IInv /\ [Next]_vars => IInv'
<1> SUFFICES ASSUME IInv, [Next]_vars PROVE IInv'
  OBVIOUS
<1>1. CASE UNCHANGED vars
  <2>1. /\ Loop!IInv' /\ Loop!TypeOK' /\ CancelUnderWay'
        /\ NeverUnwrapsNone' /\ ReturnsOwnOutcome'
    BY <1>1, EveryStep DEF vars
  <2>2. TypeOK' /\ MainThread' /\ CellFilled'
    BY <1>1, <2>1 DEF IInv, vars, TypeOK, MainThread, CellFilled
  <2> QED BY <2>1, <2>2 DEF IInv
<1>2. CASE \E c \in Main : RunUntilComplete(c) \/ LeaveDone(c) \/ LeaveStopped(c)
  BY <1>2, RunUntilCompleteIInv, LeaveIInv DEF LeaveDone, LeaveStopped
<1>3. CASE Enter \/ Close \/ LeaveShutdown \/ CloseLoop
  BY <1>3, OwnerStepIInv
<1>4. CASE \E c \in Conv : RustStep(c)
  BY <1>4, RustStepIInv
<1>5. CASE RunHandle
  BY <1>5, RunHandleIInv
<1>6. CASE Others
  BY <1>6, OthersIInv
<1> QED BY <1>1, <1>2, <1>3, <1>4, <1>5, <1>6 DEF Next

----------------------------------------------------------------------------
(* The cancellations before a shutdown.                                    *)

\* A handle the loop owes keeps its place while others are appended, and moves
\* up, with one handle less owed, when the loop runs another one.
LEMMA OwedStep ==
  ASSUME IInv, NEW c \in Conv, Owed(c)
  PROVE  /\ QueueGrows /\ todo' = todo => Owed(c)'
         /\ HeadTaken /\ todo' = (IF todo = 0 THEN 0 ELSE todo - 1) =>
              ready[1] = Loop!DoneHandle(c) \/ Owed(c)'
<1> USE DEF IInv
<1>1. PICK i \in 1..Len(ready) : i <= todo /\ ready[i] = Loop!DoneHandle(c)
  BY DEF Owed
<1>2. QueueGrows /\ todo' = todo => Owed(c)'
  BY <1>1, Positions DEF Owed
<1>3. ASSUME HeadTaken, todo' = IF todo = 0 THEN 0 ELSE todo - 1, i # 1
      PROVE  Owed(c)'
  <2>1. i - 1 \in 1..Len(ready') /\ ready'[i - 1] = Loop!DoneHandle(c)
    BY <1>1, <1>3, Positions
  <2>2. todo \in Nat /\ i \in Nat
    BY DEF TypeOK
  <2>3. i - 1 <= todo'
    BY <1>1, <1>3, <2>2
  <2> QED BY <2>1, <2>3 DEF Owed
<1> QED BY <1>1, <1>2, <1>3

\* A cancellation from before the shutdown stays owed until it is sent: the run
\* for shutdown_asyncgens owes every handle that is ready when it begins, and
\* ends only after them.
LEMMA ToldStep ==
  ASSUME IInv, NEW c \in Conv, ToldByShutdown(c), [Next]_vars
  PROVE  ToldByShutdown(c)'
<1> USE DEF IInv
<1>1. /\ py_fut[c] = "cancelled" /\ py_fut'[c] = "cancelled"
      /\ cancel_tx[c] = "sent" => cancel_tx'[c] = "sent"
  BY EveryStep DEF Keeps, ToldByShutdown
<1>2. CASE UNCHANGED <<pc, loop, todo>> /\ (Owed(c) => Owed(c)' \/ cancel_tx'[c] = "sent")
  BY <1>1, <1>2 DEF ToldByShutdown
<1>3. ASSUME NEW d \in Main, RunUntilComplete(d) \/ LeaveDone(d) \/ LeaveStopped(d)
      PROVE  ToldByShutdown(c)'
  <2>1. pc' \in {"python", "run_until_complete"}
    BY <1>3 DEF RunUntilComplete, LeaveDone, LeaveStopped, Leave
  <2> QED BY <1>1, <2>1 DEF ToldByShutdown
<1>4. CASE Enter
  <2>1. /\ loop = "stopped" /\ pc' = pc /\ pc # "closed"
        /\ todo' = Len(ready) /\ UNCHANGED <<ready, cancel_tx>>
    BY <1>4 DEF Enter, Loop!LoopRun, Loop!rustVars, Shutdown
  <2>2. cancel_tx[c] = "sent" \/ Loop!Queued(Loop!DoneHandle(c))
    BY <1>1, <2>1 DEF CancelUnderWay
  <2>3. /\ Len(ready) \in Nat
        /\ Loop!Queued(Loop!DoneHandle(c)) =>
             \E i \in 1..Len(ready) : ready[i] = Loop!DoneHandle(c)
    BY ReadyFacts
  <2>4. cancel_tx[c] = "sent" \/ Owed(c)'
    BY <2>1, <2>2, <2>3 DEF Owed
  <2> QED BY <1>1, <2>1, <2>4 DEF ToldByShutdown
<1>5. CASE Close
  <2>1. pc' = "shutdown_asyncgens" /\ loop' # "running"
    BY <1>5 DEF Close, convVars, MainThread
  <2> QED BY <1>1, <2>1 DEF ToldByShutdown
<1>6. CASE LeaveShutdown
  <2>1. /\ todo = 0 /\ loop = "running" /\ pc \in Shutdown
        /\ pc' \in {"shutdown_default_executor", "close", "python"}
    BY <1>6 DEF LeaveShutdown, Loop!LoopStop, Shutdown
  <2>2. ~Owed(c)
    BY <2>1, ReadyFacts DEF Owed
  <2>3. cancel_tx[c] = "sent"
    BY <2>1, <2>2 DEF ToldByShutdown, Shutdown
  <2> QED BY <1>1, <2>1, <2>3 DEF ToldByShutdown
<1>7. CASE CloseLoop
  <2>1. pc = "close" /\ pc' = "closed"
    BY <1>7 DEF CloseLoop
  <2> QED BY <1>1, <2>1 DEF ToldByShutdown
<1>8. CASE RunHandle
  <2>1. /\ Loop!RunHandle /\ pc' = pc /\ todo' = IF todo = 0 THEN 0 ELSE todo - 1
    BY <1>8 DEF RunHandle
  <2>2. HeadTaken /\ loop' = loop /\ (ready[1] = Loop!DoneHandle(c) => cancel_tx'[c] = "sent")
    BY <1>1, <2>1, LoopSide
  <2>3. Owed(c) => Owed(c)' \/ cancel_tx'[c] = "sent"
    BY <2>1, <2>2, OwedStep
  <2> QED BY <1>1, <2>1, <2>2, <2>3 DEF ToldByShutdown
<1>9. ASSUME QueueGrows, UNCHANGED <<pc, loop, todo>>
      PROVE  ToldByShutdown(c)'
  BY <1>2, <1>9, OwedStep
<1>10. CASE (\E d \in Conv : RustStep(d)) \/ Others
  <2>1. UNCHANGED <<pc, todo>>
    BY <1>10 DEF RustStep, Others
  <2>2. QueueGrows /\ loop' = loop
    BY <1>10, RustSide, PythonSide, YieldsFacts DEF RustStep, Loop!RustStep, Others
  <2> QED BY <1>9, <2>1, <2>2
<1>11. CASE UNCHANGED vars
  BY <1>9, <1>11 DEF vars, QueueGrows
<1> QED BY <1>3, <1>4, <1>5, <1>6, <1>7, <1>8, <1>10, <1>11 DEF Next

----------------------------------------------------------------------------
(* The theorems.                                                           *)

\* The inductive invariant holds of the main thread and the loop at all times.
THEOREM Inductive == Spec => []IInv
<1> QED BY InitIInv, NextIInv, PTL DEF Spec

\* Every state has the types the model declares.
THEOREM TypeCorrect == Spec => []TypeOK
<1>1. IInv => TypeOK
  BY DEF IInv
<1> QED BY <1>1, Inductive, PTL

\* take().unwrap() in run_until_complete never panics, however many calls and
\* other conversions share the loop, and whenever the program stops it.
THEOREM CellNeverEmpty == Spec => []NeverUnwrapsNone
<1>1. IInv => NeverUnwrapsNone
  BY DEF IInv
<1> QED BY <1>1, Inductive, PTL

\* run_until_complete returns what its own future yielded.
THEOREM OwnOutcome == Spec => []ReturnsOwnOutcome
<1>1. IInv => ReturnsOwnOutcome
  BY DEF IInv
<1> QED BY <1>1, Inductive, PTL

\* run closes its loop only after the Rust future of every conversion that was
\* cancelled before the shutdown, by whomever and of whatever call, was told.
THEOREM ToldBeforeClose == Spec => CancelToldBeforeClose
<1>1. ASSUME NEW c \in Conv
      PROVE  Spec => [](Loop!cancelled(c) /\ pc \in {"python", "run_until_complete"} =>
                          [](loop = "closed" => cancel_tx[c] = "sent"))
  <2>1. Loop!cancelled(c) /\ pc \in {"python", "run_until_complete"} => ToldByShutdown(c)
    BY DEF ToldByShutdown, Loop!cancelled
  <2>2. IInv /\ ToldByShutdown(c) /\ [Next]_vars => ToldByShutdown(c)'
    BY ToldStep
  <2>3. IInv /\ ToldByShutdown(c) => (loop = "closed" => cancel_tx[c] = "sent")
    BY DEF IInv, MainThread, ToldByShutdown
  <2> QED BY <2>1, <2>2, <2>3, Inductive, PTL DEF Spec
<1> QED BY <1>1 DEF CancelToldBeforeClose

\* With the main thread, the conversions are still those of FutureIntoPy, on a
\* loop that may stop and close; so its awaitables keep their promise here too.
THEOREM Composition == Spec => Loop!Spec /\ LP!ImplementsAwaitable
<1>1. Init => Loop!Init
  BY DEF Init
<1>2. [Next]_vars => [Loop!Next]_convVars
  BY StepIsConversion
<1>3. [Loop!Next]_convVars => [Loop!Next]_(Loop!vars)
  BY DEF convVars, Loop!vars
<1>4. [Loop!Next]_(Loop!vars) => [LP!Next]_(LP!vars)
  BY SameNext DEF Loop!vars, LP!vars
<1>5. Loop!Init => LP!Init
  BY DEF Loop!Init, LP!Init
<1>6. Spec => Loop!Spec
  BY <1>1, <1>2, <1>3, PTL DEF Spec, Loop!Spec
<1>7. Loop!Spec => LP!Spec
  BY <1>4, <1>5, PTL DEF Loop!Spec, LP!Spec
<1> QED BY <1>6, <1>7, LP!Refinement
=============================================================================
