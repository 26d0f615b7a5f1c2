------------------------ MODULE FutureIntoPyProofs -------------------------
(***************************************************************************)
(* Proofs about FutureIntoPy: the inductive invariant IInv, the safety     *)
(* properties it implies, and that every step of the conversion is a step  *)
(* of the awaitable of module Awaitable, for any set of conversions.       *)
(***************************************************************************)
EXTENDS FutureIntoPy, QueueLemmas

USE DEF cancelled, call_soon_threadsafe

----------------------------------------------------------------------------
(* Handles.                                                                *)

\* A handle is a done callback or a completor, and names its conversion.
LEMMA HandleFacts ==
  ASSUME NEW c \in Conv, NEW d \in Conv, NEW v, NEW w
  PROVE  /\ DoneHandle(c) \in Handle
         /\ v \in Outcome \cup {"unreachable"} => CompletorHandle(c, v) \in Handle
         /\ DoneHandle(c) = DoneHandle(d) <=> c = d
         /\ CompletorHandle(c, v) = CompletorHandle(d, w) <=> c = d /\ v = w
         /\ DoneHandle(c) # CompletorHandle(d, v)
<1>1. DoneHandle(c) \in Handle
  BY DEF Handle
<1>2. v \in Outcome \cup {"unreachable"} => CompletorHandle(c, v) \in Handle
  BY DEF Handle
<1>3. DoneHandle(c) = DoneHandle(d) <=> c = d
  <2>1. DoneHandle(c).conv = c /\ DoneHandle(d).conv = d
    BY DEF DoneHandle
  <2> QED BY <2>1
<1>4. CompletorHandle(c, v) = CompletorHandle(d, w) <=> c = d /\ v = w
  <2>1. /\ CompletorHandle(c, v).conv = c /\ CompletorHandle(c, v).value = v
        /\ CompletorHandle(d, w).conv = d /\ CompletorHandle(d, w).value = w
    BY DEF CompletorHandle
  <2> QED BY <2>1
<1>5. DoneHandle(c) # CompletorHandle(d, v)
  <2>1. DoneHandle(c).kind = "done_callback" /\ CompletorHandle(d, v).kind = "completor"
    BY DEF DoneHandle, CompletorHandle
  <2> QED BY <2>1
<1> QED BY <1>1, <1>2, <1>3, <1>4, <1>5

----------------------------------------------------------------------------
(* The inductive invariant.                                                *)

\* The empty loop with no conversion under way satisfies the invariant.
LEMMA InitIInv == Init => IInv
<1> SUFFICES ASSUME Init PROVE IInv
  OBVIOUS
<1>1. TypeOK
  <2>1. ready \in Seq(Handle)
    BY EmptySeq DEF Init
  <2>2. /\ woken \in [Conv -> BOOLEAN]
        /\ rx_waker \in [Conv -> BOOLEAN]
        /\ poll_rx \in [Conv -> BOOLEAN]
        /\ invalid \in BOOLEAN
    BY DEF Init
  <2> QED BY <2>1, <2>2 DEF Init, TypeOK, TaskState, Outcome
<1>2. \A h : ~Queued(h)
  BY DEF Init, Queued, Range
<1>3. CancelChannel /\ TaskProgress /\ CompletorQueued /\ DoneQueued
  BY <1>2 DEF Init, CancelChannel, TaskProgress, CompletorQueued, DoneQueued, Outcome
<1>4. NoTwin /\ NoInvalidState
  BY DEF Init, NoTwin, NoInvalidState, IsInjective
<1> QED BY <1>1, <1>3, <1>4 DEF IInv

\* The steps of the Rust side and of the loop's owner that leave the ready
\* queue alone preserve the invariant.
LEMMA QuietStepIInv ==
  ASSUME IInv, UNCHANGED <<ready, invalid>>,
         \/ \E c \in Conv :
              \/ FutureIntoPyWithLocals(c) \/ SpawnInner(c)
              \/ \E o \in Outcome : FutureProgress(c, o)
              \/ PollFuture(c) \/ PollCancelRx(c) \/ JoinErr(c)
              \/ RuntimeAbort(c) \/ CheckCancelled(c)
         \/ LoopStop \/ LoopRun
         \/ UNCHANGED vars
  PROVE  IInv'
<1> USE DEF IInv
<1>q. /\ NoTwin' /\ NoInvalidState'
      /\ \A h : Queued(h)' <=> Queued(h)
  BY DEF NoTwin, NoInvalidState, Queued
<1>1. ASSUME NEW c \in Conv, FutureIntoPyWithLocals(c)
      PROVE  IInv'
  <2> USE <1>1 DEF FutureIntoPyWithLocals
  <2>1. TypeOK'
    BY DEF TypeOK, TaskState
  <2>2. CancelChannel' /\ TaskProgress'
    BY DEF TypeOK, CancelChannel, TaskProgress
  <2>3. CompletorQueued'
    BY <1>q DEF TypeOK, CompletorQueued
  <2>4. DoneQueued'
    BY <1>q DEF TypeOK, CancelChannel, DoneQueued
  <2> QED BY <1>q, <2>1, <2>2, <2>3, <2>4
<1>2. ASSUME NEW c \in Conv, SpawnInner(c)
      PROVE  IInv'
  <2> USE <1>2 DEF SpawnInner
  <2>1. TypeOK'
    BY DEF TypeOK, TaskState
  <2>2. CancelChannel' /\ TaskProgress'
    BY DEF TypeOK, CancelChannel, TaskProgress
  <2>3. CompletorQueued' /\ DoneQueued'
    BY <1>q DEF TypeOK, CompletorQueued, DoneQueued
  <2> QED BY <1>q, <2>1, <2>2, <2>3
<1>3. ASSUME NEW c \in Conv, NEW o \in Outcome, FutureProgress(c, o)
      PROVE  IInv'
  <2> USE <1>3 DEF FutureProgress
  <2>1. TypeOK'
    BY DEF TypeOK
  <2>2. CancelChannel' /\ TaskProgress'
    BY DEF CancelChannel, TaskProgress
  <2>3. CompletorQueued' /\ DoneQueued'
    BY <1>q DEF CompletorQueued, DoneQueued
  <2> QED BY <1>q, <2>1, <2>2, <2>3
<1>4. ASSUME NEW c \in Conv, PollFuture(c)
      PROVE  IInv'
  <2> USE <1>4 DEF PollFuture, CatchUnwind
  <2>1. TypeOK'
    BY DEF TypeOK, TaskState, Outcome
  <2>2. CancelChannel' /\ TaskProgress'
    BY DEF TypeOK, CancelChannel, TaskProgress, Outcome
  <2>3. CompletorQueued' /\ DoneQueued'
    BY <1>q DEF TypeOK, CompletorQueued, DoneQueued
  <2> QED BY <1>q, <2>1, <2>2, <2>3
<1>5. ASSUME NEW c \in Conv, PollCancelRx(c)
      PROVE  IInv'
  <2> USE <1>5 DEF PollCancelRx
  <2>1. TypeOK'
    BY DEF TypeOK, TaskState
  <2>2. CancelChannel' /\ TaskProgress'
    BY DEF TypeOK, CancelChannel, TaskProgress
  <2>3. CompletorQueued' /\ DoneQueued'
    BY <1>q DEF TypeOK, CompletorQueued, DoneQueued
  <2> QED BY <1>q, <2>1, <2>2, <2>3
<1>6. ASSUME NEW c \in Conv, JoinErr(c)
      PROVE  IInv'
  <2> USE <1>6 DEF JoinErr, is_panic
  <2>1. TypeOK'
    BY DEF TypeOK, TaskState, Outcome
  <2>2. CancelChannel' /\ TaskProgress'
    BY DEF TypeOK, CancelChannel, TaskProgress, Outcome
  <2>3. CompletorQueued' /\ DoneQueued'
    BY <1>q DEF TypeOK, CompletorQueued, DoneQueued
  <2> QED BY <1>q, <2>1, <2>2, <2>3
<1>7. ASSUME NEW c \in Conv, RuntimeAbort(c)
      PROVE  IInv'
  <2> USE <1>7 DEF RuntimeAbort
  <2>1. TypeOK'
    BY DEF TypeOK, TaskState
  <2>2. CancelChannel' /\ TaskProgress'
    BY DEF TypeOK, CancelChannel, TaskProgress
  <2>3. CompletorQueued' /\ DoneQueued'
    BY <1>q DEF TypeOK, CompletorQueued, DoneQueued
  <2> QED BY <1>q, <2>1, <2>2, <2>3
<1>8. ASSUME NEW c \in Conv, CheckCancelled(c)
      PROVE  IInv'
  <2> USE <1>8 DEF CheckCancelled
  <2>1. TypeOK'
    BY DEF TypeOK, TaskState
  <2>2. CancelChannel' /\ TaskProgress'
    BY DEF TypeOK, CancelChannel, TaskProgress, Outcome
  <2>3. CompletorQueued' /\ DoneQueued'
    BY <1>q DEF TypeOK, CompletorQueued, DoneQueued
  <2> QED BY <1>q, <2>1, <2>2, <2>3
<1>9. ASSUME LoopStop \/ LoopRun \/ UNCHANGED vars
      PROVE  IInv'
  <2> USE <1>9 DEF LoopStop, LoopRun, vars, rustVars
  <2>1. TypeOK'
    BY DEF TypeOK
  <2>2. CancelChannel' /\ TaskProgress'
    BY DEF CancelChannel, TaskProgress
  <2>3. CompletorQueued' /\ DoneQueued'
    BY <1>q DEF CompletorQueued, DoneQueued
  <2> QED BY <1>q, <2>1, <2>2, <2>3
<1> QED BY <1>1, <1>2, <1>3, <1>4, <1>5, <1>6, <1>7, <1>8, <1>9

\* Handing a result over: the completor that is queued carries the outcome of
\* its conversion, and no other completor of that conversion is queued.
LEMMA SetResultIInv ==
  ASSUME IInv, NEW c \in Conv, SetResult(c)
  PROVE  IInv'
<1> USE DEF IInv, SetResult
<1> DEFINE h == CompletorHandle(c, result[c])
<1>1. result[c] \in Outcome /\ h \in Handle /\ ready \in Seq(Handle)
  BY HandleFacts DEF TaskProgress, TypeOK
<1>2. ~Queued(h)
  BY <1>1 DEF CompletorQueued
<1>3. /\ ready' \in Seq(Handle) /\ NoTwin'
      /\ \A g : Queued(g)' => Queued(g) \/ g = h
  <2> HIDE DEF h
  <2>1. CASE loop = "closed"
    BY <1>1, <2>1 DEF NoTwin, Queued, h
  <2>2. CASE loop # "closed"
    BY <1>1, <1>2, <2>2, AppendFacts DEF NoTwin, Queued, h
  <2> QED BY <2>1, <2>2
<1> HIDE DEF h
<1>4. TypeOK' /\ NoInvalidState'
  BY <1>3 DEF TypeOK, TaskState, NoInvalidState
<1>5. CancelChannel' /\ TaskProgress'
  BY DEF TypeOK, CancelChannel, TaskProgress, Outcome
<1>6. CompletorQueued'
  <2> SUFFICES ASSUME NEW d \in Conv
               PROVE  /\ \A v \in Outcome \cup {"unreachable"} :
                           Queued(CompletorHandle(d, v))' =>
                             /\ v = result[d] /\ v \in Outcome
                             /\ task'[d] = "done"
                             /\ py_fut[d] \in {"pending", "cancelled"}
                      /\ py_fut[d] \notin {"none", "pending", "cancelled"} =>
                           /\ task'[d] = "done" /\ py_fut[d] = result[d]
                           /\ result[d] \in Outcome \ {"refused"}
    BY DEF CompletorQueued
  <2>1. task'[d] = IF d = c THEN "done" ELSE task[d]
    BY DEF TypeOK
  <2>2. task[c] = "checked" /\ py_fut[c] \in {"pending", "cancelled"}
    BY DEF CompletorQueued, CancelChannel
  <2>3. ASSUME NEW v \in Outcome \cup {"unreachable"}, Queued(CompletorHandle(d, v))'
        PROVE  /\ v = result[d] /\ v \in Outcome
               /\ task'[d] = "done"
               /\ py_fut[d] \in {"pending", "cancelled"}
    <3>1. CASE Queued(CompletorHandle(d, v))
      BY <2>1, <3>1 DEF CompletorQueued
    <3>2. CASE CompletorHandle(d, v) = h
      BY <1>1, <2>1, <2>2, <3>2, HandleFacts DEF h
    <3> QED BY <1>3, <2>3, <3>1, <3>2
  <2> QED BY <2>1, <2>3 DEF CompletorQueued
<1>7. DoneQueued'
  <2>1. \A d \in Conv : Queued(DoneHandle(d))' => Queued(DoneHandle(d))
    BY <1>1, <1>3, HandleFacts DEF h
  <2> QED BY <2>1 DEF DoneQueued
<1> QED BY <1>3, <1>4, <1>5, <1>6, <1>7

\* The done callback: its sender is still there, and ends with it.
LEMMA RunDoneCallbackIInv ==
  ASSUME IInv, NEW c \in Conv, RunDoneCallback(c)
  PROVE  IInv'
<1> USE DEF IInv, RunDoneCallback
<1>1. /\ ready' \in Seq(Handle) /\ NoTwin'
      /\ Queued(DoneHandle(c))
      /\ \A g : Queued(g)' <=> Queued(g) /\ g # DoneHandle(c)
  BY TailFacts DEF TypeOK, NoTwin, Queued
<1>2. /\ cancel_tx[c] = "live" /\ py_fut[c] # "pending"
      /\ cancel_tx' \in [Conv -> {"none", "live", "sent", "dropped"}]
      /\ cancel_tx'[c] \in {"sent", "dropped"}
      /\ cancel_tx'[c] = "sent" => py_fut[c] = "cancelled"
      /\ \A d \in Conv \ {c} : cancel_tx'[d] = cancel_tx[d]
  BY <1>1 DEF DoneQueued, EndCancelTx, TypeOK
<1>3. TypeOK' /\ NoInvalidState'
  BY <1>1, <1>2 DEF TypeOK, EndCancelTx, NoInvalidState
<1>4. CancelChannel' /\ TaskProgress'
  BY <1>2 DEF CancelChannel, TaskProgress
<1>5. CompletorQueued'
  BY <1>1 DEF CompletorQueued
<1>6. DoneQueued'
  <2> SUFFICES ASSUME NEW d \in Conv
               PROVE  /\ Queued(DoneHandle(d))' => cancel_tx'[d] = "live" /\ py_fut[d] # "pending"
                      /\ py_fut[d] = "pending" => cancel_tx'[d] = "live"
    BY DEF DoneQueued
  <2> QED BY <1>1, <1>2 DEF DoneQueued
<1> QED BY <1>1, <1>3, <1>4, <1>5, <1>6

\* The completor: it finds the awaitable pending or cancelled, and completing
\* it schedules the done callback for the first time.
LEMMA RunCheckedCompletorIInv ==
  ASSUME IInv, NEW c \in Conv, NEW v \in Outcome \cup {"unreachable"},
         RunCheckedCompletor(c, v)
  PROVE  IInv'
<1> USE DEF IInv, RunCheckedCompletor
<1>1. /\ Tail(ready) \in Seq(Handle) /\ IsInjective(Tail(ready))
      /\ Queued(CompletorHandle(c, v))
      /\ Range(Tail(ready)) = Range(ready) \ {CompletorHandle(c, v)}
  BY TailFacts DEF TypeOK, NoTwin, Queued
<1>2. /\ v = result[c] /\ v \in Outcome /\ task[c] = "done"
      /\ py_fut[c] \in {"pending", "cancelled"}
  BY <1>1 DEF CompletorQueued
<1>3. CASE py_fut[c] = "cancelled" \/ v = "refused"
  <2>1. /\ ready' = Tail(ready)
        /\ UNCHANGED <<py_fut, cancel_tx, work, task, woken, rx_waker, poll_rx, result, loop, invalid>>
    BY <1>2, <1>3 DEF rustVars
  <2>2. TypeOK' /\ NoTwin' /\ NoInvalidState'
    BY <1>1, <2>1 DEF TypeOK, NoTwin, NoInvalidState
  <2>3. \A g : Queued(g)' => Queued(g)
    BY <1>1, <2>1 DEF Queued
  <2>4. CancelChannel' /\ TaskProgress'
    BY <2>1 DEF CancelChannel, TaskProgress
  <2>5. CompletorQueued' /\ DoneQueued'
    BY <2>1, <2>3 DEF CompletorQueued, DoneQueued
  <2> QED BY <2>2, <2>4, <2>5
<1>4. CASE py_fut[c] = "pending" /\ v # "refused"
  <2>1. /\ ready' = Append(Tail(ready), DoneHandle(c))
        /\ py_fut' = [py_fut EXCEPT ![c] = v]
        /\ UNCHANGED <<cancel_tx, work, task, woken, rx_waker, poll_rx, result, loop, invalid>>
    BY <1>4 DEF rustVars
  <2>2. DoneHandle(c) \in Handle /\ DoneHandle(c) \notin Range(Tail(ready))
    BY <1>1, <1>4, HandleFacts DEF DoneQueued, Queued
  <2>3. /\ ready' \in Seq(Handle) /\ NoTwin'
        /\ \A g : Queued(g)' <=> g = DoneHandle(c) \/ (Queued(g) /\ g # CompletorHandle(c, v))
    <3> DEFINE q == Tail(ready)
               h == DoneHandle(c)
    <3>1. q \in Seq(Handle) /\ IsInjective(q) /\ h \in Handle /\ h \notin Range(q)
      BY <1>1, <2>2
    <3>2. ready' = Append(q, h)
      BY <2>1
    <3> HIDE DEF q, h
    <3>3. /\ Append(q, h) \in Seq(Handle) /\ IsInjective(Append(q, h))
          /\ Range(Append(q, h)) = Range(q) \cup {h}
      BY ONLY <3>1, AppendFacts
    <3> QED BY ONLY <1>1, <3>2, <3>3 DEF NoTwin, Queued, q, h
  <2>4. TypeOK' /\ NoInvalidState'
    BY <1>2, <2>1, <2>3 DEF TypeOK, NoInvalidState
  <2>5. CancelChannel' /\ TaskProgress'
    BY <1>2, <1>4, <2>1 DEF TypeOK, CancelChannel, TaskProgress, Outcome
  <2>6. CompletorQueued'
    <3> SUFFICES ASSUME NEW d \in Conv
                 PROVE  /\ \A w \in Outcome \cup {"unreachable"} :
                             Queued(CompletorHandle(d, w))' =>
                               /\ w = result[d] /\ w \in Outcome
                               /\ task[d] = "done"
                               /\ py_fut'[d] \in {"pending", "cancelled"}
                        /\ py_fut'[d] \notin {"none", "pending", "cancelled"} =>
                             /\ task[d] = "done" /\ py_fut'[d] = result[d]
                             /\ result[d] \in Outcome \ {"refused"}
      BY <2>1 DEF CompletorQueued
    <3>1. CASE d = c
      <4>1. \A w \in Outcome \cup {"unreachable"} : ~Queued(CompletorHandle(c, w))'
        BY <1>2, <2>3, HandleFacts DEF CompletorQueued
      <4> QED BY <1>2, <2>1, <3>1, <4>1 DEF TypeOK
    <3>2. CASE d # c
      <4>1. \A w : Queued(CompletorHandle(d, w))' => Queued(CompletorHandle(d, w))
        BY <2>3, HandleFacts
      <4> QED BY <2>1, <3>2, <4>1 DEF TypeOK, CompletorQueued
    <3> QED BY <3>1, <3>2
  <2>7. DoneQueued'
    <3> SUFFICES ASSUME NEW d \in Conv
                 PROVE  /\ Queued(DoneHandle(d))' => cancel_tx[d] = "live" /\ py_fut'[d] # "pending"
                        /\ py_fut'[d] = "pending" => cancel_tx[d] = "live"
      BY <2>1 DEF DoneQueued
    <3>1. CASE d = c
      BY <1>2, <1>4, <2>1, <3>1 DEF TypeOK, DoneQueued, Outcome
    <3>2. CASE d # c
      <4>1. Queued(DoneHandle(d))' => Queued(DoneHandle(d))
        BY <2>3, <3>2, HandleFacts
      <4> QED BY <2>1, <3>2, <4>1 DEF TypeOK, DoneQueued
    <3> QED BY <3>1, <3>2
  <2> QED BY <2>3, <2>4, <2>5, <2>6, <2>7
<1> QED BY <1>2, <1>3, <1>4

\* Cancelling from Python: the done callback is scheduled for the first time,
\* or, on a closed loop, released with its sender.
LEMMA PyCancelIInv ==
  ASSUME IInv, NEW c \in Conv, PyCancel(c)
  PROVE  IInv'
<1> USE DEF IInv, PyCancel
<1>1. /\ py_fut[c] = "pending" /\ cancel_tx[c] = "live" /\ ~Queued(DoneHandle(c))
      /\ py_fut' = [py_fut EXCEPT ![c] = "cancelled"]
      /\ DoneHandle(c) \in Handle
  BY HandleFacts DEF DoneQueued
<1>2. /\ ready' \in Seq(Handle) /\ NoTwin'
      /\ \A g : Queued(g)' => Queued(g) \/ (loop # "closed" /\ g = DoneHandle(c))
  <2>1. ready \in Seq(Handle) /\ IsInjective(ready)
    BY DEF TypeOK, NoTwin
  <2>2. CASE loop = "closed"
    BY <2>1, <2>2 DEF NoTwin, Queued
  <2>3. CASE loop # "closed"
    <3>1. ready' = Append(ready, DoneHandle(c)) /\ DoneHandle(c) \notin Range(ready)
      BY <1>1, <2>3 DEF Queued
    <3>2. /\ ready' \in Seq(Handle) /\ IsInjective(ready')
          /\ Range(ready') = Range(ready) \cup {DoneHandle(c)}
      BY ONLY <1>1, <2>1, <3>1, AppendFacts
    <3> QED BY <2>3, <3>2 DEF NoTwin, Queued
  <2> QED BY <2>2, <2>3
<1>3. /\ cancel_tx' \in [Conv -> {"none", "live", "sent", "dropped"}]
      /\ cancel_tx'[c] = IF loop = "closed" THEN "dropped" ELSE "live"
      /\ \A d \in Conv \ {c} : cancel_tx'[d] = cancel_tx[d]
      /\ woken' \in [Conv -> BOOLEAN]
  BY <1>1 DEF TypeOK, EndCancelTx
<1>4. TypeOK' /\ NoInvalidState'
  BY <1>1, <1>2, <1>3 DEF TypeOK, NoInvalidState
<1>5. CancelChannel' /\ TaskProgress'
  BY <1>1, <1>3 DEF TypeOK, CancelChannel, TaskProgress
<1>6. CompletorQueued'
  <2>1. \A d \in Conv : \A v : Queued(CompletorHandle(d, v))' => Queued(CompletorHandle(d, v))
    BY <1>2, HandleFacts
  <2> QED BY <1>1, <2>1 DEF TypeOK, CompletorQueued
<1>7. DoneQueued'
  <2> SUFFICES ASSUME NEW d \in Conv
               PROVE  /\ Queued(DoneHandle(d))' => cancel_tx'[d] = "live" /\ py_fut'[d] # "pending"
                      /\ py_fut'[d] = "pending" => cancel_tx'[d] = "live"
    BY DEF DoneQueued
  <2>1. CASE d = c
    <3>1. py_fut'[d] = "cancelled"
      BY <1>1, <2>1 DEF TypeOK
    <3>2. Queued(DoneHandle(d))' => loop # "closed"
      BY ONLY <1>1, <1>2, <2>1
    <3> QED BY ONLY <1>3, <2>1, <3>1, <3>2
  <2>2. CASE d # c
    <3>1. DoneHandle(d) # DoneHandle(c)
      BY <2>2, HandleFacts
    <3>2. Queued(DoneHandle(d))' => Queued(DoneHandle(d))
      BY ONLY <1>2, <3>1
    <3>3. py_fut'[d] = py_fut[d] /\ cancel_tx'[d] = cancel_tx[d]
      BY <1>1, <1>3, <2>2 DEF TypeOK
    <3> QED BY <3>2, <3>3 DEF DoneQueued
  <2> QED BY <2>1, <2>2
<1> QED BY <1>2, <1>4, <1>5, <1>6, <1>7

\* Closing the loop: the callbacks it drops still held their senders.
LEMMA LoopCloseIInv ==
  ASSUME IInv, LoopClose
  PROVE  IInv'
<1> USE DEF IInv, LoopClose
<1>1. /\ ready' \in Seq(Handle) /\ NoTwin'
      /\ \A g : ~Queued(g)'
  BY EmptySeq DEF NoTwin, IsInjective, Queued, Range
<1>2. /\ cancel_tx' \in [Conv -> {"none", "live", "sent", "dropped"}]
      /\ \A d \in Conv : cancel_tx'[d] = IF Queued(DoneHandle(d)) THEN "dropped" ELSE cancel_tx[d]
      /\ woken' \in [Conv -> BOOLEAN]
  BY DEF TypeOK, EndCancelTx
<1>3. TypeOK' /\ NoInvalidState'
  BY <1>1, <1>2 DEF TypeOK, NoInvalidState
<1>4. CancelChannel' /\ TaskProgress'
  BY <1>2 DEF CancelChannel, TaskProgress, DoneQueued
<1>5. CompletorQueued' /\ DoneQueued'
  BY <1>1, <1>2 DEF CompletorQueued, DoneQueued
<1> QED BY <1>1, <1>3, <1>4, <1>5

\* Every step of the conversions, of the loop and of Python code preserves the
\* inductive invariant.
LEMMA NextIInv == IInv /\ [Next]_vars => IInv'
<1> SUFFICES ASSUME IInv, [Next]_vars PROVE IInv'
  OBVIOUS
<1>1. CASE \E c \in Conv :
             \/ FutureIntoPyWithLocals(c) \/ SpawnInner(c)
             \/ \E o \in Outcome : FutureProgress(c, o)
             \/ PollFuture(c) \/ PollCancelRx(c) \/ JoinErr(c)
             \/ RuntimeAbort(c) \/ CheckCancelled(c)
  <2>1. UNCHANGED <<ready, invalid>>
    BY <1>1 DEF FutureIntoPyWithLocals, SpawnInner, FutureProgress, PollFuture,
                PollCancelRx, JoinErr, RuntimeAbort, CheckCancelled
  <2> QED BY <1>1, <2>1, QuietStepIInv
<1>2. CASE LoopStop \/ LoopRun \/ UNCHANGED vars
  <2>1. UNCHANGED <<ready, invalid>>
    BY <1>2 DEF LoopStop, LoopRun, vars
  <2> QED BY <1>2, <2>1, QuietStepIInv
<1>3. CASE \E c \in Conv : SetResult(c)
  BY <1>3, SetResultIInv
<1>4. CASE \E c \in Conv : PyCancel(c)
  BY <1>4, PyCancelIInv
<1>5. CASE RunHandle
  BY <1>5, RunDoneCallbackIInv, RunCheckedCompletorIInv DEF RunHandle
<1>6. CASE LoopClose
  BY <1>6, LoopCloseIInv
<1> QED BY <1>1, <1>2, <1>3, <1>4, <1>5, <1>6 DEF Next, RustStep

\* The inductive invariant holds of the conversion at all times.
THEOREM Inductive == Spec => []IInv
<1> QED BY InitIInv, NextIInv, PTL DEF Spec

\* Every state of the conversion has the types the model declares.
THEOREM TypeCorrect == Spec => []TypeOK
<1>1. IInv => TypeOK
  BY DEF IInv
<1> QED BY <1>1, Inductive, PTL

\* The sentinel that Cancellable returns is never handed to Python.
THEOREM SentinelNeverUsed == Spec => []UnreachableUnused
<1>1. IInv => UnreachableUnused
  BY DEF IInv, UnreachableUnused, CompletorQueued, Outcome
<1> QED BY <1>1, Inductive, PTL

\* No handle of the loop ever completes an awaitable that is already done.
THEOREM NeverInvalidState == Spec => []NoInvalidState
<1>1. IInv => NoInvalidState
  BY DEF IInv
<1> QED BY <1>1, Inductive, PTL

----------------------------------------------------------------------------
(* The refinement of Awaitable.                                            *)

\* Steps that hand over, stop, run or drop what is already decided do not
\* show in the awaitable.
LEMMA Stutters ==
  ASSUME UNCHANGED py_fut,
         \A d \in Conv : job'[d] = job[d]
  PROVE  [Promise!Next]_(Promise!vars)
<1>1. job' = job
  BY DEF job
<1> QED BY <1>1 DEF Promise!vars

\* A step that changes the state of one job updates job at one place.
LEMMA JobUpdate ==
  ASSUME NEW c \in Conv, NEW v,
         \A d \in Conv : job'[d] = IF d = c THEN v ELSE job[d]
  PROVE  job' = [job EXCEPT ![c] = v]
BY DEF job

\* Every step of the conversion is a step of the awaitable or a stutter.
LEMMA StepImplements ==
  ASSUME IInv, IInv', [Next]_vars
  PROVE  [Promise!Next]_(Promise!vars)
<1> USE DEF IInv
<1>1. ASSUME NEW c \in Conv, FutureIntoPyWithLocals(c)
      PROVE  Promise!Start(c)
  <2>1. job[c] = "none"
    BY <1>1 DEF FutureIntoPyWithLocals, job
  <2>2. \A d \in Conv : job'[d] = IF d = c THEN "running" ELSE job[d]
    BY <1>1 DEF FutureIntoPyWithLocals, TypeOK, TaskProgress, job
  <2>3. job' = [job EXCEPT ![c] = "running"]
    BY <2>2, JobUpdate
  <2> QED BY <1>1, <2>1, <2>3 DEF FutureIntoPyWithLocals, Promise!Start
<1>2. ASSUME NEW c \in Conv, PollFuture(c)
      PROVE  Promise!Finish(c) \/ (UNCHANGED py_fut /\ \A d \in Conv : job'[d] = job[d])
  <2>1. job[c] = "running" /\ UNCHANGED py_fut
    BY <1>2 DEF PollFuture, CatchUnwind, TypeOK, TaskProgress, job
  <2>2. CASE work[c] = "pending"
    BY <1>2, <2>2 DEF PollFuture, CatchUnwind, TypeOK, TaskProgress, job
  <2>3. CASE work[c] # "pending"
    <3>1. work[c] \in Outcome
      BY <2>3 DEF TypeOK
    <3>2. \/ /\ work[c] \in {"ok", "err", "refused"}
             /\ task' = [task EXCEPT ![c] = "finished"]
             /\ result' = [result EXCEPT ![c] = work[c]]
          \/ /\ work[c] = "panic"
             /\ task' = [task EXCEPT ![c] = "panicked"]
             /\ result' = result
      BY <1>2, <2>3 DEF PollFuture, CatchUnwind
    <3>3. \A d \in Conv : job'[d] = IF d = c THEN work[c] ELSE job[d]
      BY <1>2, <3>2 DEF PollFuture, CatchUnwind, TypeOK, TaskProgress, job
    <3>4. job' = [job EXCEPT ![c] = work[c]]
      BY <3>3, JobUpdate
    <3> QED BY <2>1, <3>1, <3>4 DEF Promise!Finish, Promise!Outcome, Outcome
  <2> QED BY <2>2, <2>3
<1>3. ASSUME NEW c \in Conv, PollCancelRx(c)
      PROVE  Promise!Stop(c) \/ (UNCHANGED py_fut /\ \A d \in Conv : job'[d] = job[d])
  <2>1. job[c] = "running" /\ UNCHANGED py_fut
    BY <1>3 DEF PollCancelRx, TypeOK, TaskProgress, job
  <2>2. CASE task'[c] = "idle"
    BY <1>3, <2>2 DEF PollCancelRx, TypeOK, TaskProgress, job
  <2>3. CASE task'[c] # "idle"
    <3>1. /\ cancel_tx[c] = "sent"
          /\ task' = [task EXCEPT ![c] = "finished"]
          /\ result' = [result EXCEPT ![c] = "unreachable"]
      BY <1>3, <2>3 DEF PollCancelRx, TypeOK
    <3>2. job' = [job EXCEPT ![c] = "dropped"]
      BY <1>3, <3>1 DEF PollCancelRx, TypeOK, job
    <3>3. py_fut[c] = "cancelled"
      BY <3>1 DEF CancelChannel
    <3> QED BY <2>1, <3>2, <3>3 DEF Promise!Stop
  <2> QED BY <2>2, <2>3
<1>4. ASSUME NEW c \in Conv, RuntimeAbort(c)
      PROVE  Promise!Stop(c)
  <2>1. job[c] = "running" /\ UNCHANGED py_fut /\ MayAbort
    BY <1>4 DEF RuntimeAbort, TypeOK, TaskProgress, job
  <2>2. job' = [job EXCEPT ![c] = "dropped"]
    BY <1>4 DEF RuntimeAbort, TypeOK, job
  <2> QED BY <2>1, <2>2 DEF Promise!Stop
<1>5. ASSUME NEW c \in Conv, NEW v \in Outcome \cup {"unreachable"}, RunCheckedCompletor(c, v)
      PROVE  Promise!Deliver(c) \/ (UNCHANGED py_fut /\ \A d \in Conv : job'[d] = job[d])
  <2>1. job' = job /\ Queued(CompletorHandle(c, v))
    BY <1>5, TailFacts DEF RunCheckedCompletor, rustVars, job, TypeOK, NoTwin, Queued
  <2>2. v = result[c] /\ v \in Outcome /\ task[c] = "done"
    BY <2>1 DEF CompletorQueued
  <2>3. job[c] = v
    BY <2>2 DEF job, Outcome
  <2>4. CASE py_fut[c] = "pending"
    BY <1>5, <2>1, <2>2, <2>3, <2>4
       DEF RunCheckedCompletor, Promise!Deliver, Promise!Outcome, Outcome
  <2>5. CASE py_fut[c] # "pending"
    BY <1>5, <2>1, <2>5 DEF RunCheckedCompletor, NoInvalidState
  <2> QED BY <2>4, <2>5
<1>6. ASSUME NEW c \in Conv, PyCancel(c)
      PROVE  Promise!Cancel(c)
  BY <1>6 DEF PyCancel, Promise!Cancel, job
<1>7. ASSUME NEW c \in Conv,
             \/ SpawnInner(c) \/ \E o \in Outcome : FutureProgress(c, o)
             \/ JoinErr(c) \/ CheckCancelled(c) \/ SetResult(c)
      PROVE  UNCHANGED py_fut /\ \A d \in Conv : job'[d] = job[d]
  <2>1. CASE SpawnInner(c)
    BY <2>1 DEF SpawnInner, TypeOK, job
  <2>2. CASE \E o \in Outcome : FutureProgress(c, o)
    BY <2>2 DEF FutureProgress, job
  <2>3. CASE JoinErr(c)
    BY <2>3 DEF JoinErr, is_panic, TypeOK, TaskProgress, job
  <2>4. CASE CheckCancelled(c)
    BY <2>4 DEF CheckCancelled, TypeOK, TaskProgress, job, Outcome
  <2>5. CASE SetResult(c)
    BY <2>5 DEF SetResult, TypeOK, TaskProgress, job, Outcome
  <2> QED BY <1>7, <2>1, <2>2, <2>3, <2>4, <2>5
<1>8. ASSUME \/ \E c \in Conv : RunDoneCallback(c)
             \/ LoopStop \/ LoopRun \/ LoopClose \/ UNCHANGED vars
      PROVE  UNCHANGED py_fut /\ \A d \in Conv : job'[d] = job[d]
  BY <1>8 DEF RunDoneCallback, LoopStop, LoopRun, LoopClose, vars, rustVars, job
<1>9. ASSUME NEW c \in Conv,
             \/ Promise!Start(c) \/ Promise!Finish(c) \/ Promise!Stop(c)
             \/ Promise!Deliver(c) \/ Promise!Cancel(c)
      PROVE  [Promise!Next]_(Promise!vars)
  BY <1>9 DEF Promise!Next
<1> QED
  BY <1>1, <1>2, <1>3, <1>4, <1>5, <1>6, <1>7, <1>8, <1>9, Stutters
     DEF Next, RustStep, RunHandle

\* The conversion implements the awaitable, for any number of conversions: an
\* awaitable ends with what its own Rust future yielded, once, and only its
\* cancellation stops a Rust future.
THEOREM Refinement == Spec => ImplementsAwaitable
<1>1. Init => Promise!Init
  BY DEF Init, Promise!Init, job
<1>2. IInv /\ IInv' /\ [Next]_vars => [Promise!Next]_(Promise!vars)
  BY StepImplements
<1> QED BY <1>1, <1>2, Inductive, PTL DEF Spec, ImplementsAwaitable, Promise!Spec

----------------------------------------------------------------------------
(* What somebody waits for is under way.                                   *)

\* As long as the future is not woken its sender can still wake it, or is gone.
WakerKnown == \A c \in Conv :
  /\ task[c] = "none" => poll_rx[c]
  /\ FutureAlive(c) /\ ~poll_rx[c] => cancel_tx[c] = "dropped"
  /\ task[c] = "idle" /\ poll_rx[c] => woken[c] \/ rx_waker[c]
  /\ task[c] = "polled" /\ work[c] # "pending" => woken[c]

\* A handle leaves the ready queue only when it is run, or with the loop.
LEMMA HandleLeaves ==
  ASSUME IInv, [Next]_vars, NEW h, Queued(h), ~Queued(h)', NEW c \in Conv
  PROVE  /\ h = DoneHandle(c) => RunDoneCallback(c) \/ LoopClose
         /\ \A v \in Outcome \cup {"unreachable"} :
              h = CompletorHandle(c, v) => RunCheckedCompletor(c, v) \/ LoopClose
<1>1. ready \in Seq(Handle) /\ IsInjective(ready)
  BY DEF IInv, TypeOK, NoTwin
<1>2. ready' # ready
  BY DEF Queued
<1>3. ASSUME NEW d \in Conv
      PROVE  ~SetResult(d) /\ ~PyCancel(d)
  <2> SUFFICES ASSUME SetResult(d) \/ PyCancel(d) PROVE FALSE
    OBVIOUS
  <2>1. PICK g \in Handle : ready' = Append(ready, g)
    <3>1. result[d] \in Outcome \/ ~SetResult(d)
      BY DEF IInv, TaskProgress, SetResult
    <3>2. DoneHandle(d) \in Handle /\ (SetResult(d) => CompletorHandle(d, result[d]) \in Handle)
      BY <3>1, HandleFacts
    <3> QED BY <1>2, <3>2 DEF SetResult, PyCancel
  <2>2. Range(ready') = Range(ready) \cup {g}
    BY <1>1, <2>1, AppendFacts
  <2> QED BY <2>2 DEF Queued
<1>4. ASSUME NEW d \in Conv, RunDoneCallback(d)
      PROVE  h = DoneHandle(d)
  BY <1>1, <1>4, TailFacts DEF RunDoneCallback, Queued
<1>5. ASSUME NEW d \in Conv, NEW v \in Outcome \cup {"unreachable"}, RunCheckedCompletor(d, v)
      PROVE  h = CompletorHandle(d, v)
  <2>1. /\ Tail(ready) \in Seq(Handle) /\ ready # <<>> /\ Head(ready) = CompletorHandle(d, v)
        /\ Range(Tail(ready)) = Range(ready) \ {CompletorHandle(d, v)}
    BY <1>1, <1>5, TailFacts DEF RunCheckedCompletor
  <2>2. Range(Tail(ready)) \subseteq Range(ready')
    <3>1. CASE ready' = Tail(ready)
      BY <3>1
    <3>2. CASE ready' = Append(Tail(ready), DoneHandle(d))
      <4> DEFINE q == Tail(ready)
      <4>1. DoneHandle(d) \in Handle /\ q \in Seq(Handle) /\ ready' = Append(q, DoneHandle(d))
        BY <2>1, <3>2, HandleFacts
      <4> HIDE DEF q
      <4>2. Range(ready') = Range(q) \cup {DoneHandle(d)}
        BY ONLY <4>1, AppendFacts
      <4> QED BY <4>2 DEF q
    <3> QED BY <1>5, <3>1, <3>2 DEF RunCheckedCompletor
  <2> QED BY <2>1, <2>2 DEF Queued
<1>6. \/ \E d \in Conv : RunDoneCallback(d)
      \/ \E d \in Conv, v \in Outcome \cup {"unreachable"} : RunCheckedCompletor(d, v)
      \/ LoopClose
  BY <1>2, <1>3 DEF Next, RustStep, RunHandle, vars, FutureIntoPyWithLocals, SpawnInner,
     FutureProgress, PollFuture, PollCancelRx, JoinErr, RuntimeAbort, CheckCancelled,
     LoopStop, LoopRun
<1>7. ASSUME NEW d \in Conv, RunDoneCallback(d)
      PROVE  /\ h = DoneHandle(c) => RunDoneCallback(c)
             /\ \A v : h # CompletorHandle(c, v)
  BY <1>4, <1>7, HandleFacts
<1>8. ASSUME NEW d \in Conv, NEW w \in Outcome \cup {"unreachable"}, RunCheckedCompletor(d, w)
      PROVE  /\ h # DoneHandle(c)
             /\ \A v \in Outcome \cup {"unreachable"} :
                  h = CompletorHandle(c, v) => RunCheckedCompletor(c, v)
  BY <1>5, <1>8, HandleFacts
<1> QED BY <1>6, <1>7, <1>8

\* A cancellation stays queued until the loop tells it or is closed.
LEMMA StepCancelOnItsWay ==
  ASSUME IInv, CancelOnItsWay, [Next]_vars
  PROVE  CancelOnItsWay'
<1> SUFFICES ASSUME NEW c \in Conv, py_fut'[c] = "cancelled"
             PROVE  \/ Queued(DoneHandle(c))' \/ cancel_tx'[c] = "sent"
                    \/ cancel_tx'[c] = "dropped" /\ loop' = "closed"
  BY DEF CancelOnItsWay
<1> USE DEF IInv
<1>1. loop = "closed" => loop' = "closed"
  BY DEF Next, RustStep, RunHandle, vars, FutureIntoPyWithLocals, SpawnInner, FutureProgress,
     PollFuture, PollCancelRx, JoinErr, RuntimeAbort, CheckCancelled, SetResult, RunDoneCallback,
     RunCheckedCompletor, PyCancel, LoopStop, LoopRun, LoopClose
<1>2. CASE \E d \in Conv : RunDoneCallback(d)
  <2>1. PICK d \in Conv : RunDoneCallback(d)
    BY <1>2
  <2>2. py_fut[c] = "cancelled"
    BY <2>1 DEF RunDoneCallback
  <2>3. CASE d = c
    BY <2>1, <2>2, <2>3 DEF RunDoneCallback, EndCancelTx
  <2>4. CASE d # c
    <3>1. cancel_tx'[c] = cancel_tx[c]
      BY <2>1, <2>4 DEF RunDoneCallback, EndCancelTx
    <3>2. Queued(DoneHandle(c)) => Queued(DoneHandle(c))'
      <4>1. ~RunDoneCallback(c) /\ ~LoopClose
        BY <2>1, <2>4, HandleFacts DEF RunDoneCallback, LoopClose
      <4> QED BY <4>1, HandleLeaves
    <3> QED BY <1>1, <2>2, <3>1, <3>2 DEF CancelOnItsWay
  <2> QED BY <2>3, <2>4
<1>3. CASE LoopClose
  <2>1. cancel_tx'[c] = IF Queued(DoneHandle(c)) THEN "dropped" ELSE cancel_tx[c]
    BY <1>3 DEF LoopClose, EndCancelTx
  <2>2. loop = "stopped" /\ loop' = "closed" /\ py_fut[c] = "cancelled"
    BY <1>3 DEF LoopClose
  <2> QED BY <2>1, <2>2 DEF CancelOnItsWay
<1>4. CASE PyCancel(c)
  <2>1. CASE loop = "closed"
    BY <1>4, <2>1 DEF PyCancel, EndCancelTx
  <2>2. CASE loop # "closed"
    <3>1. ready' = Append(ready, DoneHandle(c)) /\ DoneHandle(c) \in Handle /\ ready \in Seq(Handle)
      BY <1>4, <2>2, HandleFacts DEF PyCancel, TypeOK
    <3> QED BY <3>1, AppendFacts DEF Queued
  <2> QED BY <2>1, <2>2
<1>5. CASE ~(\E d \in Conv : RunDoneCallback(d)) /\ ~LoopClose /\ ~PyCancel(c)
  <2>1. Queued(DoneHandle(c)) => Queued(DoneHandle(c))'
    BY <1>5, HandleLeaves
  <2>2. py_fut[c] = "cancelled" /\ cancel_tx'[c] = cancel_tx[c]
    <3>1. CASE \E d \in Conv : PyCancel(d)
      <4>1. PICK d \in Conv : PyCancel(d) /\ d # c
        BY <1>5, <3>1
      <4> QED BY <4>1 DEF PyCancel, EndCancelTx, TypeOK
    <3>2. CASE \E d \in Conv : FutureIntoPyWithLocals(d)
      <4>1. PICK d \in Conv : FutureIntoPyWithLocals(d)
        BY <3>2
      <4>2. d # c
        BY <4>1 DEF FutureIntoPyWithLocals, TypeOK
      <4> QED BY <4>1, <4>2 DEF FutureIntoPyWithLocals, TypeOK
    <3>3. CASE \E d \in Conv, v \in Outcome \cup {"unreachable"} : RunCheckedCompletor(d, v)
      <4>1. PICK d \in Conv, v \in Outcome \cup {"unreachable"} : RunCheckedCompletor(d, v)
        BY <3>3
      <4>2. py_fut' = py_fut \/ py_fut' = [py_fut EXCEPT ![d] = v]
        BY <4>1 DEF RunCheckedCompletor
      <4>3. py_fut'[c] = py_fut[c]
        BY <4>2 DEF TypeOK, Outcome
      <4> QED BY <4>1, <4>3 DEF RunCheckedCompletor
    <3>4. CASE UNCHANGED <<py_fut, cancel_tx>>
      BY <3>4
    <3> QED
      BY <1>5, <3>1, <3>2, <3>3, <3>4 DEF Next, RustStep, RunHandle, vars, SpawnInner,
         FutureProgress, PollFuture, PollCancelRx, JoinErr, RuntimeAbort, CheckCancelled,
         SetResult, LoopStop, LoopRun
  <2> QED BY <1>1, <2>1, <2>2 DEF CancelOnItsWay
<1> QED BY <1>2, <1>3, <1>4, <1>5

\* Only the steps of its own tasks change where a conversion is, and none does
\* once they are done.
LEMMA OwnTask ==
  ASSUME TypeOK, [Next]_vars, NEW c \in Conv
  PROVE  /\ task[c] = "done" => task'[c] = "done" /\ result'[c] = result[c]
         /\ task[c] # "done" /\ task'[c] = "done" =>
              \/ SetResult(c) \/ (JoinErr(c) /\ task[c] = "aborted")
              \/ (CheckCancelled(c) /\ cancelled(c))
<1>1. /\ task \in [Conv -> TaskState]
      /\ result \in [Conv -> Outcome \cup {"none", "unreachable", "aborted"}]
  BY DEF TypeOK
<1>2. CASE UNCHANGED <<task, result>>
  BY <1>2
<1>3. ASSUME NEW d \in Conv, FutureIntoPyWithLocals(d) \/ SpawnInner(d) \/ PollFuture(d)
      PROVE  /\ task[d] \in {"none", "spawned", "idle"} /\ task'[d] # "done"
             /\ \A e \in Conv \ {d} : task'[e] = task[e] /\ result'[e] = result[e]
  BY <1>1, <1>3 DEF FutureIntoPyWithLocals, SpawnInner, PollFuture, CatchUnwind
<1>4. ASSUME NEW d \in Conv, PollCancelRx(d) \/ RuntimeAbort(d)
      PROVE  /\ task[d] \in {"polled", "idle"} /\ task'[d] # "done"
             /\ \A e \in Conv \ {d} : task'[e] = task[e] /\ result'[e] = result[e]
  BY <1>1, <1>4 DEF PollCancelRx, RuntimeAbort
<1>5. ASSUME NEW d \in Conv, JoinErr(d) \/ CheckCancelled(d) \/ SetResult(d)
      PROVE  /\ task[d] \in {"panicked", "aborted", "finished", "checked"}
             /\ task'[d] = "done" =>
                  \/ SetResult(d) \/ (JoinErr(d) /\ task[d] = "aborted")
                  \/ (CheckCancelled(d) /\ cancelled(d))
             /\ \A e \in Conv \ {d} : task'[e] = task[e] /\ result'[e] = result[e]
  BY <1>1, <1>5 DEF JoinErr, is_panic, CheckCancelled, SetResult
<1>6. \/ UNCHANGED <<task, result>>
      \/ \E d \in Conv :
           \/ FutureIntoPyWithLocals(d) \/ SpawnInner(d) \/ PollFuture(d)
           \/ PollCancelRx(d) \/ RuntimeAbort(d)
           \/ JoinErr(d) \/ CheckCancelled(d) \/ SetResult(d)
  BY DEF Next, RustStep, RunHandle, vars, rustVars, FutureProgress, RunDoneCallback,
     RunCheckedCompletor, PyCancel, LoopStop, LoopRun, LoopClose
<1> QED BY <1>2, <1>3, <1>4, <1>5, <1>6

\* The outcome of a task that has ended is queued before Python can wait for it,
\* and leaves the queue for the awaitable unless Python refuses it.
LEMMA StepOutcomeOnItsWay ==
  ASSUME IInv, OutcomeOnItsWay, [Next]_vars
  PROVE  OutcomeOnItsWay'
<1> SUFFICES ASSUME NEW c \in Conv, task'[c] = "done", py_fut'[c] = "pending"
             PROVE  \/ Queued(CompletorHandle(c, result[c]))' \/ loop' = "closed"
                    \/ result'[c] \in {"aborted", "refused"}
  BY DEF OutcomeOnItsWay
<1> USE DEF IInv
<1>1. CASE task[c] = "done"
  <2>1. result'[c] = result[c]
    BY <1>1, OwnTask
  <2>2. loop = "closed" => loop' = "closed"
    BY DEF Next, RustStep, RunHandle, vars, FutureIntoPyWithLocals, SpawnInner, FutureProgress,
       PollFuture, PollCancelRx, JoinErr, RuntimeAbort, CheckCancelled, SetResult,
       RunDoneCallback, RunCheckedCompletor, PyCancel, LoopStop, LoopRun, LoopClose
  <2>3. LoopClose => loop' = "closed"
    BY DEF LoopClose
  <2>4. ASSUME NEW v \in Outcome \cup {"unreachable"}, RunCheckedCompletor(c, v)
        PROVE  result[c] = "refused"
    <3>1. Queued(CompletorHandle(c, v))
      BY <2>4, TailFacts DEF RunCheckedCompletor, Queued, TypeOK, NoTwin
    <3>2. v = result[c] /\ v \in Outcome
      BY <3>1 DEF CompletorQueued
    <3> QED BY <2>4, <3>2 DEF RunCheckedCompletor, TypeOK, Outcome
  <2>5. py_fut[c] = "pending" \/ result[c] = "refused"
    <3>1. CASE \E d \in Conv : PyCancel(d)
      BY <3>1 DEF PyCancel, TypeOK
    <3>2. CASE \E d \in Conv : FutureIntoPyWithLocals(d)
      BY <1>1, <3>2 DEF FutureIntoPyWithLocals, TypeOK
    <3>3. CASE \E d \in Conv, v \in Outcome \cup {"unreachable"} : RunCheckedCompletor(d, v)
      <4>1. PICK d \in Conv, v \in Outcome \cup {"unreachable"} : RunCheckedCompletor(d, v)
        BY <3>3
      <4>2. py_fut' = py_fut \/ py_fut' = [py_fut EXCEPT ![d] = v]
        BY <4>1 DEF RunCheckedCompletor
      <4>3. d # c \/ result[c] = "refused"
        BY <2>4, <4>1
      <4> QED BY <4>2, <4>3 DEF TypeOK
    <3>4. CASE UNCHANGED py_fut
      BY <3>4
    <3> QED
      BY <3>1, <3>2, <3>3, <3>4 DEF Next, RustStep, RunHandle, vars, SpawnInner,
         FutureProgress, PollFuture, PollCancelRx, JoinErr, RuntimeAbort, CheckCancelled,
         SetResult, RunDoneCallback, LoopStop, LoopRun, LoopClose
  <2>6. CASE Queued(CompletorHandle(c, result[c]))
    <3>1. result[c] \in Outcome \cup {"unreachable"} \/ result[c] = "aborted"
      BY <1>1 DEF TaskProgress, TypeOK
    <3>2. CompletorHandle(c, result'[c]) = CompletorHandle(c, result[c])
      BY <2>1
    <3>3. Queued(CompletorHandle(c, result[c]))' <=> CompletorHandle(c, result'[c]) \in Range(ready')
      BY DEF Queued
    <3> DEFINE h == CompletorHandle(c, result[c])
    <3>4. \A g : Queued(g)' <=> g \in Range(ready')
      BY DEF Queued
    <3>5. ASSUME NEW g, g = h, g \notin Range(ready'),
                 result[c] \notin {"aborted", "refused"}
          PROVE  loop' = "closed"
      BY <2>3, <2>4, <2>6, <3>1, <3>4, <3>5, HandleLeaves
    <3> QED BY <2>1, <3>2, <3>3, <3>5
  <2> QED BY <1>1, <2>1, <2>2, <2>5, <2>6 DEF OutcomeOnItsWay
<1>2. CASE task[c] # "done"
  <2>1. \/ SetResult(c) \/ (JoinErr(c) /\ task[c] = "aborted")
        \/ (CheckCancelled(c) /\ py_fut[c] = "cancelled")
    BY <1>2, OwnTask
  <2>2. CASE SetResult(c)
    <3> DEFINE h == CompletorHandle(c, result[c])
    <3>1. result' = result /\ h \in Handle /\ ready \in Seq(Handle) /\ loop' = loop
      BY <2>2, HandleFacts DEF SetResult, TaskProgress, TypeOK
    <3>2. loop # "closed" => ready' = Append(ready, h)
      BY <2>2 DEF SetResult
    <3> HIDE DEF h
    <3>3. ASSUME loop # "closed"
          PROVE  h \in Range(ready')
      <4>1. Range(Append(ready, h)) = Range(ready) \cup {h}
        BY ONLY <3>1, AppendFacts
      <4> QED BY <3>2, <3>3, <4>1
    <3> QED BY <3>1, <3>3 DEF h, Queued
  <2>3. CASE JoinErr(c) /\ task[c] = "aborted"
    BY <2>3 DEF JoinErr, is_panic, TaskProgress
  <2>4. CASE CheckCancelled(c) /\ py_fut[c] = "cancelled"
    BY <2>4 DEF CheckCancelled
  <2> QED BY <2>1, <2>2, <2>3, <2>4
<1> QED BY <1>1, <1>2

\* Whatever wakes an idle task finds its waker or its next poll.
LEMMA StepNoLostWakeup ==
  ASSUME IInv, WakerKnown, NoLostWakeup, [Next]_vars
  PROVE  WakerKnown' /\ NoLostWakeup'
<1> DEFINE Known(c) ==
             /\ task[c] = "none" => poll_rx[c]
             /\ FutureAlive(c) /\ ~poll_rx[c] => cancel_tx[c] = "dropped"
             /\ task[c] = "idle" /\ poll_rx[c] => woken[c] \/ rx_waker[c]
             /\ task[c] = "polled" /\ work[c] # "pending" => woken[c]
             /\ task[c] = "idle" /\ (work[c] # "pending" \/ cancel_tx[c] = "sent") => woken[c]
<1> SUFFICES ASSUME NEW c \in Conv
             PROVE  Known(c)'
  BY DEF WakerKnown, NoLostWakeup
<1>1. Known(c)
  BY DEF WakerKnown, NoLostWakeup
<1>2. /\ cancel_tx \in [Conv -> {"none", "live", "sent", "dropped"}]
      /\ work \in [Conv -> Outcome \cup {"pending"}]
      /\ task \in [Conv -> TaskState]
      /\ woken \in [Conv -> BOOLEAN]
      /\ rx_waker \in [Conv -> BOOLEAN]
      /\ poll_rx \in [Conv -> BOOLEAN]
  BY DEF IInv, TypeOK
<1>3. CASE UNCHANGED <<cancel_tx, work, task, woken, rx_waker, poll_rx>>
  BY <1>1, <1>3 DEF FutureAlive
<1>4. ASSUME NEW d \in Conv, FutureIntoPyWithLocals(d)
      PROVE  Known(c)'
  BY <1>1, <1>2, <1>4 DEF FutureIntoPyWithLocals, FutureAlive
<1>5. ASSUME NEW d \in Conv, SpawnInner(d)
      PROVE  Known(c)'
  BY <1>1, <1>2, <1>5 DEF SpawnInner, FutureAlive
<1>6. ASSUME NEW d \in Conv, NEW o \in Outcome, FutureProgress(d, o)
      PROVE  Known(c)'
  BY <1>1, <1>2, <1>6 DEF FutureProgress, FutureAlive
<1>7. ASSUME NEW d \in Conv, PollFuture(d)
      PROVE  Known(c)'
  BY <1>1, <1>2, <1>7 DEF PollFuture, CatchUnwind, FutureAlive
<1>8. ASSUME NEW d \in Conv, PollCancelRx(d)
      PROVE  Known(c)'
  BY <1>1, <1>2, <1>8 DEF PollCancelRx, FutureAlive
<1>9. ASSUME NEW d \in Conv, RuntimeAbort(d)
      PROVE  Known(c)'
  BY <1>1, <1>2, <1>9 DEF RuntimeAbort, FutureAlive
<1>10. ASSUME NEW d \in Conv, JoinErr(d) \/ CheckCancelled(d) \/ SetResult(d)
       PROVE  Known(c)'
  BY <1>1, <1>2, <1>10 DEF JoinErr, is_panic, CheckCancelled, SetResult, FutureAlive
<1>11. ASSUME NEW C \in SUBSET Conv, NEW how \in {"sent", "dropped"}, EndCancelTx(C, how),
              c \in C => cancel_tx[c] = "live" \/ how = "dropped",
              UNCHANGED <<work, task, rx_waker, poll_rx>>
       PROVE  Known(c)'
  <2>1. c \notin C => cancel_tx'[c] = cancel_tx[c]
    BY <1>11 DEF EndCancelTx
  <2>2. c \in C => cancel_tx'[c] = how
    BY <1>11 DEF EndCancelTx
  <2>3. woken'[c] = (woken[c] \/ (c \in C /\ rx_waker[c] /\ FutureAlive(c)))
    BY <1>11 DEF EndCancelTx
  <2>4. FutureAlive(c)' = FutureAlive(c)
    BY <1>11 DEF FutureAlive
  <2>5. task[c] = "idle" => FutureAlive(c)
    BY DEF FutureAlive
  <2> QED BY <1>1, <1>2, <1>11, <2>1, <2>2, <2>3, <2>4, <2>5
<1>12. ASSUME NEW d \in Conv, RunDoneCallback(d)
       PROVE  Known(c)'
  <2>1. Queued(DoneHandle(d))
    BY <1>12, TailFacts DEF RunDoneCallback, Queued, IInv, TypeOK, NoTwin
  <2>2. cancel_tx[d] = "live"
    BY <2>1 DEF IInv, DoneQueued
  <2> QED BY <1>11, <1>12, <2>2 DEF RunDoneCallback
<1>13. ASSUME NEW d \in Conv, PyCancel(d)
       PROVE  Known(c)'
  BY <1>1, <1>3, <1>11, <1>13 DEF PyCancel
<1>14. CASE LoopClose
  BY <1>11, <1>14 DEF LoopClose
<1>15. ASSUME NEW d \in Conv, NEW v \in Outcome \cup {"unreachable"}, RunCheckedCompletor(d, v)
       PROVE  Known(c)'
  BY <1>3, <1>15 DEF RunCheckedCompletor, rustVars
<1>16. CASE LoopStop \/ LoopRun \/ UNCHANGED vars
  BY <1>3, <1>16 DEF LoopStop, LoopRun, rustVars, vars
<1> HIDE DEF Known
<1> QED
  BY <1>4, <1>5, <1>6, <1>7, <1>8, <1>9, <1>10, <1>12, <1>13, <1>14, <1>15, <1>16
     DEF Next, RustStep, RunHandle

\* At the start nobody waits for anything.
LEMMA InitNothingForgotten == Init => WakerKnown /\ NothingForgotten
<1> SUFFICES ASSUME Init, NEW c \in Conv
             PROVE  task[c] = "none" /\ poll_rx[c] /\ py_fut[c] = "none"
  BY DEF WakerKnown, NothingForgotten, NoLostWakeup, CancelOnItsWay, OutcomeOnItsWay, FutureAlive
<1> QED BY DEF Init

\* A result, a cancellation and an outcome that somebody waits for are always on
\* their way, however the polls, the handles and the GIL interleave.
THEOREM AlwaysUnderWay == Spec => []NothingForgotten
<1>1. IInv /\ WakerKnown /\ NothingForgotten /\ [Next]_vars => WakerKnown' /\ NothingForgotten'
  BY StepNoLostWakeup, StepCancelOnItsWay, StepOutcomeOnItsWay DEF NothingForgotten
<1> QED BY <1>1, InitNothingForgotten, Inductive, PTL DEF Spec

=============================================================================
