--------------------------- MODULE StreamV1Proofs ---------------------------
(***************************************************************************)
(* The safety of the v1 stream for any number of requests and any size of  *)
(* the channel.  Its conversions satisfy the invariant of IntoFutureProofs *)
(* because every step of the stream is a step of theirs or leaves them     *)
(* alone.                                                                  *)
(***************************************************************************)
EXTENDS StreamV1, QueueLemmas

CP == INSTANCE IntoFutureProofs WITH Call <- Request

\* The Rust task makes its requests one after the other: those to come have no
\* conversion yet, those before have an answer, and it awaits the current one.
InTurn ==
  /\ \A k \in Request :
       /\ k > next \/ (k = next /\ pc = "call") => fut[k] = "none"
       /\ k < next \/ (k = next /\ pc \in {"send", "done"})
            => fut[k] \in Conversion!Result \cup {"failed"}
  /\ pc = "await" => fut[next] = "waiting"
  /\ pc # "call" => next <= N

\* An answer is read from a sender that has ended.
AnsweredAtEnd == \A k \in Request :
  fut[k] \in Conversion!Result => tx[k] \in {"sent", "dropped"}

\* StopAsyncIteration is the last answer and is not an item of the stream.
StopIsLast == \A k \in stop : fut[k] = "err" => k = next /\ pc = "done"

IInv ==
  /\ TypeOK
  /\ CP!IInv
  /\ InTurn
  /\ AnsweredAtEnd
  /\ InOrder
  /\ StopIsLast

\* The actions of the stream's conversions are those the proofs are about.
LEMMA SameActions ==
  /\ \A k \in Request :
       /\ Conversion!IntoFutureWithLocals(k) => CP!IntoFutureWithLocals(k)
       /\ Conversion!AwaitRx(k) => CP!AwaitRx(k)
       /\ Conversion!TaskFinish(k) => CP!TaskFinish(k)
       /\ Conversion!TaskCollected(k) => CP!TaskCollected(k)
       /\ Conversion!RunEnsureFuture(k) => CP!RunEnsureFuture(k)
       /\ Conversion!RunTaskCompleter(k) => CP!RunTaskCompleter(k)
  /\ Conversion!LoopStop => CP!LoopStop
  /\ Conversion!LoopRun => CP!LoopRun
  /\ Conversion!LoopClose => CP!LoopClose
  /\ CP!Result = Conversion!Result
<1>1. /\ CP!Result = Conversion!Result
      /\ \A k \in Request : /\ CP!EnsureHandle(k) = Conversion!EnsureHandle(k)
                            /\ CP!CompleterHandle(k) = Conversion!CompleterHandle(k)
  BY DEF CP!Result, Conversion!Result, CP!EnsureHandle, Conversion!EnsureHandle,
         CP!CompleterHandle, Conversion!CompleterHandle
<1>2. ASSUME NEW k \in Request
      PROVE  /\ Conversion!IntoFutureWithLocals(k) => CP!IntoFutureWithLocals(k)
             /\ Conversion!AwaitRx(k) => CP!AwaitRx(k)
             /\ Conversion!TaskFinish(k) => CP!TaskFinish(k)
             /\ Conversion!TaskCollected(k) => CP!TaskCollected(k)
  BY <1>1 DEF CP!IntoFutureWithLocals, Conversion!IntoFutureWithLocals, CP!AwaitRx,
              Conversion!AwaitRx, CP!TaskFinish, Conversion!TaskFinish,
              CP!TaskCollected, Conversion!TaskCollected
<1>3. ASSUME NEW k \in Request
      PROVE  /\ Conversion!RunEnsureFuture(k) => CP!RunEnsureFuture(k)
             /\ Conversion!RunTaskCompleter(k) => CP!RunTaskCompleter(k)
  BY <1>1 DEF CP!RunEnsureFuture, Conversion!RunEnsureFuture,
              CP!RunTaskCompleter, Conversion!RunTaskCompleter
<1>4. /\ Conversion!LoopStop => CP!LoopStop
      /\ Conversion!LoopRun => CP!LoopRun
  BY DEF CP!LoopStop, Conversion!LoopStop, CP!LoopRun, Conversion!LoopRun
<1>5. Conversion!LoopClose => CP!LoopClose
  BY <1>1 DEF CP!LoopClose, Conversion!LoopClose, CP!Queued, Conversion!Queued,
              CP!Range, Conversion!Range
<1> QED BY <1>1, <1>2, <1>3, <1>4, <1>5

\* A step of the stream that takes no other step of its conversions keeps
\* their invariant.
LEMMA ConversionStep ==
  ASSUME CP!IInv,
         \/ \E k \in Request : Conversion!IntoFutureWithLocals(k) \/ Conversion!AwaitRx(k)
         \/ Python \/ UNCHANGED callVars
  PROVE  CP!IInv'
<1>1. CASE UNCHANGED callVars
  <2>1. UNCHANGED CP!vars
    BY <1>1 DEF callVars, CP!vars
  <2> QED BY <2>1, ParametersAssumption, CP!NextIInv
<1>2. CASE \E k \in Request : Conversion!IntoFutureWithLocals(k) \/ Conversion!AwaitRx(k)
  <2>1. CP!Next
    BY <1>2, SameActions DEF CP!Next
  <2> QED BY <2>1, ParametersAssumption, CP!NextIInv
<1>3. CASE Python
  <2>1. CP!Next
    BY <1>3, SameActions DEF Python, Conversion!RunHandle, CP!Next, CP!RunHandle
  <2> QED BY <2>1, ParametersAssumption, CP!NextIInv
<1> QED BY <1>1, <1>2, <1>3

\* Calling __anext__ may raise before there is any conversion.
LEMMA AnextRaises ==
  ASSUME CP!IInv, NEW k \in Request, fut[k] = "none",
         fut' = [fut EXCEPT ![k] = "failed"], UNCHANGED <<tx, py, ready, loop>>
  PROVE  CP!IInv'
<1> USE DEF CP!IInv
<1>1. CP!NoTwin' /\ \A h : CP!Queued(h)' <=> CP!Queued(h)
  BY DEF CP!NoTwin, CP!IsInjective, CP!Queued, CP!Range
<1>2. CP!TypeOK'
  BY DEF CP!TypeOK
<1>3. CP!SenderHeld' /\ CP!SenderEnd' /\ CP!AnswerFaithful'
  BY <1>1 DEF CP!TypeOK, CP!SenderHeld, CP!SenderEnd, CP!AnswerFaithful, CP!Result
<1> QED BY <1>1, <1>2, <1>3

\* What the invariant of the conversions says of a request.
LEMMA CallFacts ==
  ASSUME CP!IInv
  PROVE  \A k \in Request :
           /\ fut[k] \in {"none", "failed"} => tx[k] = "none"
           /\ py[k] = "running" => tx[k] = "task_completer"
           /\ fut[k] \in {"ok", "err"} => py[k] = fut[k]
           /\ fut[k] \in {"none", "failed", "waiting", "dropped"} \cup Conversion!Result
           /\ ready # <<>> => /\ Head(ready) = Conversion!EnsureHandle(k) => tx[k] = "ensure_future"
                              /\ Head(ready) = Conversion!CompleterHandle(k) => tx[k] = "task_completer"
<1> SUFFICES ASSUME NEW k \in Request
             PROVE  /\ fut[k] \in {"none", "failed"} => tx[k] = "none"
                    /\ py[k] = "running" => tx[k] = "task_completer"
                    /\ fut[k] \in {"ok", "err"} => py[k] = fut[k]
                    /\ fut[k] \in {"none", "failed", "waiting", "dropped"} \cup Conversion!Result
                    /\ ready # <<>> =>
                         /\ Head(ready) = Conversion!EnsureHandle(k) => tx[k] = "ensure_future"
                         /\ Head(ready) = Conversion!CompleterHandle(k) => tx[k] = "task_completer"
  OBVIOUS
<1>1. /\ fut[k] \in {"none", "failed"} => tx[k] = "none"
      /\ py[k] = "running" => tx[k] = "task_completer"
      /\ fut[k] \in {"ok", "err"} => py[k] = fut[k]
      /\ CP!Queued(CP!EnsureHandle(k)) => tx[k] = "ensure_future"
      /\ CP!Queued(CP!CompleterHandle(k)) => tx[k] = "task_completer"
  BY DEF CP!IInv, CP!SenderEnd, CP!SenderHeld, CP!AnswerFaithful
<1>2. fut[k] \in {"none", "failed", "waiting", "dropped"} \cup Conversion!Result
  BY SameActions DEF CP!IInv, CP!TypeOK
<1>3. ready # <<>> => CP!Queued(Head(ready))
  BY ParametersAssumption, CP!Taken
<1>4. /\ CP!EnsureHandle(k) = Conversion!EnsureHandle(k)
      /\ CP!CompleterHandle(k) = Conversion!CompleterHandle(k)
  BY DEF CP!EnsureHandle, Conversion!EnsureHandle, CP!CompleterHandle, Conversion!CompleterHandle
<1> QED BY <1>1, <1>2, <1>3, <1>4

\* The types of the conversions are part of their invariant.
LEMMA CallTypes == CP!IInv => Conversion!TypeOK
<1>1. CP!Handle = Conversion!Handle /\ CP!Result = Conversion!Result
  BY SameActions
     DEF CP!Handle, Conversion!Handle, CP!EnsureHandle, Conversion!EnsureHandle,
         CP!CompleterHandle, Conversion!CompleterHandle
<1> QED BY <1>1 DEF CP!IInv, CP!TypeOK, Conversion!TypeOK

\* So they are after a step that keeps it.
LEMMA CallTypesNext == CP!IInv' => Conversion!TypeOK'
<1> QED BY CallTypes, PTL

\* What Python and the event loop do to the requests: no answer, and no sender
\* that has ended, is undone.
LEMMA PythonFacts ==
  ASSUME CP!IInv, Python
  PROVE  /\ UNCHANGED <<fut, pc, next, chan, rx, received>>
         /\ \A k \in Request : tx[k] \in {"sent", "dropped"} => tx'[k] \in {"sent", "dropped"}
<1>0. /\ UNCHANGED <<pc, next, chan, rx, received>>
      /\ tx \in [Request -> {"none", "ensure_future", "task_completer", "sent", "dropped"}]
  BY CallTypes DEF Python, Conversion!TypeOK
<1>1. ASSUME NEW c \in Request, Conversion!TaskFinish(c) \/ Conversion!TaskCollected(c)
      PROVE  /\ fut' = fut
             /\ \A k \in Request : tx[k] \in {"sent", "dropped"} => tx'[k] \in {"sent", "dropped"}
  BY <1>0, <1>1 DEF Conversion!TaskFinish, Conversion!TaskCollected
<1>2. ASSUME NEW c \in Request, Conversion!RunEnsureFuture(c) \/ Conversion!RunTaskCompleter(c)
      PROVE  /\ fut' = fut
             /\ \A k \in Request : tx[k] \in {"sent", "dropped"} => tx'[k] \in {"sent", "dropped"}
  <2>1. tx[c] \in {"ensure_future", "task_completer"}
    BY <1>2, CallFacts DEF Conversion!RunEnsureFuture, Conversion!RunTaskCompleter
  <2>2. fut' = fut /\ \A k \in Request : k # c => tx'[k] = tx[k]
    BY <1>0, <1>2 DEF Conversion!RunEnsureFuture, Conversion!RunTaskCompleter
  <2> QED BY <2>1, <2>2
<1>3. ASSUME Conversion!LoopStop \/ Conversion!LoopRun \/ Conversion!LoopClose
      PROVE  /\ fut' = fut
             /\ \A k \in Request : tx[k] \in {"sent", "dropped"} => tx'[k] \in {"sent", "dropped"}
  BY <1>0, <1>3 DEF Conversion!LoopStop, Conversion!LoopRun, Conversion!LoopClose
<1> QED BY <1>0, <1>1, <1>2, <1>3 DEF Python, Conversion!RunHandle

\* At the start nothing was asked.
LEMMA InitIInv == Init => IInv
<1> SUFFICES ASSUME Init PROVE IInv
  OBVIOUS
<1>1. CP!IInv
  <2>1. CP!Init
    BY DEF Init, Conversion!Init, CP!Init
  <2> QED BY <2>1, ParametersAssumption, CP!InitIInv
<1>2. /\ next = 1 /\ chan = <<>> /\ received = <<>> /\ pc = "call" /\ rx = "live"
      /\ fut = [k \in Request |-> "none"] /\ stop = {} /\ N \in Nat /\ Capacity \in Nat \ {0}
  BY ParametersAssumption DEF Init, Conversion!Init
<1>3. chan \in Seq(Request) /\ received \in Seq(Request) /\ Len(chan) = 0
  BY <1>2, EmptySeq
<1>4. TypeOK
  BY <1>1, <1>2, <1>3, CallTypes DEF TypeOK
<1>5. InTurn /\ AnsweredAtEnd /\ StopIsLast
  BY <1>2 DEF InTurn, AnsweredAtEnd, StopIsLast, Request, Conversion!Result
<1>6. InOrder
  <2>1. received \o chan = <<>>
    BY <1>2, <1>3, ConcatEmptySeq
  <2>2. [k \in 1..(next - 1) |-> k] = <<>>
    BY <1>2
  <2> QED BY <2>1, <2>2 DEF InOrder
<1> QED BY <1>1, <1>4, <1>5, <1>6 DEF IInv

\* The requests in their order, and one more.
LEMMA OneMore ==
  ASSUME NEW n \in Nat
  PROVE  Append([k \in 1..n |-> k], n + 1) = [k \in 1..(n + 1) |-> k]
<1> DEFINE s == [k \in 1..n |-> k]
           t == [k \in 1..(n + 1) |-> k]
<1>1. /\ s \in Seq(Nat) /\ t \in Seq(Nat) /\ Len(s) = n /\ Len(t) = n + 1
      /\ \A k \in 1..n : s[k] = k
      /\ \A k \in 1..(n + 1) : t[k] = k
  BY IsASeq
<1> HIDE DEF s, t
<1>2. /\ Append(s, n + 1) \in Seq(Nat) /\ Len(Append(s, n + 1)) = n + 1
      /\ \A k \in 1..n : Append(s, n + 1)[k] = s[k]
      /\ Append(s, n + 1)[n + 1] = n + 1
  BY <1>1, AppendProperties
<1>3. \A k \in 1..(n + 1) : Append(s, n + 1)[k] = t[k]
  BY <1>1, <1>2
<1>4. Append(s, n + 1) = t
  BY <1>1, <1>2, <1>3, SeqEqual
<1> QED BY <1>4 DEF s, t

\* A request is made, whether or not it gets as far as a conversion.
LEMMA CallAnextIInv ==
  ASSUME IInv, CallAnext
  PROVE  IInv'
<1> USE DEF IInv
<1>1. /\ pc = "call" /\ next \in Request /\ next <= N /\ next \in Nat
      /\ UNCHANGED <<stop, next, chan, rx, received>>
      /\ pc' = IF fut'[next] = "failed" THEN "send" ELSE "await"
      /\ fut[next] = "none"
  BY DEF CallAnext, TypeOK, Request, InTurn
<1>2. /\ \/ fut' = [fut EXCEPT ![next] = "failed"] /\ tx' = tx
         \/ fut' = [fut EXCEPT ![next] = "waiting"]
            /\ tx' = [tx EXCEPT ![next] = "ensure_future"]
      /\ fut \in [Request -> {"none", "failed", "waiting", "dropped"} \cup Conversion!Result]
      /\ tx \in [Request -> {"none", "ensure_future", "task_completer", "sent", "dropped"}]
  BY CallTypes DEF CallAnext, Conversion!IntoFutureWithLocals, Conversion!TypeOK
<1>3. CP!IInv'
  BY <1>1, ConversionStep, AnextRaises DEF CallAnext
<1>4. \/ fut'[next] = "failed" /\ pc' = "send"
      \/ fut'[next] = "waiting" /\ pc' = "await"
  BY <1>1, <1>2
<1>5. \A k \in Request : k # next => fut'[k] = fut[k] /\ tx'[k] = tx[k]
  BY <1>2
<1>6. TypeOK'
  BY <1>1, <1>3, <1>4, CallTypesNext DEF TypeOK
<1>7. InTurn'
  BY <1>1, <1>4, <1>5 DEF InTurn, Request, Conversion!Result
<1>8. AnsweredAtEnd' /\ InOrder'
  BY <1>1, <1>4, <1>5 DEF AnsweredAtEnd, InOrder, Conversion!Result
<1>9. StopIsLast'
  BY <1>1, <1>4, <1>5 DEF TypeOK, StopIsLast
<1> QED BY <1>3, <1>6, <1>7, <1>8, <1>9

\* The answer is taken; StopAsyncIteration ends the task.
LEMMA AwaitAnextIInv ==
  ASSUME IInv, AwaitAnext
  PROVE  IInv'
<1> USE DEF IInv
<1>1. /\ pc = "await" /\ next \in Request /\ next <= N /\ next \in Nat
      /\ UNCHANGED <<stop, next, chan, rx, received, tx>>
      /\ pc' = IF fut'[next] = "err" /\ next \in stop THEN "done" ELSE "send"
  BY DEF AwaitAnext, Conversion!AwaitRx, TypeOK, Request, InTurn
<1>2. CP!IInv'
  BY <1>1, ConversionStep DEF AwaitAnext
<1>3. /\ fut'[next] # "waiting" /\ fut'[next] # "none" /\ tx[next] \in {"sent", "dropped"}
      /\ fut'[next] \in Conversion!Result
      /\ \A k \in Request : k # next => fut'[k] = fut[k]
  <2>1. fut \in [Request -> {"none", "failed", "waiting", "dropped"} \cup Conversion!Result]
    BY CallTypes DEF Conversion!TypeOK
  <2>2. /\ tx[next] \in {"sent", "dropped"}
        /\ fut' = [fut EXCEPT ![next] = IF tx[next] = "sent" THEN py[next] ELSE "cancelled"]
    BY DEF AwaitAnext, Conversion!AwaitRx
  <2>3. tx[next] = "sent" => py[next] \in Conversion!Result
    BY <1>1, SameActions DEF CP!IInv, CP!SenderEnd
  <2> QED BY <1>1, <2>1, <2>2, <2>3 DEF Conversion!Result
<1>4. TypeOK'
  BY <1>1, <1>2, CallTypesNext DEF TypeOK
<1>5. InTurn'
  BY <1>1, <1>3 DEF InTurn, Request
<1>6. AnsweredAtEnd' /\ InOrder'
  BY <1>1, <1>3 DEF AnsweredAtEnd, InOrder
<1>7. StopIsLast'
  BY <1>1, <1>3 DEF TypeOK, StopIsLast
<1> QED BY <1>2, <1>4, <1>5, <1>6, <1>7

\* The answer is queued behind those before it, or nobody wants it any more.
LEMMA SendItemIInv ==
  ASSUME IInv, SendItem
  PROVE  IInv'
<1> USE DEF IInv
<1>1. /\ pc = "send" /\ next \in Request /\ next <= N /\ next \in Nat
      /\ UNCHANGED <<callVars, stop, rx, received>>
      /\ chan \in Seq(Request) /\ received \in Seq(Request) /\ Capacity \in Nat
      /\ fut[next] \in Conversion!Result \cup {"failed"}
  BY ParametersAssumption DEF SendItem, TypeOK, Request, InTurn
<1>2. CP!IInv' /\ AnsweredAtEnd'
  BY <1>1, ConversionStep DEF callVars, AnsweredAtEnd
<1>3. CASE /\ rx = "live" /\ Len(chan) < Capacity
           /\ chan' = Append(chan, next) /\ pc' = "call" /\ next' = next + 1
  <2>1. chan' \in Seq(Request) /\ Len(chan') = Len(chan) + 1 /\ Len(chan) \in Nat
    BY <1>1, <1>3, AppendProperties, LenProperties
  <2>2. TypeOK'
    BY <1>1, <1>2, <1>3, <2>1, CallTypesNext, ParametersAssumption DEF TypeOK, Request
  <2>3. InTurn'
    BY <1>1, <1>3 DEF InTurn, Request, callVars
  <2>4. InOrder'
    <3>1. received \o chan = [k \in 1..(next - 1) |-> k]
      BY <1>3 DEF InOrder
    <3>2. Append(received \o chan, next) = [k \in 1..next |-> k]
      <4>1. next - 1 \in Nat /\ (next - 1) + 1 = next
        BY <1>1 DEF Request
      <4> QED BY <3>1, <4>1, OneMore
    <3>3. received' \o chan' = Append(received \o chan, next)
      BY <1>1, <1>3, ConcatAppend
    <3>4. next' - 1 = next
      BY <1>1, <1>3
    <3> QED BY <3>2, <3>3, <3>4 DEF InOrder
  <2>5. StopIsLast'
    BY <1>1, <1>3 DEF StopIsLast, callVars
  <2> QED BY <1>2, <2>2, <2>3, <2>4, <2>5
<1>4. CASE rx = "dropped" /\ pc' = "done" /\ UNCHANGED <<chan, next>>
  <2>1. TypeOK' /\ InOrder'
    BY <1>1, <1>2, <1>4, CallTypesNext DEF TypeOK, InOrder
  <2>2. InTurn' /\ StopIsLast'
    BY <1>1, <1>4 DEF InTurn, StopIsLast, callVars
  <2> QED BY <1>2, <2>1, <2>2
<1> QED BY <1>3, <1>4 DEF SendItem

\* Whatever Python and the loop do, no answer that was taken changes, and it
\* does not become StopAsyncIteration after the fact.
LEMMA PythonIInv ==
  ASSUME IInv, Python
  PROVE  IInv'
<1> USE DEF IInv
<1>1. CP!IInv'
  BY ConversionStep
<1>2. /\ UNCHANGED <<fut, pc, next, chan, rx, received>>
      /\ \A k \in Request : tx[k] \in {"sent", "dropped"} => tx'[k] \in {"sent", "dropped"}
      /\ stop' \in {stop, stop \cup {k \in Request : py'[k] = "err" /\ py[k] # "err"}}
  BY PythonFacts DEF Python
<1>3. TypeOK'
  BY <1>1, <1>2, CallTypesNext DEF TypeOK
<1>4. InTurn' /\ AnsweredAtEnd' /\ InOrder'
  BY <1>2 DEF InTurn, AnsweredAtEnd, InOrder
<1>5. StopIsLast'
  <2> SUFFICES ASSUME NEW k \in stop', fut[k] = "err"
               PROVE  k = next /\ pc = "done"
    BY <1>2 DEF StopIsLast
  <2>1. k \in Request
    BY <1>3 DEF TypeOK
  <2>2. py[k] = "err"
    BY <2>1, CallFacts
  <2>3. k \in stop
    BY <1>2, <2>2
  <2> QED BY <2>3 DEF StopIsLast
<1> QED BY <1>1, <1>3, <1>4, <1>5

\* The steps of the stream.
LEMMA StreamIInv ==
  ASSUME IInv, Recv \/ RecvEnd \/ RxDrop \/ UNCHANGED vars
  PROVE  IInv'
<1> USE DEF IInv
<1>1. /\ UNCHANGED <<callVars, stop, pc, next>>
      /\ chan \in Seq(Request) /\ received \in Seq(Request) /\ Capacity \in Nat
      /\ Len(chan) \in Nat /\ Len(chan) <= Capacity
  BY ParametersAssumption, LenProperties DEF Recv, RecvEnd, RxDrop, vars, callVars, TypeOK
<1>2. CP!IInv' /\ InTurn' /\ AnsweredAtEnd' /\ StopIsLast'
  BY <1>1, ConversionStep DEF callVars, InTurn, AnsweredAtEnd, StopIsLast
<1>3. CASE Recv
  <2>1. /\ chan # <<>> /\ chan' = Tail(chan) /\ received' = Append(received, Head(chan))
        /\ rx' = rx
    BY <1>3 DEF Recv
  <2>2. /\ chan' \in Seq(Request) /\ Len(chan') = Len(chan) - 1
        /\ received' \in Seq(Request)
    BY <1>1, <2>1, TailRange, HeadTailProperties, AppendProperties
  <2>3. received' \o chan' = received \o chan
    BY <1>1, <2>1, ConcatShift
  <2>4. TypeOK'
    BY <1>1, <1>2, <2>1, <2>2, CallTypesNext DEF TypeOK
  <2>5. InOrder'
    BY <1>1, <2>1, <2>3 DEF InOrder
  <2> QED BY <1>2, <2>4, <2>5
<1>4. CASE RecvEnd \/ UNCHANGED vars
  <2>1. UNCHANGED <<chan, received>> /\ (rx' = rx \/ (rx = "live" /\ rx' = "ended"))
    BY <1>4 DEF RecvEnd, vars
  <2>2. TypeOK' /\ InOrder'
    BY <1>1, <1>2, <2>1, CallTypesNext DEF TypeOK, InOrder
  <2> QED BY <1>2, <2>2
<1>5. CASE RxDrop
  <2>1. rx' = "dropped" /\ chan' = <<>> /\ received' = received
    BY <1>5 DEF RxDrop
  <2>2. chan' \in Seq(Request) /\ Len(chan') <= Capacity
    BY <1>1, <2>1, EmptySeq
  <2>3. TypeOK' /\ InOrder'
    BY <1>1, <1>2, <2>1, <2>2, CallTypesNext DEF TypeOK, InOrder
  <2> QED BY <1>2, <2>3
<1> QED BY <1>3, <1>4, <1>5

\* Every step preserves the invariant.
LEMMA NextIInv == IInv /\ [Next]_vars => IInv'
<1> QED BY CallAnextIInv, AwaitAnextIInv, SendItemIInv, PythonIInv, StreamIInv DEF Next, RustTask

\* The invariant holds of every stream at all times.
THEOREM Inductive == Spec => []IInv
<1> QED BY InitIInv, NextIInv, PTL DEF Spec

\* The variables of the stream and of its conversions have the types the code
\* gives them, and the channel never holds more than its capacity.
THEOREM TypeCorrect == Spec => []TypeOK
<1>1. IInv => TypeOK
  BY DEF IInv
<1> QED BY <1>1, Inductive, PTL

\* Unless the stream is dropped it yields the answer of every request, errors
\* and lost tasks included, once and in the order of the requests.
THEOREM AnswersInOrder == Spec => []InOrder
<1>1. IInv => InOrder
  BY DEF IInv
<1> QED BY <1>1, Inductive, PTL

\* The generator is asked for the next item only when the Python task of the
\* last request has ended: RuntimeError of asynchronous generators that are
\* asked twice at once cannot happen, whatever becomes of the loop.
THEOREM NeverTwoAnext == Spec => []OneRequest
<1>1. IInv => OneRequest
  <2> SUFFICES ASSUME IInv, NEW k \in Request,
                      tx[k] = "ensure_future" \/ py[k] = "running"
               PROVE  k = next /\ pc = "await"
    BY DEF OneRequest
  <2>1. tx[k] \in {"ensure_future", "task_completer"}
    BY CallFacts DEF IInv
  <2>2. fut[k] \notin {"none", "failed"} \cup Conversion!Result
    BY <2>1, CallFacts DEF IInv, AnsweredAtEnd
  <2>3. k \in Nat /\ next \in Nat /\ pc \in {"call", "await", "send", "done"}
    BY ParametersAssumption DEF IInv, TypeOK, Request
  <2>4. ~(k > next) /\ ~(k < next)
    BY <2>2 DEF IInv, InTurn
  <2>5. k = next
    BY <2>3, <2>4
  <2> QED BY <2>2, <2>3, <2>5 DEF IInv, InTurn
<1> QED BY <1>1, Inductive, PTL

----------------------------------------------------------------------------
(* The stream implements the ordered stream.                               *)

\* The reader is never further ahead than the task, nor the task of the reader
\* than the channel lets it, and only StopAsyncIteration ends the task while
\* somebody reads.
Taken ==
  /\ \A i \in 1..Len(received) : received[i] \in 1..(next - 1)
  /\ next <= Len(received) + Capacity + 1
  /\ pc = "done" /\ rx # "dropped" => next \in stop /\ fut[next] = "err"

\* What the order says of the two ends of the channel.
LEMMA DueFacts ==
  ASSUME IInv, rx # "dropped"
  PROVE  /\ Len(received) \in Nat /\ Len(chan) \in Nat
         /\ Len(received) + Len(chan) = next - 1
         /\ chan # <<>> => /\ Head(chan) = Len(received) + 1
                           /\ Len(received) + 1 \in 1..(next - 1)
<1> DEFINE q == received \o chan
           r == [k \in 1..(next - 1) |-> k]
<1>1. /\ received \in Seq(Request) /\ chan \in Seq(Request) /\ next - 1 \in Nat /\ q = r
      /\ Len(received) \in Nat /\ Len(chan) \in Nat
  BY ParametersAssumption, LenProperties DEF IInv, TypeOK, InOrder
<1>2. Len(r) = next - 1 /\ \A k \in 1..(next - 1) : r[k] = k
  BY <1>1, IsASeq
<1>3. /\ Len(q) = Len(received) + Len(chan)
      /\ \A i \in 1..Len(q) : q[i] = IF i <= Len(received) THEN received[i]
                                     ELSE chan[i - Len(received)]
  BY <1>1, ConcatProperties
<1> HIDE DEF q, r
<1>4. Len(received) + Len(chan) = next - 1
  BY <1>1, <1>2, <1>3
<1>5. ASSUME chan # <<>>
      PROVE  Head(chan) = Len(received) + 1 /\ Len(received) + 1 \in 1..(next - 1)
  <2>1. Len(chan) # 0 /\ Head(chan) = chan[1]
    BY <1>1, <1>5, EmptySeq, HeadTailProperties
  <2>2. Len(received) + 1 \in 1..(next - 1) /\ Len(received) + 1 \in 1..Len(q)
    BY <1>1, <1>2, <1>4, <2>1
  <2>3. q[Len(received) + 1] = chan[1]
    <3>1. ~(Len(received) + 1 <= Len(received)) /\ (Len(received) + 1) - Len(received) = 1
      BY <1>1
    <3> QED BY <1>3, <2>2, <3>1
  <2>4. q[Len(received) + 1] = Len(received) + 1
    BY <1>1, <1>2, <2>2
  <2> QED BY <2>1, <2>2, <2>3, <2>4
<1> QED BY <1>1, <1>4, <1>5

LEMMA InitTaken == Init => Taken
<1> SUFFICES ASSUME Init PROVE Taken
  OBVIOUS
<1>1. received = <<>> /\ next = 1 /\ pc = "call" /\ Capacity \in Nat
  BY ParametersAssumption DEF Init
<1>2. Len(received) = 0
  BY <1>1
<1> QED BY <1>1, <1>2 DEF Taken

\* Only the request under way changes, and what was taken stays taken.
LEMMA StepTaken == IInv /\ Taken /\ IInv' /\ [Next]_vars => Taken'
<1> SUFFICES ASSUME IInv, Taken, IInv', [Next]_vars PROVE Taken'
  OBVIOUS
<1>1. /\ next \in 1..(N + 1) /\ next \in Nat /\ Capacity \in Nat
      /\ received \in Seq(Request) /\ Len(received) \in Nat
      /\ stop \subseteq Request /\ pc # "call" => next \in Request
  BY ParametersAssumption, LenProperties DEF IInv, TypeOK, InTurn, Request
<1>2. CASE CallAnext
  <2>1. pc' # "done" /\ UNCHANGED <<next, received>>
    BY <1>2 DEF CallAnext
  <2> QED BY <2>1 DEF Taken
<1>3. CASE AwaitAnext
  <2>1. /\ pc' = IF fut'[next] = "err" /\ next \in stop THEN "done" ELSE "send"
        /\ UNCHANGED <<next, received, stop>>
    BY <1>3 DEF AwaitAnext
  <2> QED BY <2>1 DEF Taken
<1>4. CASE SendItem
  <2>1. CASE rx = "live" /\ Len(chan) < Capacity /\ next' = next + 1
    <3>1. Len(received) + Len(chan) = next - 1 /\ Len(chan) \in Nat
      BY <2>1, DueFacts
    <3>2. received' = received /\ pc' = "call"
      BY <1>4, <2>1 DEF SendItem
    <3>3. next' <= Len(received) + Capacity + 1
      BY <1>1, <2>1, <3>1
    <3>4. \A i \in 1..(next - 1) : i \in 1..(next' - 1)
      BY <1>1, <2>1
    <3> QED BY <3>2, <3>3, <3>4 DEF Taken
  <2>2. CASE rx = "dropped" /\ next' = next
    <3>1. received' = received /\ rx' = rx
      BY <1>4 DEF SendItem
    <3> QED BY <2>2, <3>1 DEF Taken
  <2> QED BY <1>4, <2>1, <2>2 DEF SendItem
<1>5. CASE Python
  <2>1. UNCHANGED <<fut, pc, next, rx, received>> /\ stop \subseteq stop'
    BY <1>5, PythonFacts DEF Python, IInv
  <2> QED BY <2>1 DEF Taken
<1>6. CASE Recv
  <2>1. /\ rx = "live" /\ chan # <<>> /\ rx' = rx
        /\ received' = Append(received, Head(chan))
        /\ UNCHANGED <<callVars, stop, pc, next>>
    BY <1>6 DEF Recv
  <2>2. Head(chan) \in 1..(next - 1) /\ Head(chan) \in Request
    <3>1. Head(chan) \in 1..(next - 1)
      BY <2>1, DueFacts
    <3>2. \A k \in 1..(next - 1) : k \in Request
      BY <1>1, ParametersAssumption DEF Request
    <3> QED BY <3>1, <3>2
  <2>3. /\ Len(received') = Len(received) + 1
        /\ \A i \in 1..Len(received) : received'[i] = received[i]
        /\ received'[Len(received) + 1] = Head(chan)
    BY <1>1, <2>1, <2>2, AppendProperties
  <2>4. ASSUME NEW i \in 1..Len(received')
        PROVE  received'[i] \in 1..(next - 1)
    <3>1. i \in 1..Len(received) \/ i = Len(received) + 1
      BY <1>1, <2>3
    <3> QED BY <2>2, <2>3, <3>1 DEF Taken
  <2>5. next <= Len(received') + Capacity + 1
    BY <1>1, <2>3 DEF Taken
  <2> QED BY <2>1, <2>4, <2>5 DEF Taken, callVars
<1>7. CASE RecvEnd \/ RxDrop \/ UNCHANGED vars
  <2>1. UNCHANGED <<callVars, stop, pc, next, received>> /\ (rx' # "dropped" => rx # "dropped")
    BY <1>7 DEF RecvEnd, RxDrop, vars, callVars
  <2> QED BY <2>1 DEF Taken, callVars
<1> QED BY <1>2, <1>3, <1>4, <1>5, <1>6, <1>7 DEF Next, RustTask

\* The answers and what the reader has got of them.
answers == [k \in Request |-> AnswerOf(k)]
taken == [i \in DOMAIN received |-> fut[received[i]]]

LEMMA AnswerFacts ==
  ASSUME IInv, Taken
  PROVE  /\ \A k \in 1..(next - 1) : k \in Request /\ answers[k] = fut[k] /\ fut[k] \in Given
         /\ taken \in Seq(Given) /\ Len(taken) = Len(received)
         /\ "stop" \notin Given /\ "none" \notin Given
<1>1. /\ next \in 1..(N + 1) /\ next \in Nat /\ N \in Nat
      /\ received \in Seq(Request) /\ Len(received) \in Nat
      /\ DOMAIN received = 1..Len(received)
  BY ParametersAssumption, LenProperties, SequenceFacts DEF IInv, TypeOK
<1>2. \A k \in 1..(next - 1) : k \in Request /\ k \in Nat /\ k < next
  BY <1>1 DEF Request
<1>3. \A k \in 1..(next - 1) : fut[k] \in Given
  BY <1>2 DEF IInv, InTurn, Given
<1>4. \A k \in 1..(next - 1) : ~(fut[k] = "err" /\ k \in stop)
  BY <1>1, <1>2 DEF IInv, StopIsLast
<1>5. \A k \in 1..(next - 1) : answers[k] = fut[k]
  BY <1>2, <1>3, <1>4 DEF answers, AnswerOf
<1>6. \A i \in 1..Len(received) : fut[received[i]] \in Given
  BY <1>3 DEF Taken
<1>7. taken \in Seq(Given) /\ Len(taken) = Len(received)
  BY <1>1, <1>6, IsASeq DEF taken
<1> QED BY <1>2, <1>3, <1>5, <1>7 DEF Given, Conversion!Result

\* The request under way is answered.
LEMMA AnswerStep ==
  ASSUME IInv, Taken, next \in Request, fut[next] \notin Given, fut'[next] \in Given,
         \A k \in Request \ {next} : fut'[k] = fut[k],
         UNCHANGED <<stop, next, received, rx>>
  PROVE  Promise!Answer(next)
<1>1. \A k \in Request \ {next} : AnswerOf(k)' = AnswerOf(k)
  BY DEF AnswerOf
<1>2. AnswerOf(next)' \in Given \cup {"stop"} /\ AnswerOf(next) = "none"
  BY DEF AnswerOf
<1>3. answers' = [answers EXCEPT ![next] = AnswerOf(next)'] /\ answers[next] = "none"
  BY <1>1, <1>2 DEF answers
<1>4. taken' = taken
  <2>1. \A i \in DOMAIN received : received[i] \in Request \ {next}
    <3>1. DOMAIN received = 1..Len(received) /\ next \in Nat
      BY SequenceFacts, ParametersAssumption DEF IInv, TypeOK, Request
    <3>2. \A k \in 1..(next - 1) : k \in Request \ {next}
      BY <3>1, AnswerFacts
    <3> QED BY <3>1, <3>2 DEF Taken
  <2> QED BY <2>1 DEF taken
<1>5. \A j \in 1..(next - 1) : answers[j] \in Given
  BY AnswerFacts
<1>6. next <= Len(taken) + (Capacity + 1)
  <2>1. next \in Nat /\ Capacity \in Nat /\ Len(received) \in Nat
    BY ParametersAssumption, LenProperties DEF Request, IInv, TypeOK
  <2>2. Len(taken) = Len(received) /\ next <= Len(received) + Capacity + 1
    BY AnswerFacts DEF Taken
  <2> QED BY <2>1, <2>2
<1> QED BY <1>2, <1>3, <1>4, <1>5, <1>6 DEF Promise!Answer, answers, taken

\* A step that takes no answer and yields none.
LEMMA Stutters ==
  ASSUME IInv, Taken, UNCHANGED <<fut, received, rx>>, UNCHANGED answers
  PROVE  UNCHANGED Promise!vars
BY DEF Promise!vars, answers, taken

LEMMA StepImplements ==
  IInv /\ Taken /\ [Next]_vars => [Promise!Next]_(Promise!vars)
<1> SUFFICES ASSUME IInv, Taken, [Next]_vars PROVE [Promise!Next]_(Promise!vars)
  OBVIOUS
<1>1. /\ next \in Nat /\ N \in Nat /\ (pc # "call" => next \in Request)
      /\ received \in Seq(Request) /\ Len(received) \in Nat
      /\ fut \in [Request -> {"none", "failed", "waiting", "dropped"} \cup Conversion!Result]
  BY ParametersAssumption, LenProperties, CallTypes
  DEF IInv, TypeOK, InTurn, Request, Conversion!TypeOK
<1>2. CASE CallAnext
  <2>1. /\ next \in Request /\ fut[next] = "none" /\ UNCHANGED <<stop, next, received, rx>>
        /\ fut' \in {[fut EXCEPT ![next] = "failed"], [fut EXCEPT ![next] = "waiting"]}
    BY <1>1, <1>2 DEF CallAnext, Conversion!IntoFutureWithLocals, Request, IInv, InTurn, TypeOK
  <2>2. CASE fut' = [fut EXCEPT ![next] = "failed"]
    <3>1. Promise!Answer(next)
      BY <1>1, <2>1, <2>2, AnswerStep DEF Given, Conversion!Result
    <3> QED BY <2>1, <3>1 DEF Promise!Next, Request
  <2>3. CASE fut' = [fut EXCEPT ![next] = "waiting"]
    <3>1. \A k \in Request : AnswerOf(k)' = AnswerOf(k)
      BY <1>1, <2>1, <2>3 DEF AnswerOf, Given, Conversion!Result
    <3>2. answers' = answers
      BY <3>1 DEF answers
    <3>3. taken' = taken
      <4>1. \A i \in DOMAIN received : fut'[received[i]] = fut[received[i]]
        <5>1. DOMAIN received = 1..Len(received)
          BY <1>1, SequenceFacts
        <5>2. \A k \in 1..(next - 1) : k \in Request /\ k # next
          BY <1>1, AnswerFacts
        <5> QED BY <1>1, <2>3, <5>1, <5>2 DEF Taken
      <4> QED BY <2>1, <4>1 DEF taken
    <3> QED BY <2>1, <3>2, <3>3 DEF Promise!vars, answers, taken
  <2> QED BY <2>1, <2>2, <2>3
<1>3. CASE AwaitAnext
  <2>1. /\ next \in Request /\ fut[next] = "waiting" /\ UNCHANGED <<stop, next, received, rx>>
        /\ fut' = [fut EXCEPT ![next] = IF tx[next] = "sent" THEN py[next] ELSE "cancelled"]
    BY <1>1, <1>3 DEF AwaitAnext, Conversion!AwaitRx, IInv, InTurn
  <2>2. tx[next] = "sent" => py[next] \in Conversion!Result
    BY <2>1, SameActions DEF IInv, CP!IInv, CP!SenderEnd
  <2>3. fut'[next] \in Given /\ fut[next] \notin Given
    BY <1>1, <2>1, <2>2 DEF Given, Conversion!Result
  <2>4. Promise!Answer(next)
    BY <1>1, <2>1, <2>3, AnswerStep
  <2> QED BY <2>1, <2>4 DEF Promise!Next, Request
<1>4. CASE SendItem \/ UNCHANGED vars
  <2>1. UNCHANGED <<fut, stop, received, rx>>
    BY <1>4 DEF SendItem, callVars, vars
  <2>2. UNCHANGED answers
    BY <2>1 DEF answers, AnswerOf
  <2> QED BY <2>1, <2>2, Stutters
<1>5. CASE Python
  <2>1. /\ UNCHANGED <<fut, received, rx>>
        /\ stop' \in {stop, stop \cup {k \in Request : py'[k] = "err" /\ py[k] # "err"}}
    BY <1>5, PythonFacts DEF Python, IInv
  <2>2. \A k \in Request : fut[k] = "err" => py[k] = "err"
    BY CallFacts DEF IInv
  <2>3. \A k \in Request : fut[k] = "err" => (k \in stop' <=> k \in stop)
    BY <2>1, <2>2
  <2>4. \A k \in Request : AnswerOf(k)' = AnswerOf(k)
    BY <2>1, <2>3 DEF AnswerOf
  <2>5. UNCHANGED answers
    BY <2>4 DEF answers
  <2> QED BY <2>1, <2>5, Stutters
<1>6. CASE Recv
  <2> DEFINE d == Len(received) + 1
  <2>1. /\ rx = "live" /\ chan # <<>> /\ rx' = rx
        /\ received' = Append(received, Head(chan))
        /\ UNCHANGED <<fut, stop>>
    BY <1>6 DEF Recv, callVars
  <2>2. Head(chan) = d /\ d \in 1..(next - 1) /\ d \in Request
    BY <2>1, DueFacts, AnswerFacts
  <2>3. /\ Len(taken) = Len(received) /\ taken \in Seq(Given)
        /\ answers[d] = fut[d] /\ fut[d] \in Given
    BY <2>2, AnswerFacts
  <2>4. answers' = answers
    BY <2>1 DEF answers, AnswerOf
  <2>5. taken' = Append(taken, answers[d])
    <3> DEFINE a == Append(taken, answers[d])
               r == Append(received, d)
    <3>1. /\ r \in Seq(Request) /\ Len(r) = d /\ r[d] = d
          /\ \A i \in 1..Len(received) : r[i] = received[i]
      BY <1>1, <2>2, AppendProperties
    <3>2. /\ a \in Seq(Given) /\ Len(a) = d /\ a[d] = fut[d]
          /\ \A i \in 1..Len(received) : a[i] = taken[i]
      BY <1>1, <2>3, AppendProperties
    <3>3. DOMAIN r = 1..d /\ DOMAIN received = 1..Len(received) /\ DOMAIN a = 1..d
      BY <1>1, <3>1, <3>2, SequenceFacts
    <3>4. taken' = [i \in 1..d |-> fut[r[i]]]
      BY <2>1, <2>2, <3>3 DEF taken
    <3>5. \A i \in 1..Len(received) : taken[i] = fut[received[i]]
      BY <3>3 DEF taken
    <3>6. \A i \in 1..d : i \in 1..Len(received) \/ i = d
      BY <1>1
    <3> HIDE DEF a, r, d
    <3>7. \A i \in 1..d : a[i] = fut[r[i]]
      BY <3>1, <3>2, <3>5, <3>6
    <3>8. a = [i \in 1..d |-> fut[r[i]]]
      <4>1. a = [i \in DOMAIN a |-> a[i]]
        BY <3>2
      <4> QED BY <3>3, <3>7, <4>1
    <3> QED BY <3>4, <3>8 DEF a
  <2>6. d <= N /\ Len(taken) + 1 = d
    BY <2>2, <2>3 DEF Request
  <2>7. Promise!Yield
    BY <2>1, <2>3, <2>4, <2>5, <2>6 DEF Promise!Yield, Promise!Due, answers, taken
  <2> QED BY <2>7 DEF Promise!Next
<1>7. CASE RecvEnd
  <2>1. /\ rx = "live" /\ chan = <<>> /\ pc = "done" /\ rx' = "ended"
        /\ UNCHANGED <<fut, stop, received>>
    BY <1>7 DEF RecvEnd, callVars
  <2>2. Len(received) + 1 = next /\ next \in Request /\ next <= N
    <3>1. Len(chan) = 0
      BY <2>1
    <3>2. Len(received) + Len(chan) = next - 1
      BY <2>1, DueFacts
    <3> QED BY <1>1, <2>1, <3>1, <3>2 DEF Request
  <2>3. answers[next] = "stop"
    <3>1. next \in stop /\ fut[next] = "err"
      BY <2>1 DEF Taken
    <3> QED BY <2>2, <3>1 DEF answers, AnswerOf, Given, Conversion!Result
  <2>4. Len(taken) + 1 = next
    BY <2>2, AnswerFacts
  <2>5. answers' = answers /\ taken' = taken
    BY <2>1 DEF answers, taken, AnswerOf
  <2>6. Promise!End
    BY <2>1, <2>2, <2>3, <2>4, <2>5 DEF Promise!End, Promise!Due, answers, taken
  <2> QED BY <2>6 DEF Promise!Next
<1>8. CASE RxDrop
  <2>1. rx = "live" /\ rx' = "dropped" /\ UNCHANGED <<fut, stop, received>>
    BY <1>8 DEF RxDrop, callVars
  <2>2. answers' = answers /\ taken' = taken
    BY <2>1 DEF answers, taken, AnswerOf
  <2>3. Promise!Drop
    BY <2>1, <2>2 DEF Promise!Drop, answers, taken
  <2> QED BY <2>3 DEF Promise!Next
<1> QED BY <1>2, <1>3, <1>4, <1>5, <1>6, <1>7, <1>8 DEF Next, RustTask

\* The stream implements an ordered stream: for any number of requests and any
\* capacity the reader gets the answers that Python gave, as they were given,
\* StopAsyncIteration ends it after them, and the generator is never asked for
\* more than the channel holds and one item more.
THEOREM Refinement == Spec => ImplementsStream
<1>1. Init => Promise!Init
  <2> SUFFICES ASSUME Init PROVE Promise!Init
    OBVIOUS
  <2>1. /\ fut = [k \in Request |-> "none"] /\ received = <<>> /\ rx = "live"
    BY DEF Init, Conversion!Init
  <2>2. answers = [k \in 1..N |-> "none"]
    BY <2>1 DEF answers, AnswerOf, Given, Conversion!Result, Request
  <2>3. taken = <<>>
    BY <2>1 DEF taken
  <2> QED BY <2>1, <2>2, <2>3 DEF Promise!Init, answers, taken
<1>2. Init => Taken
  BY InitTaken
<1>3. IInv /\ Taken /\ IInv' /\ [Next]_vars => Taken'
  BY StepTaken
<1>4. IInv /\ Taken /\ [Next]_vars => [Promise!Next]_(Promise!vars)
  BY StepImplements
<1> QED BY <1>1, <1>2, <1>3, <1>4, Inductive, PTL DEF Spec, ImplementsStream, Promise!Spec
=============================================================================
