-------------------------- MODULE IntoFutureProofs --------------------------
(***************************************************************************)
(* Proofs about IntoFuture, for any set of calls: what the Rust future     *)
(* resolves to and that the sender is never lost.                          *)
(***************************************************************************)
EXTENDS IntoFuture, QueueLemmas

\* A value or an exception reaches Rust only from the Python task of the same
\* call; CancelledError means that the task was cancelled, or that no result
\* can come any more: ensure_future raised, the task was collected or the loop
\* was closed before the completer ran.
AnswerFaithful == \A c \in Call :
  /\ fut[c] \in {"ok", "err"} => py[c] = fut[c]
  /\ fut[c] = "cancelled" => py[c] \in {"cancelled", "refused", "collected"} \/ loop = "closed"

\* The inductive invariant: who holds the sender, and how it ended.
IInv ==
  /\ TypeOK
  /\ NoTwin /\ SenderHeld /\ SenderEnd
  /\ AnswerFaithful

\* The two kinds of handle are different, and each names its call.
LEMMA HandleFacts ==
  ASSUME NEW c \in Call, NEW d \in Call
  PROVE  /\ EnsureHandle(c) \in Handle /\ CompleterHandle(c) \in Handle
         /\ EnsureHandle(c) = EnsureHandle(d) <=> c = d
         /\ CompleterHandle(c) = CompleterHandle(d) <=> c = d
         /\ EnsureHandle(c) # CompleterHandle(d)
<1>1. EnsureHandle(c) \in Handle /\ CompleterHandle(c) \in Handle
  BY DEF Handle
<1>2. \A e \in Call : /\ EnsureHandle(e).call = e /\ EnsureHandle(e).kind = "ensure_future"
                      /\ CompleterHandle(e).call = e /\ CompleterHandle(e).kind = "task_completer"
  BY DEF EnsureHandle, CompleterHandle
<1> QED BY <1>1, <1>2

\* No call and an empty loop satisfy the invariant.
LEMMA InitIInv == Init => IInv
<1> SUFFICES ASSUME Init PROVE IInv
  OBVIOUS
<1>1. ready \in Seq(Handle)
  BY EmptySeq DEF Init
<1>2. \A h : ~Queued(h)
  BY DEF Init, Queued, Range
<1>3. NoTwin
  BY DEF Init, NoTwin, IsInjective
<1>4. TypeOK
  BY <1>1 DEF Init, TypeOK
<1>5. SenderHeld /\ SenderEnd /\ AnswerFaithful
  BY <1>2 DEF Init, SenderHeld, SenderEnd, AnswerFaithful, Result
<1> QED BY <1>3, <1>4, <1>5 DEF IInv

\* What a step that appends the handle h does to the queue.
LEMMA Appended ==
  ASSUME IInv, NEW h \in Handle, ~Queued(h), ready' = Append(ready, h)
  PROVE  /\ ready' \in Seq(Handle) /\ NoTwin'
         /\ \A g : Queued(g)' <=> Queued(g) \/ g = h
<1>1. ready \in Seq(Handle) /\ IsInjective(ready) /\ h \notin Range(ready)
  BY DEF IInv, TypeOK, NoTwin, Queued
<1> QED BY <1>1, AppendFacts DEF NoTwin, Queued

\* What a step that runs the first handle does to the queue.
LEMMA Taken ==
  ASSUME IInv, ready # <<>>
  PROVE  /\ Tail(ready) \in Seq(Handle) /\ IsInjective(Tail(ready))
         /\ Head(ready) \in Handle /\ Queued(Head(ready))
         /\ Range(Tail(ready)) = Range(ready) \ {Head(ready)}
<1>1. ready \in Seq(Handle) /\ IsInjective(ready)
  BY DEF IInv, TypeOK, NoTwin
<1> QED BY <1>1, TailFacts DEF Queued

\* Steps of the Rust future and of the loop's owner that leave the queue alone.
LEMMA QuietStepIInv ==
  ASSUME IInv, ready' = ready,
         \/ \E c \in Call : IntoFutureWithLocals(c) \/ AwaitRx(c) \/ DropFuture(c) \/ TaskCollected(c)
         \/ LoopStop \/ LoopRun \/ UNCHANGED vars
  PROVE  IInv'
<1> USE DEF IInv
<1>q. NoTwin' /\ \A h : Queued(h)' <=> Queued(h)
  BY DEF NoTwin, Queued
<1>1. ASSUME NEW c \in Call, IntoFutureWithLocals(c)
      PROVE  IInv'
  <2>1. CASE loop = "closed"
    <3>1. TypeOK'
      BY <1>1, <2>1 DEF IntoFutureWithLocals, TypeOK
    <3>2. SenderHeld' /\ SenderEnd' /\ AnswerFaithful'
      BY <1>1, <1>q, <2>1 DEF IntoFutureWithLocals, TypeOK, SenderHeld, SenderEnd, AnswerFaithful, Result
    <3> QED BY <1>q, <3>1, <3>2
  <2>2. CASE loop # "closed"
    <3>1. ready' = Append(ready, EnsureHandle(c))
      BY <1>1, <2>2 DEF IntoFutureWithLocals
    <3>2. Len(Append(ready, EnsureHandle(c))) = Len(ready) + 1 /\ Len(ready) \in Nat
      BY HandleFacts, AppendProperties, LenProperties DEF TypeOK
    <3> QED BY <3>1, <3>2
  <2> QED BY <2>1, <2>2
<1>2. ASSUME NEW c \in Call, AwaitRx(c)
      PROVE  IInv'
  <2>1. TypeOK'
    BY <1>2 DEF AwaitRx, TypeOK, SenderEnd, Result
  <2>2. SenderHeld' /\ SenderEnd' /\ AnswerFaithful'
    BY <1>2, <1>q DEF AwaitRx, TypeOK, SenderHeld, SenderEnd, AnswerFaithful, Result
  <2> QED BY <1>q, <2>1, <2>2
<1>3. ASSUME NEW c \in Call, DropFuture(c)
      PROVE  IInv'
  <2>1. TypeOK'
    BY <1>3 DEF DropFuture, TypeOK
  <2>2. SenderHeld' /\ SenderEnd' /\ AnswerFaithful'
    BY <1>3, <1>q DEF DropFuture, TypeOK, SenderHeld, SenderEnd, AnswerFaithful
  <2> QED BY <1>q, <2>1, <2>2
<1>4. ASSUME NEW c \in Call, TaskCollected(c)
      PROVE  IInv'
  <2>1. TypeOK'
    BY <1>4 DEF TaskCollected, TypeOK
  <2>2. SenderHeld' /\ SenderEnd' /\ AnswerFaithful'
    BY <1>4, <1>q DEF TaskCollected, TypeOK, SenderHeld, SenderEnd, AnswerFaithful, Result
  <2> QED BY <1>q, <2>1, <2>2
<1>5. ASSUME LoopStop \/ LoopRun \/ UNCHANGED vars
      PROVE  IInv'
  <2> USE <1>5 DEF LoopStop, LoopRun, vars
  <2>1. TypeOK'
    BY DEF TypeOK
  <2>2. SenderHeld' /\ SenderEnd' /\ AnswerFaithful'
    BY <1>q DEF SenderHeld, SenderEnd, AnswerFaithful
  <2> QED BY <1>q, <2>1, <2>2
<1> QED BY <1>1, <1>2, <1>3, <1>4, <1>5

\* A call on an open loop: the sender goes into the queue with its handle.
LEMMA IntoFutureIInv ==
  ASSUME IInv, NEW c \in Call, IntoFutureWithLocals(c), loop # "closed"
  PROVE  IInv'
<1> USE DEF IInv
<1>1. /\ fut[c] = "none" /\ tx[c] = "none" /\ py[c] = "none"
      /\ fut' = [fut EXCEPT ![c] = "waiting"]
      /\ tx' = [tx EXCEPT ![c] = "ensure_future"]
      /\ ready' = Append(ready, EnsureHandle(c))
      /\ UNCHANGED <<py, loop>>
  BY DEF IntoFutureWithLocals, SenderEnd
<1>2. ~Queued(EnsureHandle(c)) /\ EnsureHandle(c) \in Handle
  BY <1>1, HandleFacts DEF SenderHeld
<1>3. /\ ready' \in Seq(Handle) /\ NoTwin'
      /\ \A g : Queued(g)' <=> Queued(g) \/ g = EnsureHandle(c)
  BY <1>1, <1>2, Appended
<1>4. \A d \in Call : /\ Queued(EnsureHandle(d))' <=> Queued(EnsureHandle(d)) \/ d = c
                      /\ Queued(CompleterHandle(d))' <=> Queued(CompleterHandle(d))
  BY <1>3, HandleFacts
<1>5. TypeOK'
  BY <1>1, <1>3 DEF TypeOK
<1>6. SenderHeld' /\ SenderEnd' /\ AnswerFaithful'
  BY <1>1, <1>4 DEF TypeOK, SenderHeld, SenderEnd, AnswerFaithful, Result
<1> QED BY <1>3, <1>5, <1>6

\* PyEnsureFuture: the sender is dropped, or goes to the completer.
LEMMA RunEnsureFutureIInv ==
  ASSUME IInv, NEW c \in Call, RunEnsureFuture(c)
  PROVE  IInv'
<1> USE DEF IInv, RunEnsureFuture
<1>1. /\ Tail(ready) \in Seq(Handle) /\ IsInjective(Tail(ready))
      /\ Queued(EnsureHandle(c))
      /\ Range(Tail(ready)) = Range(ready) \ {EnsureHandle(c)}
  BY Taken
<1>2. tx[c] = "ensure_future" /\ py[c] = "none" /\ ~Queued(CompleterHandle(c))
  BY <1>1 DEF SenderHeld, SenderEnd, Result
<1>3. CASE /\ py'[c] \in {"refused", "running"}
           /\ py' = [py EXCEPT ![c] = py'[c]]
           /\ tx' = [tx EXCEPT ![c] = IF py'[c] = "refused" THEN "dropped" ELSE "task_completer"]
           /\ ready' = Tail(ready)
  <2>1. \A d \in Call : /\ Queued(EnsureHandle(d))' <=> Queued(EnsureHandle(d)) /\ d # c
                        /\ Queued(CompleterHandle(d))' <=> Queued(CompleterHandle(d))
    BY <1>1, <1>3, HandleFacts DEF Queued
  <2>2. TypeOK' /\ NoTwin'
    BY <1>1, <1>3 DEF TypeOK, NoTwin
  <2>3. SenderHeld' /\ SenderEnd' /\ AnswerFaithful'
    BY <1>2, <1>3, <2>1 DEF TypeOK, SenderHeld, SenderEnd, AnswerFaithful, Result
  <2> QED BY <2>2, <2>3
<1>4. CASE /\ \E r \in Result : py' = [py EXCEPT ![c] = r]
           /\ tx' = [tx EXCEPT ![c] = "task_completer"]
           /\ ready' = Append(Tail(ready), CompleterHandle(c))
  <2> DEFINE q == Tail(ready)
             h == CompleterHandle(c)
  <2>1. q \in Seq(Handle) /\ IsInjective(q) /\ h \in Handle /\ h \notin Range(q)
    BY <1>1, <1>2, HandleFacts DEF Queued
  <2>2. ready' = Append(q, h)
    BY <1>4
  <2> HIDE DEF q, h
  <2>3. /\ Append(q, h) \in Seq(Handle) /\ IsInjective(Append(q, h))
        /\ Range(Append(q, h)) = Range(q) \cup {h}
    BY ONLY <2>1, AppendFacts
  <2>4. \A d \in Call : /\ Queued(EnsureHandle(d))' <=> Queued(EnsureHandle(d)) /\ d # c
                        /\ Queued(CompleterHandle(d))' <=> Queued(CompleterHandle(d)) \/ d = c
    BY <1>1, <2>2, <2>3, HandleFacts DEF Queued, q, h
  <2>5. TypeOK' /\ NoTwin'
    BY <1>4, <2>2, <2>3 DEF TypeOK, NoTwin
  <2>6. SenderHeld' /\ SenderEnd' /\ AnswerFaithful'
    BY <1>2, <1>4, <2>4 DEF TypeOK, SenderHeld, SenderEnd, AnswerFaithful, Result
  <2> QED BY <2>5, <2>6
<1>5. \/ /\ py'[c] \in {"refused", "running"}
         /\ py' = [py EXCEPT ![c] = py'[c]]
         /\ tx' = [tx EXCEPT ![c] = IF py'[c] = "refused" THEN "dropped" ELSE "task_completer"]
         /\ ready' = Tail(ready)
      \/ /\ \E r \in Result : py' = [py EXCEPT ![c] = r]
         /\ tx' = [tx EXCEPT ![c] = "task_completer"]
         /\ ready' = Append(Tail(ready), CompleterHandle(c))
  BY DEF TypeOK
<1> QED BY <1>3, <1>4, <1>5

\* PyTaskCompleter: the result of the task is sent.
LEMMA RunTaskCompleterIInv ==
  ASSUME IInv, NEW c \in Call, RunTaskCompleter(c)
  PROVE  IInv'
<1> USE DEF IInv, RunTaskCompleter
<1>1. /\ ready' \in Seq(Handle) /\ NoTwin'
      /\ Queued(CompleterHandle(c))
      /\ \A g : Queued(g)' <=> Queued(g) /\ g # CompleterHandle(c)
  BY Taken DEF NoTwin, Queued
<1>2. \A d \in Call : /\ Queued(EnsureHandle(d))' <=> Queued(EnsureHandle(d))
                      /\ Queued(CompleterHandle(d))' <=> Queued(CompleterHandle(d)) /\ d # c
  BY <1>1, HandleFacts
<1>3. TypeOK'
  BY <1>1 DEF TypeOK
<1>4. SenderHeld' /\ SenderEnd' /\ AnswerFaithful'
  BY <1>1, <1>2 DEF TypeOK, SenderHeld, SenderEnd, AnswerFaithful, Result
<1> QED BY <1>1, <1>3, <1>4

\* The Python task ends: its completer is scheduled.
LEMMA TaskFinishIInv ==
  ASSUME IInv, NEW c \in Call, TaskFinish(c)
  PROVE  IInv'
<1> USE DEF IInv, TaskFinish
<1>1. /\ ~Queued(CompleterHandle(c)) /\ CompleterHandle(c) \in Handle
      /\ tx[c] = "task_completer"
  BY HandleFacts DEF SenderHeld
<1>2. /\ ready' \in Seq(Handle) /\ NoTwin'
      /\ \A g : Queued(g)' <=> Queued(g) \/ g = CompleterHandle(c)
  BY <1>1, Appended
<1>3. \A d \in Call : /\ Queued(EnsureHandle(d))' <=> Queued(EnsureHandle(d))
                      /\ Queued(CompleterHandle(d))' <=> Queued(CompleterHandle(d)) \/ d = c
  BY <1>2, HandleFacts
<1>4. TypeOK'
  BY <1>2 DEF TypeOK
<1>5. SenderHeld' /\ SenderEnd' /\ AnswerFaithful'
  BY <1>1, <1>3 DEF TypeOK, SenderHeld, SenderEnd, AnswerFaithful, Result
<1> QED BY <1>2, <1>4, <1>5

\* Closing the loop: the handles it drops held their senders.
LEMMA LoopCloseIInv ==
  ASSUME IInv, LoopClose
  PROVE  IInv'
<1> USE DEF IInv, LoopClose
<1>1. /\ ready' \in Seq(Handle) /\ NoTwin'
      /\ \A g : ~Queued(g)'
  BY EmptySeq DEF NoTwin, IsInjective, Queued, Range
<1>2. TypeOK'
  BY <1>1 DEF TypeOK
<1>3. SenderHeld' /\ SenderEnd' /\ AnswerFaithful'
  BY <1>1 DEF TypeOK, SenderHeld, SenderEnd, AnswerFaithful, Result
<1> QED BY <1>1, <1>2, <1>3

\* Every step of a call, of the loop and of Python code preserves the invariant.
LEMMA NextIInv == IInv /\ [Next]_vars => IInv'
<1> SUFFICES ASSUME IInv, [Next]_vars PROVE IInv'
  OBVIOUS
<1>1. CASE \E c \in Call : IntoFutureWithLocals(c)
  <2>1. CASE loop = "closed"
    BY <1>1, <2>1, QuietStepIInv DEF IntoFutureWithLocals
  <2>2. CASE loop # "closed"
    BY <1>1, <2>2, IntoFutureIInv
  <2> QED BY <2>1, <2>2
<1>2. CASE \E c \in Call : AwaitRx(c) \/ DropFuture(c) \/ TaskCollected(c)
  <2>1. ready' = ready
    BY <1>2 DEF AwaitRx, DropFuture, TaskCollected
  <2> QED BY <1>2, <2>1, QuietStepIInv
<1>3. CASE LoopStop \/ LoopRun \/ UNCHANGED vars
  <2>1. ready' = ready
    BY <1>3 DEF LoopStop, LoopRun, vars
  <2> QED BY <1>3, <2>1, QuietStepIInv
<1>4. CASE \E c \in Call : TaskFinish(c)
  BY <1>4, TaskFinishIInv
<1>5. CASE RunHandle
  BY <1>5, RunEnsureFutureIInv, RunTaskCompleterIInv DEF RunHandle
<1>6. CASE LoopClose
  BY <1>6, LoopCloseIInv
<1> QED BY <1>1, <1>2, <1>3, <1>4, <1>5, <1>6 DEF Next

\* The invariant holds of all calls at all times.
THEOREM Inductive == Spec => []IInv
<1> QED BY InitIInv, NextIInv, PTL DEF Spec

\* Every state has the types the model declares.
THEOREM TypeCorrect == Spec => []TypeOK
<1>1. IInv => TypeOK
  BY DEF IInv
<1> QED BY <1>1, Inductive, PTL

\* What a Rust future resolves to is what its own Python task ended with, and
\* CancelledError only stands for a cancelled task or one that cannot answer.
THEOREM Answers == Spec => []AnswerFaithful
<1>1. IInv => AnswerFaithful
  BY DEF IInv
<1> QED BY <1>1, Inductive, PTL

\* The sender is held by exactly the handle or task that can still use it.
THEOREM SenderNeverLost == Spec => []SenderHeld
<1>1. IInv => SenderHeld
  BY DEF IInv
<1> QED BY <1>1, Inductive, PTL

----------------------------------------------------------------------------
(* The refinement of OneAnswer.                                            *)

\* The answer of a call is settled by the end of its sender.
AnswerOf == \A c \in Call :
  /\ answer[c] = "none" <=> tx[c] = "none"
  /\ answer[c] = "pending" <=> tx[c] \in {"ensure_future", "task_completer"}
  /\ tx[c] = "sent" => answer[c] = py[c] /\ py[c] \in Result
  /\ tx[c] = "dropped" => answer[c] = "lost"

LEMMA AnswerFacts == IInv => AnswerOf
<1> SUFFICES ASSUME IInv, NEW c \in Call
             PROVE  /\ answer[c] = "none" <=> tx[c] = "none"
                    /\ answer[c] = "pending" <=> tx[c] \in {"ensure_future", "task_completer"}
                    /\ tx[c] = "sent" => answer[c] = py[c] /\ py[c] \in Result
                    /\ tx[c] = "dropped" => answer[c] = "lost"
  BY DEF AnswerOf
<1>1. tx[c] \in {"none", "ensure_future", "task_completer", "sent", "dropped"}
  BY DEF IInv, TypeOK
<1>2. answer[c] = CASE tx[c] = "none" -> "none"
                    [] tx[c] = "sent" -> py[c]
                    [] tx[c] = "dropped" -> IF NoResultComes(c) THEN "lost" ELSE "forgotten"
                    [] OTHER -> "pending"
  BY DEF answer
<1>3. /\ tx[c] = "sent" => py[c] \in Result
      /\ tx[c] = "dropped" => NoResultComes(c)
  BY DEF IInv, SenderEnd, NoResultComes
<1> QED BY <1>1, <1>2, <1>3 DEF Result

\* Whoever has a sender ends it, or hands it on, and no other sender with it.
LEMMA AnswerUpdate ==
  ASSUME IInv, AnswerOf, AnswerOf', TypeOK', NEW c \in Call,
         \A d \in Call \ {c} : tx'[d] = tx[d] /\ py'[d] = py[d]
  PROVE  answer' = [answer EXCEPT ![c] = answer'[c]]
<1>1. ASSUME NEW d \in Call \ {c}
      PROVE  answer'[d] = answer[d]
  <2>1. tx[d] \in {"none", "ensure_future", "task_completer", "sent", "dropped"}
    BY DEF IInv, TypeOK
  <2> QED BY <1>1, <2>1 DEF AnswerOf
<1>2. /\ answer' = [d \in Call |-> answer'[d]] /\ answer = [d \in Call |-> answer[d]]
  BY DEF answer
<1>3. [answer EXCEPT ![c] = answer'[c]] = [d \in Call |-> IF d = c THEN answer'[c] ELSE answer[d]]
  BY <1>2
<1>4. answer' = [d \in Call |-> IF d = c THEN answer'[c] ELSE answer[d]]
  BY <1>1, <1>2
<1> QED BY <1>3, <1>4

\* Every step of a call, of the loop and of Python code is one of OneAnswer.
LEMMA StepImplements ==
  ASSUME IInv, AnswerOf, AnswerOf', IInv', [Next]_vars
  PROVE  [Promise!Next]_(Promise!vars)
<1> USE DEF Promise!Next, Promise!vars, Promise!Settled, Promise!Result
<1>t. /\ TypeOK /\ TypeOK' /\ answer = [d \in Call |-> answer[d]]
  BY DEF IInv, answer
<1>k. UNCHANGED <<tx, py>> => answer' = answer
  <2>1. ASSUME UNCHANGED <<tx, py>>, NEW d \in Call
        PROVE  answer'[d] = answer[d]
    <3>1. tx[d] \in {"none", "ensure_future", "task_completer", "sent", "dropped"}
      BY <1>t DEF TypeOK
    <3> QED BY <2>1, <3>1 DEF AnswerOf
  <2>2. answer' = [d \in Call |-> answer'[d]]
    BY DEF answer
  <2> QED BY <1>t, <2>1, <2>2
<1>1. ASSUME NEW c \in Call, IntoFutureWithLocals(c)
      PROVE  Promise!Ask(c) \/ Promise!AskFails(c)
  <2>1. CASE loop = "closed"
    BY <1>1, <1>k, <2>1 DEF IntoFutureWithLocals, open, Promise!AskFails
  <2>2. CASE loop # "closed"
    <3>1. /\ fut[c] = "none" /\ fut' = [fut EXCEPT ![c] = "waiting"]
          /\ tx' = [tx EXCEPT ![c] = "ensure_future"] /\ UNCHANGED <<py, loop>>
      BY <1>1, <2>2 DEF IntoFutureWithLocals
    <3>2. \A d \in Call \ {c} : tx'[d] = tx[d] /\ py'[d] = py[d]
      BY <1>t, <3>1 DEF TypeOK
    <3>3. answer' = [answer EXCEPT ![c] = answer'[c]]
      BY <1>t, <3>2, AnswerUpdate
    <3>4. answer'[c] = "pending"
      BY <1>t, <3>1 DEF AnswerOf, TypeOK
    <3> QED BY <2>2, <3>1, <3>3, <3>4 DEF open, Promise!Ask
  <2> QED BY <2>1, <2>2
<1>2. ASSUME NEW c \in Call, AwaitRx(c)
      PROVE  Promise!Resolve(c)
  <2>1. CASE tx[c] = "sent" /\ fut' = [fut EXCEPT ![c] = py[c]]
    <3>1. answer[c] = py[c] /\ py[c] \in Result
      BY <2>1 DEF AnswerOf
    <3> QED BY <1>2, <1>k, <2>1, <3>1 DEF AwaitRx, open, Result, Promise!Resolve
  <2>2. CASE tx[c] = "dropped" /\ fut' = [fut EXCEPT ![c] = "cancelled"]
    <3>1. answer[c] = "lost"
      BY <2>2 DEF AnswerOf
    <3> QED BY <1>2, <1>k, <2>2, <3>1 DEF AwaitRx, open, Promise!Resolve
  <2> QED BY <1>2, <2>1, <2>2 DEF AwaitRx
<1>3. ASSUME NEW c \in Call, DropFuture(c)
      PROVE  Promise!GiveUp(c)
  BY <1>3, <1>k DEF DropFuture, open, Promise!GiveUp
<1>4. ASSUME NEW c \in Call, UNCHANGED <<fut, loop>>,
             tx[c] \in {"ensure_future", "task_completer"}, tx'[c] # "none",
             \A d \in Call \ {c} : tx'[d] = tx[d] /\ py'[d] = py[d]
      PROVE  Promise!Settle(c) \/ UNCHANGED Promise!vars
  <2>1. answer' = [answer EXCEPT ![c] = answer'[c]]
    BY <1>t, <1>4, AnswerUpdate
  <2>2. answer[c] = "pending"
    BY <1>4 DEF AnswerOf
  <2>3. tx'[c] \in {"ensure_future", "task_completer", "sent", "dropped"}
    BY <1>t, <1>4 DEF TypeOK
  <2>4. answer'[c] = "pending" \/ answer'[c] \in Promise!Settled
    BY <2>3 DEF AnswerOf, Result
  <2>5. CASE answer'[c] = "pending"
    BY <1>t, <1>4, <2>1, <2>2, <2>5 DEF open
  <2>6. CASE answer'[c] \in Promise!Settled
    <3>1. \E a \in Promise!Settled : answer' = [answer EXCEPT ![c] = a]
      BY <2>1, <2>6
    <3> QED BY <1>4, <2>2, <3>1 DEF open, Promise!Settle
  <2> QED BY <2>4, <2>5, <2>6
<1>5. ASSUME NEW c \in Call, TaskCollected(c) \/ TaskFinish(c)
      PROVE  Promise!Settle(c) \/ UNCHANGED Promise!vars
  <2>1. /\ py[c] = "running" /\ UNCHANGED <<fut, loop>>
        /\ tx' = tx \/ tx' = [tx EXCEPT ![c] = "dropped"]
        /\ \E r : py' = [py EXCEPT ![c] = r]
    BY <1>5 DEF TaskCollected, TaskFinish
  <2>2. tx[c] = "task_completer"
    BY <2>1 DEF IInv, SenderHeld
  <2> QED BY <1>4, <1>t, <2>1, <2>2 DEF TypeOK
<1>6. ASSUME NEW c \in Call, RunEnsureFuture(c)
      PROVE  Promise!Settle(c) \/ UNCHANGED Promise!vars
  <2>1. Queued(EnsureHandle(c))
    BY <1>6, Taken DEF RunEnsureFuture
  <2>2. tx[c] = "ensure_future"
    BY <2>1 DEF IInv, SenderHeld
  <2>3. /\ UNCHANGED <<fut, loop>>
        /\ \E e \in {"dropped", "task_completer"} : tx' = [tx EXCEPT ![c] = e]
        /\ \E r : py' = [py EXCEPT ![c] = r]
    BY <1>6 DEF RunEnsureFuture
  <2> QED BY <1>4, <1>t, <2>2, <2>3 DEF TypeOK
<1>7. ASSUME NEW c \in Call, RunTaskCompleter(c)
      PROVE  Promise!Settle(c) \/ UNCHANGED Promise!vars
  <2>1. Queued(CompleterHandle(c))
    BY <1>7, Taken DEF RunTaskCompleter
  <2>2. tx[c] = "task_completer"
    BY <2>1 DEF IInv, SenderHeld
  <2> QED BY <1>4, <1>7, <1>t, <2>2 DEF RunTaskCompleter, TypeOK
<1>8. CASE LoopClose
  <2> DEFINE lost == {c \in Call : Queued(EnsureHandle(c)) \/ Queued(CompleterHandle(c))}
  <2>1. /\ loop = "stopped" /\ loop' = "closed" /\ UNCHANGED <<fut, py>>
        /\ \A d \in Call : tx'[d] = IF d \in lost THEN "dropped" ELSE tx[d]
    BY <1>8 DEF LoopClose
  <2>2. \A c \in lost : tx[c] \in {"ensure_future", "task_completer"}
    BY DEF IInv, SenderHeld
  <2>3. lost \in SUBSET {c \in Call : answer[c] = "pending"}
    BY <2>2 DEF AnswerOf
  <2> HIDE DEF lost
  <2>4. ASSUME NEW d \in Call
        PROVE  answer'[d] = IF d \in lost THEN "lost" ELSE answer[d]
    <3>1. tx[d] \in {"none", "ensure_future", "task_completer", "sent", "dropped"}
      BY <1>t DEF TypeOK
    <3> QED BY <2>1, <3>1 DEF AnswerOf
  <2>5. answer' = [c \in Call |-> IF c \in lost THEN "lost" ELSE answer[c]]
    <3>1. answer' = [d \in Call |-> answer'[d]]
      BY DEF answer
    <3> QED BY <2>4, <3>1
  <2> QED BY <2>1, <2>3, <2>5 DEF open, Promise!Close
<1>9. CASE LoopStop \/ LoopRun \/ UNCHANGED vars
  <2>1. UNCHANGED <<fut, tx, py>> /\ (loop = "closed" <=> loop' = "closed")
    BY <1>9 DEF LoopStop, LoopRun, vars
  <2> QED BY <1>k, <2>1 DEF open
<1> QED
  BY <1>1, <1>2, <1>3, <1>5, <1>6, <1>7, <1>8, <1>9 DEF Next, RunHandle

\* The initial states map to initial states.
LEMMA InitImplements == Init => Promise!Init
BY DEF Init, Promise!Init, answer, open

\* For any set of calls: each has one answer that is settled once, and its
\* future resolves to it at most once.
THEOREM Refinement == Spec => ImplementsOneAnswer
<1>1. IInv /\ IInv' /\ AnswerOf /\ AnswerOf' /\ [Next]_vars => [Promise!Next]_(Promise!vars)
  BY StepImplements
<1> QED BY <1>1, InitImplements, AnswerFacts, Inductive, PTL DEF Spec, ImplementsOneAnswer, Promise!Spec
=============================================================================
