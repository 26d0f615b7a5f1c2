------------------------------ MODULE StreamV1 ------------------------------
(***************************************************************************)
(* into_stream_with_locals_v1: a Rust task asks an async generator for one *)
(* item at a time and sends the answers through a bounded                  *)
(* async_channel whose receiver is the Rust stream.                        *)
(*                                                                         *)
(* Each request is one conversion of module IntoFuture: call k is the k-th *)
(* __anext__(), and its answer fut[k] is the k-th item of the stream, Ok   *)
(* or Err.  Only StopAsyncIteration ends the task; any other exception is  *)
(* sent, and the task goes on.                                             *)
(***************************************************************************)
EXTENDS Naturals, Sequences, Functions

CONSTANTS
  N,             \* how many calls of __anext__ are modelled
  Capacity,      \* of the channel (1 in the code)
  RxMayDrop,     \* may the Rust stream be dropped before its end?
  LoopMayStop, LoopMayClose, MayBeRefused, MayCollect  \* of IntoFuture

ASSUME ParametersAssumption ==
  /\ N \in Nat
  /\ Capacity \in Nat \ {0}
  /\ RxMayDrop \in BOOLEAN
  /\ {LoopMayStop, LoopMayClose, MayBeRefused, MayCollect} \subseteq BOOLEAN

VARIABLES
  fut, tx, py, ready, loop,  \* the conversions, see IntoFuture
  stop,      \* the calls whose exception is StopAsyncIteration
  pc,        \* the Rust task: call, await, send or done
  next,      \* the number of the current request
  chan,      \* the channel
  rx,        \* the receiver: live, dropped or ended
  received   \* what the stream has yielded

callVars == <<fut, tx, py, ready, loop>>
vars == <<fut, tx, py, ready, loop, stop, pc, next, chan, rx, received>>

Request == 1..N
Conversion == INSTANCE IntoFuture WITH Call <- Request

TypeOK ==
  /\ Conversion!TypeOK
  /\ stop \subseteq Request
  /\ pc \in {"call", "await", "send", "done"}
  /\ next \in 1..(N + 1)
  /\ chan \in Seq(Request) /\ Len(chan) <= Capacity
  /\ rx \in {"live", "dropped", "ended"}
  /\ received \in Seq(Request)

Init ==
  /\ Conversion!Init
  /\ stop = {}
  /\ pc = "call"
  /\ next = 1
  /\ chan = <<>>
  /\ rx = "live"
  /\ received = <<>>

----------------------------------------------------------------------------
(* The Rust task.                                                          *)

\* gen.__anext__() and into_future_with_locals, either of which may raise.
CallAnext ==
  /\ pc = "call" /\ next <= N
  /\ \/ Conversion!IntoFutureWithLocals(next)
     \/ /\ fut' = [fut EXCEPT ![next] = "failed"]
        /\ UNCHANGED <<tx, py, ready, loop>>
  /\ pc' = IF fut'[next] = "failed" THEN "send" ELSE "await"
  /\ UNCHANGED <<stop, next, chan, rx, received>>

\* Mutants: an error is skipped; StopAsyncIteration is an error like others;
\* the task does not wait for the answer.
AwaitAnext_SkipsErrors ==
  /\ pc = "await"
  /\ Conversion!AwaitRx(next)
  /\ IF fut'[next] = "err" /\ next \notin stop
     THEN pc' = "call" /\ next' = next + 1
     ELSE pc' = (IF fut'[next] = "err" THEN "done" ELSE "send") /\ UNCHANGED next
  /\ UNCHANGED <<stop, chan, rx, received>>

AwaitAnext_StopIsError ==
  /\ pc = "await"
  /\ Conversion!AwaitRx(next)
  /\ pc' = "send"
  /\ UNCHANGED <<stop, next, chan, rx, received>>

AwaitAnext_GivesUp ==
  /\ pc = "await"
  /\ fut' = [fut EXCEPT ![next] = "cancelled"]
  /\ pc' = "send"
  /\ UNCHANGED <<tx, py, ready, loop, stop, next, chan, rx, received>>

\* fut.await: StopAsyncIteration ends the loop and drops the sender.
AwaitAnext ==
  /\ pc = "await"
  /\ Conversion!AwaitRx(next)
  /\ pc' = IF fut'[next] = "err" /\ next \in stop THEN "done" ELSE "send"
  /\ UNCHANGED <<stop, next, chan, rx, received>>

\* Mutants: a full channel does not make the task wait; a dropped receiver does
\* not make it stop.
SendItem_NoWait ==
  /\ pc = "send"
  /\ pc' = "call" /\ next' = next + 1
  /\ chan' = Append(chan, next)
  /\ UNCHANGED <<callVars, stop, rx, received>>

SendItem_NeverFails ==
  /\ pc = "send"
  /\ rx = "live" /\ Len(chan) < Capacity
  /\ pc' = "call" /\ next' = next + 1
  /\ chan' = Append(chan, next)
  /\ UNCHANGED <<callVars, stop, rx, received>>

\* tx.send(item).await: waits for space, fails once the receiver is dropped.
SendItem ==
  /\ pc = "send"
  /\ \/ /\ rx = "live" /\ Len(chan) < Capacity
        /\ chan' = Append(chan, next)
        /\ pc' = "call" /\ next' = next + 1
     \/ /\ rx = "dropped"
        /\ pc' = "done"
        /\ UNCHANGED <<chan, next>>
  /\ UNCHANGED <<callVars, stop, rx, received>>

----------------------------------------------------------------------------
(* Python: the event loop and the generator.                               *)

\* An exception that ends a call may be StopAsyncIteration.
Python ==
  /\ \/ \E k \in Request : Conversion!TaskFinish(k) \/ Conversion!TaskCollected(k)
     \/ Conversion!RunHandle
     \/ Conversion!LoopStop \/ Conversion!LoopRun \/ Conversion!LoopClose
  /\ stop' \in {stop, stop \cup {k \in Request : py'[k] = "err" /\ py[k] # "err"}}
  /\ UNCHANGED <<pc, next, chan, rx, received>>

RunHandle == Python /\ Conversion!RunHandle
LoopRun == Python /\ Conversion!LoopRun

----------------------------------------------------------------------------
(* The Rust stream.                                                        *)

Recv ==
  /\ rx = "live" /\ chan # <<>>
  /\ received' = Append(received, Head(chan))
  /\ chan' = Tail(chan)
  /\ UNCHANGED <<callVars, stop, pc, next, rx>>

\* The task has dropped the sender and the channel is drained.
RecvEnd ==
  /\ rx = "live" /\ chan = <<>> /\ pc = "done"
  /\ rx' = "ended"
  /\ UNCHANGED <<callVars, stop, pc, next, chan, received>>

RxDrop ==
  /\ RxMayDrop
  /\ rx = "live"
  /\ rx' = "dropped"
  /\ chan' = <<>>
  /\ UNCHANGED <<callVars, stop, pc, next, received>>

----------------------------------------------------------------------------
RustTask == CallAnext \/ AwaitAnext \/ SendItem

Next == RustTask \/ Python \/ Recv \/ RecvEnd \/ RxDrop

Spec == Init /\ [][Next]_vars

\* The runtime polls the task when it can go on, the Rust code that owns the
\* stream keeps reading it, a stopped loop is run again and runs what is ready.
\* Nothing is assumed of the generator.
Fairness ==
  /\ WF_vars(RustTask)
  /\ WF_vars(Recv \/ RecvEnd)
  /\ WF_vars(LoopRun)
  /\ SF_vars(RunHandle)

FairSpec == Spec /\ Fairness

----------------------------------------------------------------------------
(* Properties.                                                             *)

\* Every answer of the generator, an exception or a lost task included, is
\* sent once and in the order of the requests.
InOrder ==
  rx # "dropped" => received \o chan = [k \in 1..(next - 1) |-> k]

\* The generator is never asked again before the Python task of the last
\* request has ended (asyncio raises RuntimeError for two __anext__ at once),
\* whatever happens to the loop or to the task.
OneRequest == \A k \in Request :
  tx[k] = "ensure_future" \/ py[k] = "running" => k = next /\ pc = "await"

\* What the request was answered with, if it was.
Given == Conversion!Result \cup {"failed"}
AnswerOf(k) ==
  IF fut[k] \notin Given THEN "none"
  ELSE IF fut[k] = "err" /\ k \in stop THEN "stop" ELSE fut[k]

\* The stream is an ordered stream: it yields the answers of the generator as
\* they were given, StopAsyncIteration ends it and is no item, and however slow
\* the reader is the generator is asked for what fits in the channel and one
\* item more; so it is when the reader is gone.
Promise == INSTANCE OrderedStream
  WITH Item <- Given, Ahead <- Capacity + 1,
       answer <- [k \in Request |-> AnswerOf(k)],
       out <- [i \in DOMAIN received |-> fut[received[i]]]
ImplementsStream == Promise!Spec

\* A generator that is exhausted ends the stream.
ExhaustedEnds == \A k \in Request :
  k \in stop /\ tx[k] = "sent" ~> rx # "live"

\* A task that waits for space in the channel ends when the stream is dropped.
DropReleasesTask == rx = "dropped" /\ pc = "send" ~> pc = "done"
=============================================================================
