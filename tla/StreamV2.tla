------------------------------ MODULE StreamV2 ------------------------------
(***************************************************************************)
(* into_stream_with_locals_v2: an async generator feeds a bounded          *)
(* futures::channel::mpsc channel whose receiver is the Rust stream.       *)
(*                                                                         *)
(* The Python task `forward` offers each item to the sender of SenderGlue. *)
(* When the channel is full, GenericSender::send starts a Rust task that   *)
(* sends the item through a clone of the sender and returns the            *)
(* asyncio.Future of that task; `forward` tests it with                    *)
(* asyncio.iscoroutine, which no asyncio.Future passes, and goes on at     *)
(* once because a Future is truthy.                                        *)
(*                                                                         *)
(* The generator yields 1, 2, .., N.  Sender 0 is the one of SenderGlue,   *)
(* sender k > 0 the clone made for item k.                                 *)
(***************************************************************************)
EXTENDS Naturals, Sequences, Functions

CONSTANTS
  N,            \* how many items the generator yields
  Buffer,       \* the size mpsc::channel is given (10 in the code)
  GenMayRaise,  \* may the generator raise an exception?
  RxMayDrop     \* may the Rust stream be dropped before its end?

ASSUME ParametersAssumption ==
  /\ N \in Nat
  /\ Buffer \in Nat
  /\ GenMayRaise \in BOOLEAN
  /\ RxMayDrop \in BOOLEAN

VARIABLES
  forward,   \* the Python task: scheduled, running, closed or failed
  next,      \* the item the generator yields next
  task,      \* the Rust task of each item that found the channel full
  queue,     \* the messages in the channel
  parked,    \* the parked senders, in the order they will be unparked
  open,      \* is the channel open?
  rx,        \* the receiver: live, dropped or ended
  received   \* what the stream has yielded

vars == <<forward, next, task, queue, parked, open, rx, received>>

Item == 1..N
IsParked(s) == s \in Range(parked)

TypeOK ==
  /\ forward \in {"scheduled", "running", "closed", "failed"}
  /\ next \in 1..(N + 1)
  /\ task \in [Item -> {"none", "spawned", "flushing", "true", "false"}]
  /\ queue \in Seq(Item)
  /\ parked \in Seq(0..N)
  /\ open \in BOOLEAN
  /\ rx \in {"live", "dropped", "ended"}
  /\ received \in Seq(Item)

Init ==
  /\ forward = "scheduled"
  /\ next = 1
  /\ task = [k \in Item |-> "none"]
  /\ queue = <<>> /\ parked = <<>> /\ open = TRUE
  /\ rx = "live"
  /\ received = <<>>

----------------------------------------------------------------------------
(* futures::channel::mpsc, as far as the code relies on it.                *)

\* The messages in the order the Rust code sees them.
Sent == received \o queue

\* Mutant: the buffer is taken one too small.
Push_SmallBuffer(s, k) ==
  /\ queue' = Append(queue, k)
  /\ \/ parked' = parked /\ (Len(queue) < Buffer \/ parked # <<>>)
     \/ parked' = Append(parked, s) /\ Len(Sent) + 1 >= Buffer

\* do_send on an open channel: the message is queued in any case, and a sender
\* that finds the channel full is parked.  What it finds is a count that senders
\* raise before they queue and the receiver lowers after it has unparked a
\* sender, so it may be parked although there is room, but neither before Buffer
\* messages were sent nor, unless another sender is, left unparked beyond them.
Push(s, k) ==
  /\ queue' = Append(queue, k)
  /\ \/ parked' = parked /\ (Len(queue) < Buffer \/ parked # <<>>)
     \/ parked' = Append(parked, s) /\ Len(Sent) >= Buffer

\* The senders that remain when those of S are dropped.
SendersAfter(S) ==
  ((IF forward \in {"scheduled", "running"} THEN {0} ELSE {})
     \cup {k \in Item : task[k] \in {"spawned", "flushing"}}) \ S

\* Dropping the last sender closes the channel.
DropSender(s) == open' = (open /\ SendersAfter({s}) # {})

----------------------------------------------------------------------------
(* The Python task.                                                        *)

\* The event loop runs create_task(forward(gen, sender)).
StartForward ==
  /\ forward = "scheduled"
  /\ forward' = "running"
  /\ UNCHANGED <<next, task, queue, parked, open, rx, received>>

\* Mutant: an item is offered after the last one.
SendNow_OneMore ==
  /\ forward = "running" /\ next <= N + 1
  /\ ~IsParked(0) /\ open
  /\ Push(0, next)
  /\ next' = next + 1
  /\ UNCHANGED <<forward, task, open, rx, received>>

\* try_send accepts the item and returns True.
SendNow ==
  /\ forward = "running" /\ next <= N
  /\ ~IsParked(0) /\ open
  /\ Push(0, next)
  /\ next' = next + 1
  /\ UNCHANGED <<forward, task, open, rx, received>>

\* try_send finds the sender parked: the item goes to a Rust task.  The
\* asyncio.Future that is returned is no coroutine, so it is not awaited.
SendFull ==
  /\ forward = "running" /\ next <= N
  /\ IsParked(0)
  /\ task' = [task EXCEPT ![next] = "spawned"]
  /\ next' = next + 1
  /\ UNCHANGED <<forward, queue, parked, open, rx, received>>

\* sender.close() closes the channel; what is in it can still be received.
close == open' = FALSE

\* try_send finds the receiver gone and returns False: break, sender.close().
SendDisconnected ==
  /\ forward = "running" /\ next <= N
  /\ ~IsParked(0) /\ ~open
  /\ forward' = "closed"
  /\ close
  /\ next' = next + 1
  /\ UNCHANGED <<task, queue, parked, rx, received>>

\* SenderGlue::send, on the thread of the event loop.
send == SendNow \/ SendFull \/ SendDisconnected

\* The generator is exhausted.
ForwardEnds ==
  /\ forward = "running" /\ next = N + 1
  /\ forward' = "closed"
  /\ close
  /\ UNCHANGED <<next, task, queue, parked, rx, received>>

\* Mutant: the channel is closed as if the generator were exhausted.
ForwardRaises_Closes ==
  /\ GenMayRaise
  /\ forward = "running"
  /\ forward' = "failed"
  /\ close
  /\ UNCHANGED <<next, task, queue, parked, rx, received>>

\* The generator raises: forward ends before sender.close() and SenderGlue is
\* dropped.  Nobody awaits the task, so its exception is lost.
ForwardRaises ==
  /\ GenMayRaise
  /\ forward = "running"
  /\ forward' = "failed"
  /\ DropSender(0)
  /\ UNCHANGED <<next, task, queue, parked, rx, received>>

----------------------------------------------------------------------------
(* The Rust tasks.                                                         *)

\* First poll of the task of item k: the clone is new and unparked, so flush
\* returns at once, and send queues the item even if the channel is full.
TaskSend(k) ==
  /\ task[k] = "spawned"
  /\ open
  /\ Push(k, k)
  /\ \/ /\ parked' # parked
        /\ task' = [task EXCEPT ![k] = "flushing"]
        /\ UNCHANGED open
     \/ /\ parked' = parked
        /\ task' = [task EXCEPT ![k] = "true"]
        /\ DropSender(k)
  /\ UNCHANGED <<forward, next, rx, received>>

\* The same on a closed channel: send fails and the item is lost.
TaskDisconnected(k) ==
  /\ task[k] = "spawned"
  /\ ~open
  /\ task' = [task EXCEPT ![k] = "false"]
  /\ UNCHANGED <<forward, next, queue, parked, open, rx, received>>

\* Mutant: the clone of a finished task is kept.
TaskFlushed_Leaks(k) ==
  /\ task[k] = "flushing"
  /\ ~IsParked(k)
  /\ task' = [task EXCEPT ![k] = "true"]
  /\ UNCHANGED <<forward, next, queue, parked, open, rx, received>>

\* The receiver has unparked the clone: send returns and drops it.
TaskFlushed(k) ==
  /\ task[k] = "flushing"
  /\ ~IsParked(k)
  /\ task' = [task EXCEPT ![k] = "true"]
  /\ DropSender(k)
  /\ UNCHANGED <<forward, next, queue, parked, rx, received>>

----------------------------------------------------------------------------
(* The Rust stream.                                                        *)

\* Receiving a message unparks one sender.
Recv ==
  /\ rx = "live" /\ queue # <<>>
  /\ received' = Append(received, Head(queue))
  /\ queue' = Tail(queue)
  /\ parked' = IF parked = <<>> THEN parked ELSE Tail(parked)
  /\ UNCHANGED <<forward, next, task, open, rx>>

\* The channel is closed and drained.
RecvEnd ==
  /\ rx = "live" /\ queue = <<>> /\ ~open
  /\ rx' = "ended"
  /\ UNCHANGED <<forward, next, task, queue, parked, open, received>>

\* Dropping the stream closes the channel, unparks all and drains it.
RxDrop ==
  /\ RxMayDrop
  /\ rx = "live"
  /\ rx' = "dropped"
  /\ open' = FALSE
  /\ queue' = <<>> /\ parked' = <<>>
  /\ UNCHANGED <<forward, next, task, received>>

----------------------------------------------------------------------------
Next ==
  \/ StartForward \/ send
  \/ ForwardEnds \/ ForwardRaises
  \/ \E k \in Item : TaskSend(k) \/ TaskDisconnected(k) \/ TaskFlushed(k)
  \/ Recv \/ RecvEnd \/ RxDrop

Spec == Init /\ [][Next]_vars

\* The runtime polls the tasks that are ready and the Rust code that owns the
\* stream keeps reading it.  Nothing is assumed of the generator.
Fairness ==
  /\ \A k \in Item : WF_vars(TaskSend(k) \/ TaskDisconnected(k) \/ TaskFlushed(k))
  /\ WF_vars(Recv \/ RecvEnd)

FairSpec == Spec /\ Fairness

----------------------------------------------------------------------------
(* Properties.                                                             *)

\* The first items, as many as fit in the channel, arrive complete and in the
\* order of the generator (the tests of the repository send ten, which fit).
FirstItemsExact ==
  rx # "dropped" =>
    \A i \in 1..(next - 1) : i <= Buffer + 1 => i \in DOMAIN Sent /\ Sent[i] = i

\* What the stream promises its reader, whatever the size of the channel: an
\* item is set aside when it finds the channel full and goes to a Rust task.
gen == IF forward \in {"scheduled", "running"} THEN "running" ELSE forward
aside == {k \in Item : task[k] # "none"}

Promise == INSTANCE ForwardedStream WITH First <- Buffer + 1, out <- received

\* The stream implements module ForwardedStream: no item is lost but one that
\* was with its Rust task when forward closed the channel or the reader left
\* (GenericSender::close), none is yielded twice, and only items beyond those
\* the channel holds are overtaken.
ImplementsForwardedStream == Promise!Spec

\* Once the Python task has ended, however it ended, the stream ends too.
StreamEnds == forward \in {"closed", "failed"} ~> rx # "live"

\* An item that found the channel full is sent and received and its Rust task
\* comes to its end, although nobody waits for it and even if the generator
\* raises: only the close of `forward`, or a reader that leaves, cuts it off
\* (GenericSender::send, the task it spawns).
AsideArrives ==
  \A k \in Item :
    task[k] = "spawned" ~>
      (task[k] = "true" /\ k \in Range(received)) \/ forward = "closed" \/ rx = "dropped"

\* The stream yields what the generator yields, in its order: this is what
\* the tests assert, assert_eq!((0..10).collect::<Vec<i32>>(), vals).
YieldsTheGenerator ==
  rx = "ended" /\ forward = "closed" => received = [k \in Item |-> k]

=============================================================================
