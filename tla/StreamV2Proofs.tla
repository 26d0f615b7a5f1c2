--------------------------- MODULE StreamV2Proofs ---------------------------
(***************************************************************************)
(* The safety of the v2 stream for any number of items and any size of the *)
(* channel: what is accounted for and what order is kept although the      *)
(* items that find the channel full overtake one another, wherever the     *)
(* channel parks a sender beyond its first messages.                       *)
(***************************************************************************)
EXTENDS StreamV2, QueueLemmas

\* The channel is open as long as the Python task may send and the stream is
\* not dropped, and nothing is sent to a stream that is.
OpenWhileForwarding ==
  /\ forward \in {"scheduled", "running"} /\ rx # "dropped" => open
  /\ rx = "dropped" => ~open

\* Only items beyond those the channel can hold find it full.
FullIsLate ==
  /\ \A k \in Item : task[k] # "none" => k < next /\ k > Buffer + 1
  /\ IsParked(0) => next > Buffer + 1

\* Until an item has found the channel full every item went straight into it.
NoneAside ==
  rx # "dropped" /\ (\A k \in Item : task[k] = "none") => Len(Sent) = next - 1

\* As long as the stream is not dropped, every item the generator has yielded
\* is received, in the channel or still with its Rust task, or its task has
\* found the channel closed; and no item is there twice.
Accounted ==
  /\ rx # "dropped" => \A k \in 1..(next - 1) :
       k \in Range(Sent) \/ task[k] \in {"spawned", "false"}
  /\ \A k \in Range(Sent) : k < next /\ task[k] \notin {"spawned", "false"}
  /\ IsInjective(Sent)

\* Only an item that found the channel full, and went to a Rust task, is ever
\* overtaken by a later one.
OnlyFullOvertaken ==
  \A i, j \in DOMAIN Sent : i < j /\ Sent[j] < Sent[i] => task[Sent[j]] # "none"

IInv ==
  /\ TypeOK
  /\ OpenWhileForwarding
  /\ FullIsLate
  /\ NoneAside
  /\ Accounted
  /\ FirstItemsExact
  /\ OnlyFullOvertaken

\* What has been sent is a sequence of items whatever is appended or received.
LEMMA SentFacts ==
  ASSUME TypeOK
  PROVE  /\ Sent \in Seq(Item)
         /\ Len(Sent) \in Nat /\ DOMAIN Sent = 1..Len(Sent)
         /\ \A i \in 1..Len(Sent) : Sent[i] \in Range(Sent) /\ Sent[i] \in Item
         /\ \A k \in Range(Sent) : \E i \in 1..Len(Sent) : Sent[i] = k
         /\ Item \subseteq Nat /\ next \in Nat /\ N \in Nat /\ Buffer \in Nat
<1>1. queue \in Seq(Item) /\ received \in Seq(Item) /\ parked \in Seq(0..N)
  BY DEF TypeOK
<1>2. /\ Sent \in Seq(Item) /\ Len(Sent) = Len(received) + Len(queue)
      /\ Len(received) \in Nat /\ Len(queue) \in Nat /\ Len(parked) \in Nat
  BY <1>1, ConcatProperties, LenProperties DEF Sent
<1>3. /\ Len(Sent) \in Nat /\ DOMAIN Sent = 1..Len(Sent)
      /\ \A i \in 1..Len(Sent) : Sent[i] \in Range(Sent) /\ Sent[i] \in Item
      /\ \A k \in Range(Sent) : \E i \in 1..Len(Sent) : Sent[i] = k
  BY <1>2, SequenceFacts
<1>4. Item \subseteq Nat /\ next \in Nat /\ N \in Nat /\ Buffer \in Nat
  BY ParametersAssumption DEF TypeOK, Item
<1> QED BY <1>2, <1>3, <1>4

\* Queueing an item appends it to what has been sent; the sender may be parked,
\* but only after as many messages as the buffer holds.
LEMMA PushFacts ==
  ASSUME TypeOK,
         NEW s \in 0..N, NEW k \in Item, Push(s, k), UNCHANGED received
  PROVE  /\ queue' \in Seq(Item) /\ parked' \in Seq(0..N)
         /\ Range(parked') \subseteq Range(parked) \cup {s}
         /\ parked' # parked => Len(Sent) >= Buffer
         /\ Sent' = Append(Sent, k)
         /\ Len(Sent') = Len(Sent) + 1
         /\ DOMAIN Sent' = 1..(Len(Sent) + 1)
         /\ \A i \in 1..Len(Sent) : Sent'[i] = Sent[i]
         /\ Sent'[Len(Sent) + 1] = k
         /\ Range(Sent') = Range(Sent) \cup {k}
         /\ IsInjective(Sent) /\ k \notin Range(Sent) => IsInjective(Sent')
<1>1. /\ queue \in Seq(Item) /\ received \in Seq(Item) /\ parked \in Seq(0..N)
      /\ Sent \in Seq(Item)
  BY SentFacts DEF TypeOK
<1>2. queue' = Append(queue, k) /\ queue' \in Seq(Item) /\ Len(queue') = Len(queue) + 1
  BY <1>1, AppendProperties DEF Push
<1>3. /\ parked' \in Seq(0..N)
      /\ Range(parked') \subseteq Range(parked) \cup {s}
      /\ parked' # parked => Len(Sent) >= Buffer
  <2> DEFINE Senders == 0..N
  <2>1. parked \in Seq(Senders) /\ s \in Senders
    BY <1>1
  <2> HIDE DEF Senders
  <2>2. /\ Append(parked, s) \in Seq(Senders)
        /\ Range(Append(parked, s)) = Range(parked) \cup {s}
    BY <2>1, AppendFacts
  <2> QED BY <2>1, <2>2 DEF Push, Senders
<1>4. Sent' = Append(Sent, k)
  BY <1>1, <1>2, ConcatAppend DEF Sent
<1>5. /\ Range(Append(Sent, k)) = Range(Sent) \cup {k}
      /\ IsInjective(Sent) /\ k \notin Range(Sent) => IsInjective(Append(Sent, k))
  BY <1>1, AppendFacts
<1>6. /\ Append(Sent, k) \in Seq(Item)
      /\ Len(Append(Sent, k)) = Len(Sent) + 1
      /\ \A i \in 1..Len(Sent) : Append(Sent, k)[i] = Sent[i]
      /\ Append(Sent, k)[Len(Sent) + 1] = k
  BY <1>1, AppendProperties
<1>7. DOMAIN Append(Sent, k) = 1..(Len(Sent) + 1)
  BY <1>6, LenProperties
<1> QED BY <1>2, <1>3, <1>4, <1>5, <1>6, <1>7

\* At the start nothing was yielded.
LEMMA InitIInv == Init => IInv
<1> SUFFICES ASSUME Init PROVE IInv
  OBVIOUS
<1>1. /\ queue = <<>> /\ parked = <<>> /\ received = <<>>
      /\ next = 1 /\ N \in Nat /\ Buffer \in Nat
  BY ParametersAssumption DEF Init
<1>2. TypeOK
  BY <1>1, EmptySeq DEF Init, TypeOK
<1>3. Sent = <<>> /\ Len(Sent) = 0 /\ Len(queue) = 0 /\ Len(parked) = 0
  BY <1>1, ConcatEmptySeq, EmptySeq DEF Sent
<1>4. DOMAIN Sent = {} /\ Range(Sent) = {} /\ Range(parked) = {}
  BY <1>1, <1>3 DEF Range
<1>5. OpenWhileForwarding
  BY <1>1, <1>3 DEF Init, OpenWhileForwarding
<1>6. FullIsLate /\ NoneAside
  BY <1>1, <1>3, <1>4 DEF Init, FullIsLate, NoneAside, IsParked
<1>7. Accounted /\ FirstItemsExact /\ OnlyFullOvertaken
  BY <1>1, <1>4 DEF Accounted, FirstItemsExact, OnlyFullOvertaken, IsInjective
<1> QED BY <1>2, <1>5, <1>6, <1>7 DEF IInv

\* A step that moves no item, and neither drops the stream nor reopens the
\* channel, keeps the invariant.
LEMMA QuietStepIInv ==
  ASSUME IInv, TypeOK', OpenWhileForwarding',
         UNCHANGED <<next, task, queue, parked, received>>,
         rx' = "dropped" <=> rx = "dropped"
  PROVE  IInv'
<1>1. Sent' = Sent
  BY DEF Sent
<1>2. FullIsLate' /\ NoneAside'
  BY <1>1 DEF IInv, FullIsLate, NoneAside, IsParked
<1>3. Accounted' /\ FirstItemsExact' /\ OnlyFullOvertaken'
  BY <1>1 DEF IInv, Accounted, FirstItemsExact, OnlyFullOvertaken
<1> QED BY <1>2, <1>3 DEF IInv

\* The Python task starts and ends, and the stream ends.
LEMMA QuietIInv ==
  ASSUME IInv, StartForward \/ ForwardEnds \/ ForwardRaises \/ RecvEnd
  PROVE  IInv'
<1> USE DEF IInv
<1>1. TypeOK' /\ OpenWhileForwarding'
  <2>1. CASE StartForward
    BY <2>1 DEF StartForward, TypeOK, OpenWhileForwarding
  <2>2. CASE ForwardEnds
    BY <2>2 DEF ForwardEnds, close, TypeOK, OpenWhileForwarding
  <2>3. CASE ForwardRaises
    <3>1. open' \in BOOLEAN /\ (~open => ~open')
      BY <2>3, Zenon DEF ForwardRaises, DropSender, TypeOK
    <3> QED BY <2>3, <3>1 DEF ForwardRaises, TypeOK, OpenWhileForwarding
  <2>4. CASE RecvEnd
    BY <2>4 DEF RecvEnd, TypeOK, OpenWhileForwarding
  <2> QED BY <2>1, <2>2, <2>3, <2>4
<1>2. UNCHANGED <<next, task, queue, parked, received>> /\ (rx' = "dropped" <=> rx = "dropped")
  BY DEF StartForward, ForwardEnds, ForwardRaises, RecvEnd
<1> QED BY <1>1, <1>2, QuietStepIInv

\* An item that finds space is the latest of all, and if it is among the first
\* it is exactly where it belongs.
LEMMA SendNowIInv ==
  ASSUME IInv, SendNow
  PROVE  IInv'
<1> USE DEF IInv
<1>1. /\ next \in Item /\ next \in Nat /\ next' = next + 1 /\ Push(0, next)
      /\ UNCHANGED <<task, received, rx, forward, open>>
      /\ Buffer \in Nat /\ N \in Nat /\ 0 \in 0..N /\ rx # "dropped"
  BY SentFacts DEF SendNow, TypeOK, Item, OpenWhileForwarding
<1>2. task[next] = "none"
  BY <1>1 DEF FullIsLate
<1>3. next \notin Range(Sent)
  BY <1>1 DEF Accounted
<1>4. TypeOK'
  BY <1>1, PushFacts DEF SendNow, TypeOK, Item
<1>5. OpenWhileForwarding'
  BY <1>1, PushFacts DEF OpenWhileForwarding
<1>6. NoneAside'
  BY <1>1, PushFacts, SentFacts DEF NoneAside
<1>7. FullIsLate'
  <2>1. ASSUME NEW k \in Item, task'[k] # "none"
        PROVE  k < next' /\ k > Buffer + 1
    BY <1>1, <2>1, SentFacts DEF FullIsLate
  <2>2. ASSUME IsParked(0)' PROVE next' > Buffer + 1
    <3>1. CASE IsParked(0)
      BY <1>1, <3>1 DEF FullIsLate
    <3>2. CASE \E k \in Item : task[k] # "none"
      BY <1>1, <3>2, SentFacts DEF FullIsLate
    <3>3. CASE ~IsParked(0) /\ \A k \in Item : task[k] = "none"
      <4>1. parked' # parked
        BY <2>2, <3>3 DEF IsParked
      <4>2. Len(Sent) >= Buffer
        BY <1>1, <4>1, PushFacts
      <4>3. Len(Sent) = next - 1
        BY <1>1, <3>3 DEF NoneAside
      <4> QED BY <1>1, <4>2, <4>3, SentFacts
    <3> QED BY <3>1, <3>2, <3>3
  <2> QED BY <2>1, <2>2 DEF FullIsLate
<1>8. Accounted'
  <2>1. IsInjective(Sent') /\ Range(Sent') = Range(Sent) \cup {next}
    BY <1>1, <1>3, PushFacts DEF Accounted
  <2>2. ASSUME NEW k \in 1..(next' - 1)
        PROVE  k \in Range(Sent') \/ task'[k] \in {"spawned", "false"}
    <3>1. k = next \/ k \in 1..(next - 1)
      BY <1>1
    <3> QED BY <1>1, <2>1, <3>1 DEF Accounted
  <2>3. ASSUME NEW k \in Range(Sent')
        PROVE  k < next' /\ task'[k] \notin {"spawned", "false"}
    <3>1. CASE k = next
      BY <1>1, <1>2, <3>1
    <3>2. CASE k \in Range(Sent)
      <4>1. k \in Nat
        BY <3>2, SentFacts
      <4> QED BY <1>1, <3>2, <4>1 DEF Accounted
    <3> QED BY <2>1, <3>1, <3>2
  <2> QED BY <2>1, <2>2, <2>3 DEF Accounted
<1>9. FirstItemsExact'
  <2> SUFFICES ASSUME NEW i \in 1..(next' - 1), i <= Buffer + 1
               PROVE  i \in DOMAIN Sent' /\ Sent'[i] = i
    BY DEF FirstItemsExact
  <2>1. CASE i \in 1..(next - 1)
    <3>1. i \in DOMAIN Sent /\ Sent[i] = i
      BY <1>1, <2>1 DEF FirstItemsExact
    <3> QED BY <1>1, <3>1, PushFacts, SentFacts
  <2>2. CASE i = next
    <3>1. \A k \in Item : task[k] = "none"
      BY <1>1, <2>2, SentFacts DEF FullIsLate
    <3>2. Len(Sent) = next - 1
      BY <1>1, <3>1 DEF NoneAside
    <3> QED BY <1>1, <2>2, <3>2, PushFacts, SentFacts
  <2> QED BY <1>1, <2>1, <2>2
<1>10. OnlyFullOvertaken'
  <2> SUFFICES ASSUME NEW i \in DOMAIN Sent', NEW j \in DOMAIN Sent',
                      i < j, Sent'[j] < Sent'[i]
               PROVE  task'[Sent'[j]] # "none"
    BY DEF OnlyFullOvertaken
  <2>1. i \in 1..Len(Sent) /\ (j \in 1..Len(Sent) \/ j = Len(Sent) + 1)
    BY <1>1, PushFacts, SentFacts
  <2>2. Sent'[i] = Sent[i] /\ Sent[i] \in Nat /\ Sent[i] < next
    BY <1>1, <2>1, PushFacts, SentFacts DEF Accounted
  <2>3. j \in 1..Len(Sent)
    BY <1>1, <2>1, <2>2, PushFacts
  <2> QED BY <1>1, <2>1, <2>2, <2>3, PushFacts, SentFacts DEF OnlyFullOvertaken
<1> QED BY <1>4, <1>5, <1>6, <1>7, <1>8, <1>9, <1>10

\* An item that finds its sender parked comes after those the channel holds.
LEMMA SendFullIInv ==
  ASSUME IInv, SendFull
  PROVE  IInv'
<1> USE DEF IInv
<1>1. /\ next \in Item /\ next \in Nat /\ next' = next + 1
      /\ task' = [task EXCEPT ![next] = "spawned"]
      /\ UNCHANGED <<forward, queue, parked, open, rx, received>>
      /\ Buffer \in Nat /\ N \in Nat /\ next > Buffer + 1 /\ Sent' = Sent
  BY SentFacts DEF SendFull, TypeOK, Item, FullIsLate, Sent
<1>2. task'[next] = "spawned" /\ \A k \in Item : k # next => task'[k] = task[k]
  BY <1>1 DEF TypeOK
<1>3. TypeOK' /\ OpenWhileForwarding'
  BY <1>1 DEF TypeOK, Item, OpenWhileForwarding
<1>4. FullIsLate' /\ NoneAside'
  <2>1. ASSUME NEW k \in Item, task'[k] # "none"
        PROVE  k < next' /\ k > Buffer + 1
    <3>1. k \in Nat
      BY SentFacts
    <3>2. CASE k = next
      BY <1>1, <3>2
    <3>3. CASE k # next
      BY <1>1, <1>2, <2>1, <3>1, <3>3 DEF FullIsLate
    <3> QED BY <3>2, <3>3
  <2>2. next' > Buffer + 1
    BY <1>1
  <2>3. NoneAside'
    BY <1>1, <1>2 DEF NoneAside
  <2> QED BY <2>1, <2>2, <2>3 DEF FullIsLate
<1>5. Accounted'
  <2>1. ASSUME NEW k \in 1..(next' - 1), rx' # "dropped"
        PROVE  k \in Range(Sent') \/ task'[k] \in {"spawned", "false"}
    <3>1. k = next \/ k \in 1..(next - 1)
      BY <1>1
    <3>2. k \in Item
      BY <1>1, <3>1, SentFacts DEF Item
    <3> QED BY <1>1, <1>2, <2>1, <3>1, <3>2 DEF Accounted
  <2>2. ASSUME NEW k \in Range(Sent')
        PROVE  k < next' /\ task'[k] \notin {"spawned", "false"}
    <3>1. k \in Range(Sent) /\ k \in Nat /\ k \in Item /\ k < next
      BY <1>1, SentFacts DEF Accounted
    <3> QED BY <1>1, <1>2, <3>1 DEF Accounted
  <2> QED BY <1>1, <2>1, <2>2 DEF Accounted
<1>6. FirstItemsExact'
  <2> SUFFICES ASSUME rx # "dropped", NEW i \in 1..(next' - 1), i <= Buffer + 1
               PROVE  i \in DOMAIN Sent /\ Sent[i] = i
    BY <1>1 DEF FirstItemsExact
  <2>1. i \in 1..(next - 1)
    BY <1>1
  <2> QED BY <2>1 DEF FirstItemsExact
<1>7. OnlyFullOvertaken'
  BY <1>1, <1>2, SentFacts DEF OnlyFullOvertaken
<1> QED BY <1>3, <1>4, <1>5, <1>6, <1>7

\* try_send reports a channel that is closed only when the stream is dropped.
LEMMA SendDisconnectedIInv ==
  ASSUME IInv, SendDisconnected
  PROVE  IInv'
<1> USE DEF IInv
<1>1. /\ next \in Nat /\ next' = next + 1 /\ rx = "dropped" /\ ~open'
      /\ UNCHANGED <<task, queue, parked, rx, received>>
      /\ Buffer \in Nat /\ Sent' = Sent
  BY SentFacts DEF SendDisconnected, close, OpenWhileForwarding, Sent
<1>2. TypeOK' /\ OpenWhileForwarding'
  <2>1. next' \in 1..(N + 1)
    BY <1>1, SentFacts DEF SendDisconnected
  <2>2. forward' \in {"scheduled", "running", "closed", "failed"} /\ open' \in BOOLEAN
    BY DEF SendDisconnected, close
  <2>3. TypeOK'
    BY <1>1, <2>1, <2>2 DEF TypeOK
  <2> QED BY <1>1, <2>3 DEF OpenWhileForwarding
<1>3. FullIsLate' /\ NoneAside'
  BY <1>1, SentFacts DEF FullIsLate, IsParked, NoneAside
<1>4. Accounted'
  BY <1>1, SentFacts DEF Accounted
<1>5. FirstItemsExact' /\ OnlyFullOvertaken'
  BY <1>1 DEF FirstItemsExact, OnlyFullOvertaken
<1> QED BY <1>2, <1>3, <1>4, <1>5

\* The item of a Rust task is overtaken, never lost or sent twice.
LEMMA TaskSendIInv ==
  ASSUME IInv, NEW k \in Item, TaskSend(k)
  PROVE  IInv'
<1> USE DEF IInv
<1>1. /\ Push(k, k) /\ k \in 0..N /\ k # 0 /\ rx # "dropped" /\ open
      /\ UNCHANGED <<forward, next, rx, received>>
      /\ Buffer \in Nat /\ next \in Nat /\ task[k] = "spawned"
  BY SentFacts DEF TaskSend, OpenWhileForwarding, Item
<1>2. /\ task' \in [Item -> {"none", "spawned", "flushing", "true", "false"}]
      /\ task'[k] \in {"flushing", "true"}
      /\ \A j \in Item : j # k => task'[j] = task[j]
  BY DEF TaskSend, TypeOK
<1>3. k < next /\ k > Buffer + 1 /\ k \notin Range(Sent)
  BY <1>1 DEF FullIsLate, Accounted
<1>4. open' \in BOOLEAN /\ (forward \in {"scheduled", "running"} => open')
  <2>1. CASE open' = open
    BY <1>1, <2>1
  <2>2. CASE DropSender(k)
    <3>1. forward \in {"scheduled", "running"} => 0 \in SendersAfter({k})
      BY <1>1 DEF SendersAfter
    <3> QED BY <1>1, <2>2, <3>1, Zenon DEF DropSender
  <2> QED BY <2>1, <2>2 DEF TaskSend
<1>5. TypeOK'
  BY <1>1, <1>2, <1>4, PushFacts DEF TypeOK
<1>6. OpenWhileForwarding'
  BY <1>1, <1>4, PushFacts DEF OpenWhileForwarding
<1>7. FullIsLate' /\ NoneAside'
  BY <1>1, <1>2, <1>3, PushFacts DEF FullIsLate, IsParked, NoneAside
<1>8. Accounted'
  <2>1. IsInjective(Sent') /\ Range(Sent') = Range(Sent) \cup {k}
    BY <1>1, <1>3, PushFacts DEF Accounted
  <2>2. ASSUME NEW j \in 1..(next - 1)
        PROVE  j \in Range(Sent') \/ task'[j] \in {"spawned", "false"}
    <3>1. j \in Item
      BY SentFacts DEF TypeOK, Item
    <3> QED BY <1>1, <1>2, <2>1, <3>1 DEF Accounted
  <2>3. ASSUME NEW j \in Range(Sent')
        PROVE  j < next /\ task'[j] \notin {"spawned", "false"}
    <3>1. CASE j = k
      BY <1>2, <1>3, <3>1
    <3>2. CASE j \in Range(Sent)
      <4>1. j \in Item /\ j # k /\ j < next /\ task[j] \notin {"spawned", "false"}
        BY <1>3, <3>2, SentFacts DEF Accounted
      <4> QED BY <1>2, <4>1
    <3> QED BY <2>1, <2>3, <3>1, <3>2
  <2> QED BY <1>1, <2>1, <2>2, <2>3 DEF Accounted
<1>9. FirstItemsExact'
  BY <1>1, PushFacts, SentFacts DEF FirstItemsExact
<1>10. OnlyFullOvertaken'
  <2> SUFFICES ASSUME NEW i \in DOMAIN Sent', NEW j \in DOMAIN Sent',
                      i < j, Sent'[j] < Sent'[i]
               PROVE  task'[Sent'[j]] # "none"
    BY DEF OnlyFullOvertaken
  <2>1. i \in 1..Len(Sent) /\ (j \in 1..Len(Sent) \/ j = Len(Sent) + 1)
    BY <1>1, PushFacts, SentFacts
  <2>2. CASE j = Len(Sent) + 1
    BY <1>1, <1>2, <2>2, PushFacts
  <2>3. CASE j \in 1..Len(Sent)
    <3>1. Sent'[i] = Sent[i] /\ Sent'[j] = Sent[j] /\ Sent[j] \in Item
      BY <1>1, <2>1, <2>3, PushFacts, SentFacts
    <3>2. task[Sent[j]] # "none"
      BY <2>1, <2>3, <3>1, SentFacts DEF OnlyFullOvertaken
    <3> QED BY <1>2, <3>1, <3>2
  <2> QED BY <2>1, <2>2, <2>3
<1> QED BY <1>5, <1>6, <1>7, <1>8, <1>9, <1>10

\* A Rust task ends with the channel closed, or with its sender unparked.
LEMMA TaskEndIInv ==
  ASSUME IInv, NEW k \in Item, TaskDisconnected(k) \/ TaskFlushed(k)
  PROVE  IInv'
<1> USE DEF IInv
<1>1. /\ UNCHANGED <<forward, next, queue, parked, rx, received>> /\ Sent' = Sent
      /\ task' \in [Item -> {"none", "spawned", "flushing", "true", "false"}]
      /\ task'[k] # "none" /\ task[k] # "none"
      /\ \A j \in Item : j # k => task'[j] = task[j]
      /\ task[k] = "spawned" => task'[k] = "false"
      /\ task[k] # "spawned" => task'[k] = "true" /\ task[k] = "flushing"
  BY DEF TaskDisconnected, TaskFlushed, TypeOK, Sent
<1>2. /\ open' \in BOOLEAN /\ (~open => ~open')
      /\ forward \in {"scheduled", "running"} /\ open => open'
  <2>1. CASE open' = open
    BY <2>1 DEF TypeOK
  <2>2. CASE DropSender(k)
    <3>1. forward \in {"scheduled", "running"} => 0 \in SendersAfter({k})
      BY SentFacts DEF SendersAfter, Item
    <3>2. open \in BOOLEAN
      BY DEF TypeOK
    <3> QED BY <2>2, <3>1, <3>2, Zenon DEF DropSender
  <2> QED BY <2>1, <2>2 DEF TaskDisconnected, TaskFlushed
<1>3. TypeOK'
  BY <1>1, <1>2 DEF TypeOK
<1>4. OpenWhileForwarding'
  BY <1>1, <1>2 DEF OpenWhileForwarding
<1>5. FullIsLate' /\ NoneAside'
  BY <1>1 DEF FullIsLate, IsParked, NoneAside
<1>6. Accounted'
  <2>1. ASSUME NEW j \in 1..(next - 1), rx # "dropped"
        PROVE  j \in Range(Sent) \/ task'[j] \in {"spawned", "false"}
    <3>1. j \in Item
      BY SentFacts DEF TypeOK, Item
    <3> QED BY <1>1, <2>1, <3>1 DEF Accounted
  <2>2. ASSUME NEW j \in Range(Sent)
        PROVE  j < next /\ task'[j] \notin {"spawned", "false"}
    BY <1>1, <2>2, SentFacts DEF Accounted
  <2> QED BY <1>1, <2>1, <2>2 DEF Accounted
<1>7. FirstItemsExact' /\ OnlyFullOvertaken'
  BY <1>1, SentFacts DEF FirstItemsExact, OnlyFullOvertaken
<1> QED BY <1>3, <1>4, <1>5, <1>6, <1>7

\* Receiving a message leaves what has been sent as it is.
LEMMA RecvIInv ==
  ASSUME IInv, Recv
  PROVE  IInv'
<1> USE DEF IInv
<1>1. /\ UNCHANGED <<forward, next, task, open, rx>>
      /\ queue \in Seq(Item) /\ queue # <<>> /\ received \in Seq(Item)
      /\ queue' = Tail(queue) /\ received' = Append(received, Head(queue))
  BY DEF Recv, TypeOK
<1>2. /\ queue' \in Seq(Item) /\ Len(queue') = Len(queue) - 1 /\ Len(queue) \in Nat \ {0}
      /\ received' \in Seq(Item)
  BY <1>1, TailRange, HeadTailProperties, AppendProperties
<1>3. Sent' = Sent
  BY <1>1, ConcatShift DEF Sent
<1>4. /\ parked' \in Seq(0..N) /\ Range(parked') \subseteq Range(parked)
  <2> DEFINE Senders == 0..N
  <2>1. parked \in Seq(Senders)
    BY DEF TypeOK
  <2> HIDE DEF Senders
  <2>2. CASE parked = <<>>
    BY <2>1, <2>2 DEF Recv, Senders
  <2>3. CASE parked # <<>>
    <3>1. parked' = Tail(parked)
      BY <2>3 DEF Recv
    <3> QED BY <2>1, <2>3, <3>1, TailRange DEF Senders
  <2> QED BY <2>2, <2>3
<1>5. TypeOK'
  BY <1>1, <1>2, <1>4 DEF TypeOK
<1>6. OpenWhileForwarding' /\ FullIsLate' /\ NoneAside'
  BY <1>1, <1>3, <1>4 DEF OpenWhileForwarding, FullIsLate, IsParked, NoneAside
<1>7. Accounted' /\ FirstItemsExact' /\ OnlyFullOvertaken'
  BY <1>1, <1>3 DEF Accounted, FirstItemsExact, OnlyFullOvertaken
<1> QED BY <1>5, <1>6, <1>7

\* What a dropped stream has yielded was sent first.
LEMMA RxDropIInv ==
  ASSUME IInv, RxDrop
  PROVE  IInv'
<1> USE DEF IInv
<1>1. /\ UNCHANGED <<forward, next, task, received>>
      /\ rx' = "dropped" /\ open' = FALSE /\ queue' = <<>> /\ parked' = <<>>
      /\ queue \in Seq(Item) /\ received \in Seq(Item)
  BY DEF RxDrop, TypeOK
<1>2. /\ TypeOK' /\ OpenWhileForwarding' /\ NoneAside' /\ FirstItemsExact' /\ FullIsLate'
  <2>1. TypeOK'
    BY <1>1, EmptySeq DEF TypeOK
  <2>2. Range(parked') = {}
    BY <1>1, EmptySeq DEF Range
  <2>3. OpenWhileForwarding' /\ NoneAside' /\ FirstItemsExact'
    BY <1>1 DEF OpenWhileForwarding, NoneAside, FirstItemsExact
  <2>4. FullIsLate'
    BY <1>1, <2>2 DEF FullIsLate, IsParked
  <2> QED BY <2>1, <2>3, <2>4
<1>3. /\ Sent' = received /\ Len(received) \in Nat /\ Len(received) <= Len(Sent)
      /\ DOMAIN Sent' = 1..Len(received)
      /\ \A i \in 1..Len(received) : Sent'[i] = Sent[i]
      /\ \A i \in 1..Len(received) : i \in DOMAIN Sent
      /\ Range(Sent') \subseteq Range(Sent)
  <2>1. Sent' = received
    BY <1>1, ConcatEmptySeq DEF Sent
  <2>2. /\ Len(received) \in Nat /\ Len(queue) \in Nat
        /\ Len(Sent) = Len(received) + Len(queue)
        /\ DOMAIN received = 1..Len(received)
        /\ \A i \in 1..Len(received) : Sent[i] = received[i]
    BY <1>1, ConcatProperties, LenProperties DEF Sent
  <2>3. \A i \in 1..Len(received) : i \in DOMAIN Sent
    BY <2>2, SentFacts
  <2>4. Range(received) \subseteq Range(Sent)
    BY <2>2, <2>3 DEF Range
  <2> QED BY <2>1, <2>2, <2>3, <2>4
<1>4. Accounted'
  BY <1>1, <1>3 DEF Accounted, IsInjective
<1>5. OnlyFullOvertaken'
  BY <1>1, <1>3 DEF OnlyFullOvertaken
<1> QED BY <1>2, <1>4, <1>5

\* Every step of the stream preserves the invariant.
LEMMA NextIInv == IInv /\ [Next]_vars => IInv'
<1> SUFFICES ASSUME IInv, [Next]_vars PROVE IInv'
  OBVIOUS
<1>1. CASE UNCHANGED vars
  <2>1. TypeOK' /\ OpenWhileForwarding'
    BY <1>1 DEF vars, IInv, TypeOK, OpenWhileForwarding
  <2> QED BY <1>1, <2>1, QuietStepIInv DEF vars
<1>2. CASE Next
  BY <1>2, QuietIInv, SendNowIInv, SendFullIInv, SendDisconnectedIInv, TaskSendIInv,
     TaskEndIInv, RecvIInv, RxDropIInv DEF Next, send
<1> QED BY <1>1, <1>2

\* The invariant holds of every stream at all times.
THEOREM Inductive == Spec => []IInv
<1> QED BY InitIInv, NextIInv, PTL DEF Spec

\* The variables of the stream have the types the code gives them.
THEOREM TypeCorrect == Spec => []TypeOK
<1>1. IInv => TypeOK
  BY DEF IInv
<1> QED BY <1>1, Inductive, PTL

\* No item is lost between the generator and the stream unless the stream is
\* dropped or the channel is closed under its Rust task, and none is sent
\* twice, for any size of the channel: GenericSender::send and the tasks it
\* starts account for every item together.
THEOREM NothingLostOrTwice == Spec => []Accounted
<1>1. IInv => Accounted
  BY DEF IInv
<1> QED BY <1>1, Inductive, PTL

\* The first items, one more than the buffer holds, are yielded complete and in
\* order: the ten items of the repository's tests fit the ten places of the
\* code, whatever the tasks of later items do.
THEOREM FirstItems == Spec => []FirstItemsExact
<1>1. IInv => FirstItemsExact
  BY DEF IInv
<1> QED BY <1>1, Inductive, PTL

\* Only an item that went to a Rust task is ever overtaken by a later one.
THEOREM OvertakenOnlyAside == Spec => []OnlyFullOvertaken
<1>1. IInv => OnlyFullOvertaken
  BY DEF IInv
<1> QED BY <1>1, Inductive, PTL

----------------------------------------------------------------------------
(* What the stream promises its reader: module ForwardedStream.            *)

\* Only a generator that has ended by itself leaves an item to a closed
\* channel: one that raises leaves the channel to the Rust tasks that still
\* hold items, and the last of them closes it.
Kept == rx # "dropped" =>
  /\ \A k \in Item : task[k] = "false" => forward = "closed"
  /\ forward = "failed" /\ ~open => \A k \in Item : task[k] \notin {"spawned", "flushing"}

LEMMA InitKept == Init => Kept
BY DEF Init, Kept

\* Dropping a sender closes the channel only if no other is left.
LEMMA DropSenderFacts ==
  ASSUME TypeOK, NEW s \in 0..N, DropSender(s), ~open', open
  PROVE  \A k \in Item : k # s => task[k] \notin {"spawned", "flushing"}
<1>1. SendersAfter({s}) = {}
  BY Zenon DEF DropSender
<1> QED BY <1>1 DEF SendersAfter

LEMMA StepKept == IInv /\ Kept /\ [Next]_vars => Kept'
<1> SUFFICES ASSUME IInv, Kept, [Next]_vars, rx' # "dropped"
             PROVE  /\ \A k \in Item : task'[k] = "false" => forward' = "closed"
                    /\ forward' = "failed" /\ ~open' =>
                         \A k \in Item : task'[k] \notin {"spawned", "flushing"}
  BY DEF Kept
<1>1. rx # "dropped" /\ Item \subseteq 0..N /\ 0 \notin Item /\ 0 \in 0..N
  <2>1. rx # "dropped"
    BY DEF Next, vars, StartForward, send, SendNow, SendFull, SendDisconnected, ForwardEnds,
       ForwardRaises, TaskSend, TaskDisconnected, TaskFlushed, Recv, RecvEnd, RxDrop
  <2>2. N \in Nat
    BY ParametersAssumption
  <2> QED BY <2>1, <2>2 DEF Item
<1>2. /\ forward \in {"scheduled", "running"} => open
      /\ task \in [Item -> {"none", "spawned", "flushing", "true", "false"}]
      /\ TypeOK
  BY <1>1 DEF IInv, OpenWhileForwarding, TypeOK
<1>3. /\ \A k \in Item : task[k] = "false" => forward = "closed"
      /\ forward = "failed" /\ ~open => \A k \in Item : task[k] \notin {"spawned", "flushing"}
  BY <1>1 DEF Kept
<1>4. CASE UNCHANGED <<task, open>> /\ (forward' = forward \/ forward' \in {"running", "closed"})
  <2>1. CASE forward' = forward
    BY <1>3, <1>4, <2>1
  <2>2. CASE forward' = "closed"
    BY <1>3, <1>4, <2>2
  <2>3. CASE forward' = "running" /\ forward = "scheduled"
    BY <1>3, <1>4, <2>3
  <2>4. forward' = "running" => forward \in {"running", "scheduled"}
    BY DEF Next, vars, StartForward, send, SendNow, SendFull, SendDisconnected, ForwardEnds,
       ForwardRaises, TaskSend, TaskDisconnected, TaskFlushed, Recv, RecvEnd, RxDrop
  <2> QED BY <1>4, <2>1, <2>2, <2>3, <2>4
<1>5. CASE SendFull
  BY <1>2, <1>3, <1>5 DEF SendFull
<1>6. CASE ForwardEnds \/ SendDisconnected
  BY <1>3, <1>6 DEF ForwardEnds, SendDisconnected
<1>7. CASE ForwardRaises
  <2>1. /\ forward = "running" /\ forward' = "failed" /\ DropSender(0) /\ task' = task /\ open
    BY <1>2, <1>7 DEF ForwardRaises
  <2>2. ~open' => \A k \in Item : k # 0 => task[k] \notin {"spawned", "flushing"}
    BY <1>1, <1>2, <2>1, DropSenderFacts
  <2> QED BY <1>1, <1>3, <2>1, <2>2
<1>8. CASE \E k \in Item : TaskSend(k) \/ TaskFlushed(k)
  <2>1. PICK k \in Item : TaskSend(k) \/ TaskFlushed(k)
    BY <1>8
  <2>2. /\ task'[k] \in {"flushing", "true"} /\ \A j \in Item : j # k => task'[j] = task[j]
        /\ task[k] \in {"spawned", "flushing"} /\ forward' = forward
        /\ task'[k] = "true" => DropSender(k)
        /\ task'[k] = "flushing" => open' = open /\ open
    BY <1>2, <2>1 DEF TaskSend, TaskFlushed
  <2>3. forward = "failed" => open
    BY <1>3, <2>2
  <2>4. forward = "failed" /\ ~open' =>
          task'[k] = "true" /\ \A j \in Item : j # k => task[j] \notin {"spawned", "flushing"}
    BY <1>1, <1>2, <2>2, <2>3, DropSenderFacts
  <2> QED BY <1>3, <2>2, <2>4
<1>9. CASE \E k \in Item : TaskDisconnected(k)
  <2>1. PICK k \in Item : TaskDisconnected(k)
    BY <1>9
  <2>2. /\ task[k] = "spawned" /\ ~open /\ task' = [task EXCEPT ![k] = "false"]
        /\ UNCHANGED <<forward, open>>
    BY <2>1 DEF TaskDisconnected
  <2>3. forward = "closed"
    BY <1>2, <1>3, <2>2 DEF TypeOK
  <2> QED BY <1>2, <1>3, <2>2, <2>3
<1> QED
  BY <1>4, <1>5, <1>6, <1>7, <1>8, <1>9 DEF Next, vars, StartForward, send, SendNow,
     Recv, RecvEnd, RxDrop

\* The initial state of the stream is one of ForwardedStream.
LEMMA InitImplements == Init => Promise!Init
BY DEF Init, Promise!Init, gen, aside

\* The item the reader gets next has not been yielded before, and an earlier one
\* that has not either was set aside.
LEMMA HeadFacts ==
  ASSUME IInv, rx = "live", queue # <<>>
  PROVE  /\ Head(queue) \in Item /\ Head(queue) < next
         /\ Head(queue) \notin Range(received)
         /\ \A j \in 1..(Head(queue) - 1) : j \in Range(received) \cup aside
<1> DEFINE n == Len(received)
           k == Head(queue)
<1>1. /\ received \in Seq(Item) /\ queue \in Seq(Item) /\ n \in Nat
      /\ Len(queue) \in Nat \ {0} /\ k = queue[1] /\ k \in Item
      /\ DOMAIN received = 1..n
  BY EmptySeq, LenProperties, HeadTailProperties DEF IInv, TypeOK
<1>2. /\ Len(Sent) = n + Len(queue) /\ DOMAIN Sent = 1..Len(Sent)
      /\ \A i \in 1..n : Sent[i] = received[i]
      /\ Sent[n + 1] = k
  <2>1. /\ Sent \in Seq(Item) /\ Len(Sent) = n + Len(queue)
        /\ \A i \in 1..(n + Len(queue)) :
             Sent[i] = IF i <= n THEN received[i] ELSE queue[i - n]
    BY <1>1, ConcatProperties DEF Sent
  <2>2. n + 1 \in 1..(n + Len(queue)) /\ (n + 1) - n = 1 /\ ~(n + 1 <= n)
    BY <1>1
  <2>3. \A i \in 1..n : i \in 1..(n + Len(queue)) /\ i <= n
    BY <1>1
  <2> QED BY <1>1, <2>1, <2>2, <2>3, LenProperties
<1>3. n + 1 \in DOMAIN Sent /\ \A i \in 1..n : i \in DOMAIN Sent /\ i < n + 1
  BY <1>1, <1>2
<1> HIDE DEF n, k
<1>4. k < next
  BY <1>2, <1>3, SentFacts DEF IInv, Accounted, Range
<1>5. k \notin Range(received)
  <2> SUFFICES ASSUME NEW i \in 1..n, received[i] = k PROVE FALSE
    BY <1>1 DEF Range
  <2>1. Sent[i] = Sent[n + 1] /\ i # n + 1 /\ i \in DOMAIN Sent
    BY <1>1, <1>2, <1>3
  <2> QED BY <1>3, <2>1 DEF IInv, Accounted, IsInjective
<1>6. ASSUME NEW j \in 1..(k - 1), task[j] = "none"
      PROVE  j \in Range(received)
  <2>1. j \in 1..(next - 1) /\ j < k /\ j \in Item
    <3>1. k \in 1..N /\ next \in Nat /\ N \in Nat
      BY <1>1, SentFacts DEF IInv, Item
    <3> QED BY <1>4, <3>1 DEF Item
  <2>2. j \in Range(Sent)
    BY <1>6, <2>1 DEF IInv, Accounted
  <2>3. PICK i \in 1..Len(Sent) : Sent[i] = j
    BY <2>2, SentFacts DEF IInv
  <2>4. ~(n + 1 < i)
    BY <1>2, <1>3, <1>6, <2>1, <2>3 DEF IInv, OnlyFullOvertaken
  <2>5. i # n + 1
    <3>1. j # k
      BY <1>1, <2>1 DEF Item
    <3> QED BY <1>2, <2>3, <3>1
  <2>6. i \in 1..n
    BY <1>1, <2>3, <2>4, <2>5
  <2> QED BY <1>1, <1>2, <2>3, <2>6 DEF Range
<1>7. \A j \in 1..(k - 1) : j \in Item
  BY <1>1, SentFacts DEF IInv, Item
<1> QED BY <1>1, <1>4, <1>5, <1>6, <1>7 DEF aside, k

\* Every step of the stream is a step of ForwardedStream or changes nothing the
\* reader or the generator sees.
LEMMA StepImplements ==
  ASSUME IInv, Kept, [Next]_vars
  PROVE  [Promise!Next]_(Promise!vars)
<1>1. /\ Buffer \in Nat /\ N \in Nat /\ next \in 1..(N + 1) /\ next \in Nat
      /\ task \in [Item -> {"none", "spawned", "flushing", "true", "false"}]
      /\ forward \in {"scheduled", "running", "closed", "failed"}
  BY ParametersAssumption DEF IInv, TypeOK
<1>2. CASE UNCHANGED vars
  BY <1>2 DEF vars, Promise!vars, gen, aside
<1>3. CASE StartForward
  BY <1>3 DEF StartForward, Promise!vars, gen, aside
<1>4. CASE SendNow
  <2>1. gen = "running" /\ next <= N /\ next' = next + 1 /\ UNCHANGED <<gen, aside, received, rx>>
    BY <1>4 DEF SendNow, gen, aside
  <2> QED BY <2>1 DEF Promise!Next, Promise!Yield
<1>5. CASE SendFull
  <2>1. /\ gen = "running" /\ next <= N /\ next' = next + 1
        /\ UNCHANGED <<gen, received, rx>>
        /\ task' = [task EXCEPT ![next] = "spawned"] /\ next \in Item
    BY <1>1, <1>5 DEF SendFull, gen, Item
  <2>2. next > Buffer + 1
    BY <1>5 DEF SendFull, IInv, FullIsLate
  <2>3. aside' = aside \cup {next}
    BY <1>1, <2>1 DEF aside
  <2> QED BY <2>1, <2>2, <2>3 DEF Promise!Next, Promise!Yield
<1>6. CASE SendDisconnected
  <2>1. /\ gen = "running" /\ gen' = "closed" /\ next <= N /\ next' = next + 1
        /\ UNCHANGED <<aside, received, rx>>
    BY <1>6 DEF SendDisconnected, gen, aside
  <2>2. rx = "dropped"
    BY <1>6 DEF SendDisconnected, IInv, OpenWhileForwarding
  <2> QED BY <2>1, <2>2 DEF Promise!Next, Promise!Abandon
<1>7. CASE ForwardEnds
  BY <1>7 DEF ForwardEnds, gen, aside, Promise!Next, Promise!Exhausted
<1>8. CASE ForwardRaises
  BY <1>8 DEF ForwardRaises, gen, aside, Promise!Next, Promise!Raise
<1>9. CASE \E k \in Item : TaskSend(k) \/ TaskDisconnected(k) \/ TaskFlushed(k)
  <2>1. PICK k \in Item : TaskSend(k) \/ TaskDisconnected(k) \/ TaskFlushed(k)
    BY <1>9
  <2>2. /\ task[k] # "none" /\ task'[k] # "none"
        /\ \A j \in Item : j # k => task'[j] = task[j]
        /\ UNCHANGED <<forward, next, received, rx>>
    BY <1>1, <2>1 DEF TaskSend, TaskDisconnected, TaskFlushed
  <2>3. aside' = aside /\ gen' = gen
    BY <2>2 DEF aside, gen
  <2> QED BY <2>2, <2>3 DEF Promise!vars
<1>10. CASE Recv
  <2>1. /\ rx = "live" /\ queue # <<>> /\ received' = Append(received, Head(queue))
        /\ UNCHANGED <<gen, next, aside, rx>>
    BY <1>10 DEF Recv, gen, aside
  <2>2. Promise!Deliver(Head(queue)) /\ Head(queue) \in 1..N
    BY <2>1, HeadFacts DEF Promise!Deliver, Promise!Range, Range, Item
  <2> QED BY <2>2 DEF Promise!Next
<1>11. CASE RecvEnd
  <2>1. rx = "live" /\ queue = <<>> /\ ~open /\ rx' = "ended" /\ UNCHANGED <<gen, next, aside, received>>
    BY <1>11 DEF RecvEnd, gen, aside
  <2>2. Sent = received
    BY <2>1, ConcatEmptySeq DEF IInv, TypeOK, Sent
  <2>3. gen = forward /\ forward \in {"closed", "failed"}
    BY <1>1, <2>1 DEF gen, IInv, OpenWhileForwarding
  <2>4. ASSUME NEW k \in 1..(next - 1), k \notin Range(received)
        PROVE  k \in aside /\ gen = "closed"
    <3>1. k \in Item
      BY <1>1 DEF Item
    <3>2. task[k] \in {"spawned", "false"}
      BY <2>1, <2>2, <2>4 DEF IInv, Accounted
    <3>3. forward = "closed"
      BY <2>1, <2>3, <3>1, <3>2 DEF Kept
    <3> QED BY <2>3, <3>1, <3>2, <3>3 DEF aside
  <2>5. Promise!End
    BY <2>1, <2>3, <2>4 DEF Promise!End, Promise!Range, Range
  <2> QED BY <2>5 DEF Promise!Next
<1>12. CASE RxDrop
  BY <1>12 DEF RxDrop, gen, aside, Promise!Next, Promise!Drop
<1> QED
  BY <1>2, <1>3, <1>4, <1>5, <1>6, <1>7, <1>8, <1>9, <1>10, <1>11, <1>12 DEF Next, send

\* The stream implements a stream of forwarded items, for any number of items
\* and any size of the channel: nothing of the first Buffer + 1 items is lost or
\* moved unless the reader leaves, and of the others only what was with a Rust
\* task when forward closed the channel; if the generator raises, nothing is.
THEOREM Refinement == Spec => ImplementsForwardedStream
<1>1. Init => Promise!Init
  BY InitImplements
<1>2. Init => Kept
  BY InitKept
<1>3. IInv /\ Kept /\ [Next]_vars => Kept'
  BY StepKept
<1>4. IInv /\ Kept /\ [Next]_vars => [Promise!Next]_(Promise!vars)
  BY StepImplements
<1> QED BY <1>1, <1>2, <1>3, <1>4, Inductive, PTL DEF Spec, ImplementsForwardedStream, Promise!Spec
=============================================================================
