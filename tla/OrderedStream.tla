---------------------------- MODULE OrderedStream ----------------------------
(***************************************************************************)
(* What a stream made of an async generator promises, with no Rust task,   *)
(* no event loop and no channel: a generator that answers one request      *)
(* after the other, and a reader.                                          *)
(*   - the reader gets the answers themselves, each once, in the order of  *)
(*     the requests, and none that was not given;                          *)
(*   - StopAsyncIteration is the last answer; it ends the stream, after    *)
(*     all items, and nothing else does;                                   *)
(*   - the generator is asked for a bounded number of items more than the  *)
(*     reader has taken, and for no more than that once the reader is gone.*)
(***************************************************************************)
EXTENDS Naturals, Sequences

CONSTANTS
  N,      \* how many requests there are
  Item,   \* the answers that are items
  Ahead   \* how many answers the reader may be behind

VARIABLES
  answer,  \* of every request: none, an item or stop
  out,     \* what the reader has got
  rx       \* the reader: live, dropped or ended

vars == <<answer, out, rx>>

Init ==
  /\ answer = [k \in 1..N |-> "none"]
  /\ out = <<>>
  /\ rx = "live"

Answer(k) ==
  /\ answer[k] = "none"
  /\ \A j \in 1..(k - 1) : answer[j] \in Item
  /\ k <= Len(out) + Ahead
  /\ \E a \in Item \cup {"stop"} : answer' = [answer EXCEPT ![k] = a]
  /\ UNCHANGED <<out, rx>>

\* The next request that the reader has no answer to.
Due == Len(out) + 1

Yield ==
  /\ rx = "live"
  /\ Due <= N /\ answer[Due] \in Item
  /\ out' = Append(out, answer[Due])
  /\ UNCHANGED <<answer, rx>>

End ==
  /\ rx = "live"
  /\ Due <= N /\ answer[Due] = "stop"
  /\ rx' = "ended"
  /\ UNCHANGED <<answer, out>>

Drop ==
  /\ rx = "live"
  /\ rx' = "dropped"
  /\ UNCHANGED <<answer, out>>

Next == (\E k \in 1..N : Answer(k)) \/ Yield \/ End \/ Drop

Spec == Init /\ [][Next]_vars
=============================================================================
