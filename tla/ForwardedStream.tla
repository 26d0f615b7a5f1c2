--------------------------- MODULE ForwardedStream ---------------------------
(***************************************************************************)
(* What a stream promises whose generator runs on by itself and hands its  *)
(* items over, with no channel, no sender and no task behind it.  An item  *)
(* that is not handed over at once is set aside.                           *)
(*   - the reader gets items of the generator only, and none twice;        *)
(*   - an item is overtaken by a later one only if it was set aside, and   *)
(*     none of the first items is: they arrive in order, whatever happens; *)
(*   - the stream ends only when the generator has, and what it has not    *)
(*     yielded by then was set aside by a generator that ended by itself;  *)
(*     one that raises loses nothing that it yielded before.               *)
(* It does not promise that the generator waits for the reader.            *)
(***************************************************************************)
EXTENDS Naturals, Sequences, Functions

CONSTANTS
  N,     \* how many items there are
  First  \* how many items are never set aside

VARIABLES
  gen,    \* the generator: running, closed or failed
  next,   \* the item it yields next
  aside,  \* the items that were set aside
  out,    \* what the reader has got
  rx      \* the reader: live, dropped or ended

vars == <<gen, next, aside, out, rx>>

Init ==
  /\ gen = "running"
  /\ next = 1
  /\ aside = {}
  /\ out = <<>>
  /\ rx = "live"

Yield ==
  /\ gen = "running" /\ next <= N
  /\ next' = next + 1
  /\ aside' = aside \/ (next > First /\ aside' = aside \cup {next})
  /\ UNCHANGED <<gen, out, rx>>

Exhausted ==
  /\ gen = "running" /\ next = N + 1
  /\ gen' = "closed"
  /\ UNCHANGED <<next, aside, out, rx>>

Raise ==
  /\ gen = "running"
  /\ gen' = "failed"
  /\ UNCHANGED <<next, aside, out, rx>>

\* The generator is told of the reader's end by the next item it yields.
Abandon ==
  /\ rx = "dropped"
  /\ gen = "running" /\ next <= N
  /\ gen' = "closed"
  /\ next' = next + 1
  /\ UNCHANGED <<aside, out, rx>>

Deliver(k) ==
  /\ rx = "live"
  /\ k < next /\ k \notin Range(out)
  /\ \A j \in 1..(k - 1) : j \in Range(out) \cup aside
  /\ out' = Append(out, k)
  /\ UNCHANGED <<gen, next, aside, rx>>

End ==
  /\ rx = "live" /\ gen # "running"
  /\ \A k \in 1..(next - 1) : k \in Range(out) \/ (k \in aside /\ gen = "closed")
  /\ rx' = "ended"
  /\ UNCHANGED <<gen, next, aside, out>>

Drop ==
  /\ rx = "live"
  /\ rx' = "dropped"
  /\ UNCHANGED <<gen, next, aside, out>>

Next ==
  \/ Yield \/ Exhausted \/ Raise \/ Abandon
  \/ \E k \in 1..N : Deliver(k)
  \/ End \/ Drop

Spec == Init /\ [][Next]_vars
=============================================================================
