----------------------------- MODULE OneAnswer -----------------------------
(***************************************************************************)
(* What into_future promises of its calls, with no event loop, no handles  *)
(* and no sender: each call has one answer, which is settled once and      *)
(* never changes, and its future resolves to it once.                      *)
(*   - an answer is a result, or is lost: then the future is cancelled;    *)
(*   - closing the loop may lose every answer that is not settled yet, and *)
(*     calls after it fail;                                                *)
(*   - a future that is dropped never resolves, and stops no answer.       *)
(***************************************************************************)
CONSTANT Call

VARIABLES
  fut,     \* the future: none, failed, waiting, dropped or a result
  answer,  \* none, pending, lost or a result
  open     \* is the loop not closed?

vars == <<fut, answer, open>>

Result == {"ok", "err", "cancelled"}
Settled == Result \cup {"lost"}

Init ==
  /\ fut = [c \in Call |-> "none"]
  /\ answer = [c \in Call |-> "none"]
  /\ open = TRUE

Ask(c) ==
  /\ fut[c] = "none" /\ open
  /\ fut' = [fut EXCEPT ![c] = "waiting"]
  /\ answer' = [answer EXCEPT ![c] = "pending"]
  /\ UNCHANGED open

AskFails(c) ==
  /\ fut[c] = "none" /\ ~open
  /\ fut' = [fut EXCEPT ![c] = "failed"]
  /\ UNCHANGED <<answer, open>>

Settle(c) ==
  /\ answer[c] = "pending"
  /\ \E a \in Settled : answer' = [answer EXCEPT ![c] = a]
  /\ UNCHANGED <<fut, open>>

Resolve(c) ==
  /\ fut[c] = "waiting" /\ answer[c] \in Settled
  /\ fut' = [fut EXCEPT ![c] = IF answer[c] = "lost" THEN "cancelled" ELSE answer[c]]
  /\ UNCHANGED <<answer, open>>

GiveUp(c) ==
  /\ fut[c] = "waiting"
  /\ fut' = [fut EXCEPT ![c] = "dropped"]
  /\ UNCHANGED <<answer, open>>

Close ==
  /\ open
  /\ open' = FALSE
  /\ \E lost \in SUBSET {c \in Call : answer[c] = "pending"} :
       answer' = [c \in Call |-> IF c \in lost THEN "lost" ELSE answer[c]]
  /\ UNCHANGED fut

Next ==
  \/ \E c \in Call : Ask(c) \/ AskFails(c) \/ Settle(c) \/ Resolve(c) \/ GiveUp(c)
  \/ Close

Spec == Init /\ [][Next]_vars
=============================================================================
