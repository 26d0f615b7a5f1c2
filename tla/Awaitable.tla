----------------------------- MODULE Awaitable -----------------------------
(***************************************************************************)
(* What future_into_py promises of one conversion, with no runtime, no     *)
(* event loop and no channel: a Rust job and the Python awaitable that     *)
(* stands for it.                                                          *)
(*   - the awaitable completes with what the job yielded and only after it *)
(*     did, and a completed or cancelled awaitable never changes again;    *)
(*   - an exception that Python refuses is never delivered: the awaitable  *)
(*     stays pending until it is cancelled;                                *)
(*   - nothing but the cancellation of the awaitable (or a runtime that    *)
(*     drops its tasks) stops a job that has not finished.                 *)
(***************************************************************************)
CONSTANTS Conv, MayAbort

VARIABLES
  aw,   \* the awaitable: none, pending, cancelled or an outcome
  job   \* the Rust job: none, running, dropped or an outcome

vars == <<aw, job>>

Outcome == {"ok", "err", "refused", "panic"}

Init ==
  /\ aw = [c \in Conv |-> "none"]
  /\ job = [c \in Conv |-> "none"]

Start(c) ==
  /\ job[c] = "none"
  /\ job' = [job EXCEPT ![c] = "running"]
  /\ aw' = [aw EXCEPT ![c] = "pending"]

Finish(c) ==
  /\ job[c] = "running"
  /\ \E o \in Outcome : job' = [job EXCEPT ![c] = o]
  /\ UNCHANGED aw

Stop(c) ==
  /\ job[c] = "running"
  /\ aw[c] = "cancelled" \/ MayAbort
  /\ job' = [job EXCEPT ![c] = "dropped"]
  /\ UNCHANGED aw

Deliver(c) ==
  /\ aw[c] = "pending"
  /\ job[c] \in Outcome \ {"refused"}
  /\ aw' = [aw EXCEPT ![c] = job[c]]
  /\ UNCHANGED job

Cancel(c) ==
  /\ aw[c] = "pending"
  /\ aw' = [aw EXCEPT ![c] = "cancelled"]
  /\ UNCHANGED job

Next == \E c \in Conv :
  Start(c) \/ Finish(c) \/ Stop(c) \/ Deliver(c) \/ Cancel(c)

Spec == Init /\ [][Next]_vars
=============================================================================
