----------------------------- MODULE TaskScope -----------------------------
(***************************************************************************)
(* ContextExt::scope of the two runtimes: which TaskLocals                 *)
(* get_task_locals finds while the code of one Rust task runs, and so with *)
(* which event loop and context its conversions are made.                  *)
(*                                                                         *)
(* A task polls scoped futures that may be nested, joined, selected over   *)
(* or dropped unfinished.  tokio swaps the locals of a scoped future in    *)
(* for each of its polls.  async-std puts them in place when scope is      *)
(* called and puts the old ones back when the future completes.            *)
(*                                                                         *)
(* A scope is given TaskLocals that the program made, or those that are    *)
(* current where it begins, as the conversions do: locals are inherited.   *)
(***************************************************************************)
EXTENDS Naturals, Sequences, Functions

CONSTANTS
  Fut,       \* scoped futures of one task; TASK_LOCALS names whose it holds
  Free,      \* runtimes on which programs do more than await a scoped future
  EventLoop, \* Python's event loops
  Context    \* contextvars contexts

ASSUME FreeAssumption == Free \subseteq {"tokio", "async_std"} /\ "task" \notin Fut
ASSUME LocalsAssumption == "none" \notin EventLoop /\ "None" \notin Context

VARIABLES
  runtime,  \* the runtime of the program, chosen once
  stack,    \* the scoped futures being polled, the innermost last
  state,    \* new, pending, done or dropped
  owner,    \* whose code polls the future: the task or another future
  slot,     \* TASK_LOCALS: "task" for what was there before any scope, None
  saved,    \* what scope keeps of the slot, to put it back
  running,  \* the loop and context of Python on the thread of the task
  locals,   \* the TaskLocals that the scope of each future was given
  own       \* what its scope should have been given, however the slot is kept

vars == <<runtime, stack, state, owner, slot, saved, running, locals, own>>

----------------------------------------------------------------------------
(* TaskLocals.                                                             *)

TaskLocals == [event_loop : EventLoop, context : Context \cup {"None"}]

\* What there is on a thread that runs no event loop, and the RuntimeError of
\* get_running_loop there.
NoLocals == [event_loop |-> "none", context |-> "None"]

new(event_loop) == [event_loop |-> event_loop, context |-> "None"]
with_context(tl, context) == [tl EXCEPT !.context = context]
with_running_loop == new(running.event_loop)
copy_context(tl) == with_context(tl, running.context)

----------------------------------------------------------------------------

\* Whose code runs, and which futures it has left pending.
Top == IF stack = <<>> THEN "task" ELSE stack[Len(stack)]
Pending(p) == {f \in Fut : owner[f] = p /\ state[f] = "pending" /\ f \notin Range(stack)}

TypeOK ==
  /\ runtime \in {"tokio", "async_std"}
  /\ stack \in Seq(Fut)
  /\ state \in [Fut -> {"new", "pending", "done", "dropped"}]
  /\ owner \in [Fut -> Fut \cup {"task"}]
  /\ slot \in Fut \cup {"task"}
  /\ saved \in [Fut -> Fut \cup {"task"}]
  /\ running \in TaskLocals \cup {NoLocals}
  /\ locals \in [Fut -> TaskLocals \cup {NoLocals}]
  /\ own \in [Fut -> TaskLocals \cup {NoLocals}]

Init ==
  /\ runtime \in {"tokio", "async_std"}
  /\ stack = <<>>
  /\ state = [f \in Fut |-> "new"]
  /\ owner = [f \in Fut |-> "task"]
  /\ slot = "task"
  /\ saved = [f \in Fut |-> "task"]
  /\ running \in [event_loop : EventLoop, context : Context] \cup {NoLocals}
  /\ locals = [f \in Fut |-> NoLocals]
  /\ own = [f \in Fut |-> NoLocals]

----------------------------------------------------------------------------
(* The runtimes.                                                           *)

get_task_locals == slot

\* What conversions use: the task locals, or else the running loop and a copy
\* of the context of the thread.
get_current_locals ==
  IF get_task_locals # "task" THEN locals[get_task_locals]
  ELSE copy_context(with_running_loop)

get_current_loop ==
  IF get_task_locals # "task" THEN locals[get_task_locals].event_loop
  ELSE running.event_loop

\* tokio's TASK_LOCALS.scope: every poll of f begins by swapping its cell in.
TokioSwapIn(f) ==
  /\ saved' = [saved EXCEPT ![f] = slot]
  /\ slot' = f

\* Mutant: the cell stays in place between two polls.
TokioSwapOut_Keeps(f) == UNCHANGED <<slot, saved>>

\* Every end of a poll of f, a panic included, swaps it out again.
TokioSwapOut(f) ==
  /\ slot' = saved[f]
  /\ UNCHANGED saved

\* async-std replaces the locals once, when scope is called for f.
AsyncStdReplace(f) ==
  \/ /\ state[f] = "new"
     /\ saved' = [saved EXCEPT ![f] = slot]
     /\ slot' = f
  \/ /\ state[f] # "new"
     /\ UNCHANGED <<slot, saved>>

\* Mutant: the end of a scope takes its locals away but puts none back.
AsyncStdRestore_Clears(f, completed) ==
  /\ slot' = IF completed THEN "none" ELSE slot
  /\ UNCHANGED saved

\* The old locals come back if and when f completes.
AsyncStdRestore(f, completed) ==
  /\ slot' = IF completed THEN saved[f] ELSE slot
  /\ UNCHANGED saved

EnterScope(f) == IF runtime = "tokio" THEN TokioSwapIn(f) ELSE AsyncStdReplace(f)

LeaveScope(f, completed) ==
  IF runtime = "tokio" THEN TokioSwapOut(f) ELSE AsyncStdRestore(f, completed)

----------------------------------------------------------------------------
(* The code of the task.                                                   *)

\* Code that awaits a future does nothing else until that future is ready.
MayRun(p, f) == runtime \in Free \/ Pending(p) \subseteq {f}

\* The same from what the scopes should have been given.
OwnLocals(p) == IF p = "task" THEN copy_context(with_running_loop) ELSE own[p]

\* The first poll of f, where its scope begins: with TaskLocals of the
\* program, or with the current ones, without which there is no conversion.
ScopeLocals(f) ==
  \/ \E tl \in TaskLocals :
       /\ locals' = [locals EXCEPT ![f] = tl]
       /\ own' = [own EXCEPT ![f] = tl]
  \/ /\ get_current_locals # NoLocals
     /\ locals' = [locals EXCEPT ![f] = get_current_locals]
     /\ own' = [own EXCEPT ![f] = OwnLocals(Top)]

\* The running code polls f, for the first time or again.
PollStart(f) ==
  /\ state[f] = "new" \/ f \in Pending(Top)
  /\ MayRun(Top, f)
  /\ EnterScope(f)
  /\ IF state[f] = "new" THEN ScopeLocals(f) ELSE UNCHANGED <<locals, own>>
  /\ state' = [state EXCEPT ![f] = "pending"]
  /\ owner' = [owner EXCEPT ![f] = Top]
  /\ stack' = Append(stack, f)
  /\ UNCHANGED <<runtime, running>>

\* The poll of the innermost future returns Pending.
PollPending(f) ==
  /\ stack # <<>> /\ f = Top
  /\ LeaveScope(f, FALSE)
  /\ stack' = SubSeq(stack, 1, Len(stack) - 1)
  /\ UNCHANGED <<runtime, state, owner, running, locals, own>>

\* The innermost future is ready; what it left pending is dropped with it.
PollReady(f) ==
  /\ stack # <<>> /\ f = Top
  /\ MayRun(f, f)
  /\ LeaveScope(f, TRUE)
  /\ stack' = SubSeq(stack, 1, Len(stack) - 1)
  /\ state' = [state EXCEPT ![f] = "done"]
  /\ UNCHANGED <<runtime, owner, running, locals, own>>

\* The poll panics and the code around it catches the panic: tokio's guard
\* puts the locals back, the rest of an async-std scope does not run.
PollPanics(f) ==
  /\ runtime \in Free
  /\ stack # <<>> /\ f = Top
  /\ LeaveScope(f, FALSE)
  /\ stack' = SubSeq(stack, 1, Len(stack) - 1)
  /\ state' = [state EXCEPT ![f] = "dropped"]
  /\ UNCHANGED <<runtime, owner, running, locals, own>>

\* The running code drops a future it left pending (select, timeout).
DropPending(f) ==
  /\ runtime \in Free
  /\ f \in Pending(Top)
  /\ state' = [state EXCEPT ![f] = "dropped"]
  /\ UNCHANGED <<runtime, stack, owner, slot, saved, running, locals, own>>

Next == \E f \in Fut :
  \/ PollStart(f) \/ PollPending(f) \/ PollReady(f)
  \/ PollPanics(f) \/ DropPending(f)

Spec == Init /\ [][Next]_vars

----------------------------------------------------------------------------
(* Properties.                                                             *)

\* The locals that the running code finds, and so the event loop and context
\* of every conversion it makes, are those of its own innermost scope: "set
\* the task locals for the given future" (ContextExt::scope).  A scope that
\* was begun with the current locals has those of the code that began it.
SeesOwnLocals ==
  runtime \in Free \/ Pending(Top) = {} =>
    /\ get_task_locals = Top
    /\ get_current_locals = OwnLocals(Top)
    /\ get_current_loop = OwnLocals(Top).event_loop
=============================================================================
