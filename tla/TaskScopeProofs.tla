-------------------------- MODULE TaskScopeProofs ---------------------------
(***************************************************************************)
(* SeesOwnLocals for any set of scoped futures: on tokio whatever the      *)
(* program does, on async-std as long as it only awaits them.              *)
(***************************************************************************)
EXTENDS TaskScope, SequenceTheorems, TLAPS

\* The futures being polled are the ones whose code the next one is polled by.
StackInv ==
  /\ IsInjective(stack)
  /\ \A i \in 1..Len(stack) :
       /\ state[stack[i]] = "pending"
       /\ owner[stack[i]] = IF i = 1 THEN "task" ELSE stack[i - 1]

\* tokio: the running code is that of the future swapped in, and every poll
\* under way will put back the locals of the code around it.
TokioInv ==
  /\ slot = Top
  /\ \A i \in 1..Len(stack) : saved[stack[i]] = owner[stack[i]]

\* async-std with plain await: the unfinished futures form one chain from the
\* task to the innermost await, whose end holds the slot.
Alive == {f \in Fut : state[f] = "pending"}
AsyncStdInv ==
  /\ slot \in Alive \cup {"task"}
  /\ \A f \in Alive : /\ saved[f] = owner[f]
                      /\ owner[f] \in Alive \cup {"task"}
                      /\ owner[f] # slot
  /\ \A f, g \in Alive : owner[f] = owner[g] => f = g
  /\ \A p \in Alive \cup {"task"} : p # slot => \E f \in Alive : owner[f] = p

\* Every scope was given the locals it should have been given.
LocalsInv == runtime = "tokio" \/ "async_std" \notin Free => locals = own

IInv ==
  /\ TypeOK
  /\ StackInv
  /\ LocalsInv
  /\ runtime = "tokio" => TokioInv
  /\ runtime = "async_std" /\ "async_std" \notin Free => AsyncStdInv

\* Pushing a future on the stack and popping it.
LEMMA PushFacts ==
  ASSUME TypeOK, NEW f \in Fut
  PROVE  /\ Append(stack, f) \in Seq(Fut)
         /\ Len(stack) \in Nat
         /\ Len(Append(stack, f)) = Len(stack) + 1
         /\ \A i \in 1..Len(stack) : Append(stack, f)[i] = stack[i]
         /\ Append(stack, f)[Len(stack) + 1] = f
         /\ DOMAIN Append(stack, f) = 1..(Len(stack) + 1)
         /\ DOMAIN stack = 1..Len(stack)
<1>1. stack \in Seq(Fut)
  BY DEF TypeOK
<1>2. Append(stack, f) \in Seq(Fut)
  BY <1>1, AppendProperties
<1> QED BY <1>1, <1>2, AppendProperties, LenProperties

LEMMA PopFacts ==
  ASSUME TypeOK, stack # <<>>
  PROVE  LET t == SubSeq(stack, 1, Len(stack) - 1)
         IN  /\ t \in Seq(Fut)
             /\ Len(stack) \in Nat /\ Len(stack) > 0
             /\ Len(t) = Len(stack) - 1
             /\ \A i \in 1..(Len(stack) - 1) : t[i] = stack[i]
             /\ DOMAIN t = 1..(Len(stack) - 1)
             /\ DOMAIN stack = 1..Len(stack)
<1>1. stack \in Seq(Fut) /\ Len(stack) \in Nat /\ DOMAIN stack = 1..Len(stack)
  BY LenProperties DEF TypeOK
<1>2. Len(stack) > 0
  BY <1>1, EmptySeq
<1> QED BY <1>1, <1>2

\* The innermost future is pending, and nothing in the stack is its child.
LEMMA TopFacts ==
  ASSUME TypeOK, StackInv
  PROVE  /\ Top \in Alive \cup {"task"}
         /\ stack # <<>> => Top \in Fut /\ Top = stack[Len(stack)] /\ Top \in Range(stack)
         /\ \A g \in Range(stack) : owner[g] # Top
         /\ Range(stack) \subseteq Alive
<1>1. /\ stack \in Seq(Fut) /\ Len(stack) \in Nat
      /\ DOMAIN stack = 1..Len(stack)
      /\ \A i \in 1..Len(stack) : stack[i] \in Fut
  BY LenProperties DEF TypeOK
<1>2. CASE stack = <<>>
  <2>1. Top = "task" /\ Range(stack) = {}
    BY <1>1, <1>2, EmptySeq DEF Top, Range
  <2> QED BY <1>2, <2>1
<1>3. CASE stack # <<>>
  <2>1. Len(stack) > 0 /\ Top = stack[Len(stack)]
    BY <1>1, <1>3, EmptySeq DEF Top
  <2>2. Top \in Fut /\ Top \in Range(stack) /\ state[Top] = "pending"
    BY <1>1, <2>1 DEF StackInv, Range
  <2>3. ASSUME NEW i \in 1..Len(stack)
        PROVE  owner[stack[i]] # Top
    <3>1. CASE i = 1
      BY <2>2, <3>1, FreeAssumption DEF StackInv
    <3>2. CASE i # 1
      <4>1. i - 1 \in 1..Len(stack) /\ i - 1 # Len(stack) /\ Len(stack) \in 1..Len(stack)
        BY <1>1, <2>1, <3>2
      <4> QED BY <1>1, <2>1, <3>2, <4>1 DEF StackInv, IsInjective
    <3> QED BY <3>1, <3>2
  <2>4. Range(stack) \subseteq Alive
    BY <1>1 DEF StackInv, Range, Alive
  <2> QED BY <1>1, <1>3, <2>1, <2>2, <2>3, <2>4 DEF Range, Alive
<1> QED BY <1>2, <1>3

\* async-std: code that awaits nothing finds its own locals.
LEMMA AwaitingNothing ==
  ASSUME TypeOK, StackInv, AsyncStdInv, Pending(Top) = {}
  PROVE  slot = Top /\ \A f \in Alive : owner[f] # Top
<1>1. \A f \in Alive : owner[f] # Top
  BY TopFacts DEF Pending, Alive
<1> QED BY <1>1, TopFacts DEF AsyncStdInv

\* Before the first scope the slot holds what was there before.
LEMMA InitIInv == Init => IInv
<1> SUFFICES ASSUME Init PROVE IInv
  OBVIOUS
<1>1. stack \in Seq(Fut) /\ Len(stack) = 0 /\ Top = "task"
  BY EmptySeq DEF Init, Top
<1>2. TypeOK
  BY <1>1 DEF Init, TypeOK, TaskLocals
<1>3. StackInv /\ TokioInv
  BY <1>1 DEF Init, StackInv, TokioInv, IsInjective
<1>4. AsyncStdInv
  <2>1. Alive = {}
    BY DEF Init, Alive
  <2> QED BY <2>1 DEF Init, AsyncStdInv
<1>5. LocalsInv
  BY DEF Init, LocalsInv
<1> QED BY <1>2, <1>3, <1>4, <1>5 DEF IInv

\* What the conversions of a thread find is of the type of TaskLocals, and it
\* is what they should find if the slot and the locals are right.
LEMMA CurrentType ==
  ASSUME TypeOK
  PROVE  /\ get_current_locals \in TaskLocals \cup {NoLocals}
         /\ \A p \in Fut \cup {"task"} : OwnLocals(p) \in TaskLocals \cup {NoLocals}
         /\ copy_context(with_running_loop) = running
<1>1. copy_context(with_running_loop) = running
  BY DEF TypeOK, TaskLocals, NoLocals, copy_context, with_context, with_running_loop, new
<1>2. get_current_locals \in TaskLocals \cup {NoLocals}
  BY <1>1 DEF TypeOK, get_current_locals, get_task_locals
<1>3. \A p \in Fut \cup {"task"} : OwnLocals(p) \in TaskLocals \cup {NoLocals}
  BY <1>1 DEF TypeOK, OwnLocals
<1> QED BY <1>1, <1>2, <1>3

LEMMA CurrentIsOwn ==
  ASSUME TypeOK, slot = Top, locals = own
  PROVE  /\ get_current_locals = OwnLocals(Top)
         /\ get_current_loop = OwnLocals(Top).event_loop
<1>1. get_current_locals = OwnLocals(Top)
  BY DEF get_current_locals, get_task_locals, OwnLocals
<1>2. get_current_loop = OwnLocals(Top).event_loop
  BY CurrentType DEF get_current_loop, get_task_locals, OwnLocals
<1> QED BY <1>1, <1>2

\* The stack and the types through the steps that begin and end a poll.
LEMMA PollStartStack ==
  ASSUME IInv, NEW f \in Fut, PollStart(f)
  PROVE  /\ TypeOK' /\ StackInv'
         /\ Top' = f /\ f \notin Range(stack)
         /\ Len(stack') = Len(stack) + 1
         /\ \A i \in 1..Len(stack) : stack'[i] = stack[i]
         /\ stack'[Len(stack) + 1] = f
<1> USE DEF IInv
<1>1. f \notin Range(stack)
  BY TopFacts DEF PollStart, Pending, Alive
<1>2. /\ stack' \in Seq(Fut)
      /\ Len(stack) \in Nat /\ Len(stack') = Len(stack) + 1
      /\ \A i \in 1..Len(stack) : stack'[i] = stack[i]
      /\ stack'[Len(stack) + 1] = f
      /\ DOMAIN stack' = 1..(Len(stack) + 1)
      /\ DOMAIN stack = 1..Len(stack)
      /\ \A i \in 1..Len(stack) : stack[i] \in Fut /\ stack[i] # f
  <2>1. stack' = Append(stack, f) /\ \A i \in DOMAIN stack : stack[i] # f
    BY <1>1 DEF PollStart, Range
  <2>2. \A i \in DOMAIN stack : stack[i] \in Fut
    BY LenProperties DEF TypeOK
  <2> QED BY <2>1, <2>2, PushFacts
<1>3. Top' = f
  <2>1. stack' # <<>>
    BY <1>2, EmptySeq
  <2> QED BY <1>2, <2>1 DEF Top
<1>4. TypeOK'
  <2>1. Top \in Fut \cup {"task"}
    BY TopFacts DEF Alive
  <2>2. /\ stack' \in Seq(Fut) /\ owner' \in [Fut -> Fut \cup {"task"}]
        /\ state' \in [Fut -> {"new", "pending", "done", "dropped"}]
        /\ slot' \in Fut \cup {"task"} /\ saved' \in [Fut -> Fut \cup {"task"}]
    BY <1>2, <2>1 DEF PollStart, EnterScope, TokioSwapIn, AsyncStdReplace, TypeOK
  <2>3. /\ locals' \in [Fut -> TaskLocals \cup {NoLocals}]
        /\ own' \in [Fut -> TaskLocals \cup {NoLocals}]
    BY <2>1, CurrentType DEF PollStart, ScopeLocals, TypeOK
  <2> QED BY <2>2, <2>3 DEF PollStart, TypeOK
<1>5. StackInv'
  <2>1. IsInjective(stack')
    BY <1>2 DEF StackInv, IsInjective
  <2>2. ASSUME NEW i \in 1..Len(stack')
        PROVE  /\ state'[stack'[i]] = "pending"
               /\ owner'[stack'[i]] = IF i = 1 THEN "task" ELSE stack'[i - 1]
    <3>1. CASE i = Len(stack) + 1
      <4>1. owner'[f] = Top /\ state'[f] = "pending"
        BY DEF PollStart, TypeOK
      <4>2. Top = IF i = 1 THEN "task" ELSE stack[i - 1]
        BY <1>2, <3>1, EmptySeq DEF Top, TypeOK
      <4> QED BY <1>2, <3>1, <4>1, <4>2
    <3>2. CASE i # Len(stack) + 1
      <4>1. i \in 1..Len(stack) /\ (i # 1 => i - 1 \in 1..Len(stack))
        BY <1>2, <2>2, <3>2
      <4>2. state'[stack[i]] = state[stack[i]] /\ owner'[stack[i]] = owner[stack[i]]
        BY <1>2, <4>1 DEF PollStart, TypeOK
      <4> QED BY <1>2, <4>1, <4>2 DEF StackInv
    <3> QED BY <3>1, <3>2
  <2> QED BY <2>1, <2>2 DEF StackInv
<1> QED BY <1>1, <1>2, <1>3, <1>4, <1>5

LEMMA PollEndStack ==
  ASSUME IInv, NEW f \in Fut, PollPending(f) \/ PollReady(f) \/ PollPanics(f)
  PROVE  /\ TypeOK' /\ StackInv' /\ LocalsInv'
         /\ Top' = owner[f] /\ f \in Range(stack) /\ f = Top
         /\ Len(stack) > 0 /\ f = stack[Len(stack)]
         /\ Len(stack') = Len(stack) - 1 /\ Len(stack) \in Nat
         /\ \A i \in 1..Len(stack') : stack'[i] = stack[i] /\ stack[i] # f /\ stack[i] \in Fut
<1> USE DEF IInv, PollPending, PollReady, PollPanics
<1>1. /\ stack # <<>> /\ f = Top /\ f = stack[Len(stack)] /\ f \in Range(stack)
      /\ stack' = SubSeq(stack, 1, Len(stack) - 1)
  BY TopFacts
<1>2. /\ stack' \in Seq(Fut)
      /\ Len(stack) \in Nat /\ Len(stack) > 0 /\ Len(stack') = Len(stack) - 1
      /\ \A i \in 1..(Len(stack) - 1) : stack'[i] = stack[i]
      /\ DOMAIN stack' = 1..(Len(stack) - 1)
      /\ DOMAIN stack = 1..Len(stack)
  BY <1>1, PopFacts
<1>3. \A i \in 1..Len(stack') : stack[i] # f /\ stack[i] \in Fut
  <2>1. \A i \in DOMAIN stack : stack[i] \in Fut
    BY LenProperties DEF TypeOK
  <2> QED BY <1>1, <1>2, <2>1 DEF StackInv, IsInjective
<1>4. Top' = owner[f]
  <2>1. owner[f] = IF Len(stack) = 1 THEN "task" ELSE stack[Len(stack) - 1]
    BY <1>1, <1>2 DEF StackInv
  <2>2. CASE Len(stack) = 1
    <3>1. stack' = <<>>
      BY <1>2, <2>2, EmptySeq
    <3> QED BY <2>1, <2>2, <3>1 DEF Top
  <2>3. CASE Len(stack) # 1
    <3>1. stack' # <<>> /\ Len(stack) - 1 \in 1..(Len(stack) - 1)
      BY <1>2, <2>3, EmptySeq
    <3> QED BY <1>2, <2>1, <2>3, <3>1 DEF Top
  <2> QED BY <2>2, <2>3
<1>5. TypeOK' /\ LocalsInv'
  BY <1>2 DEF LeaveScope, TokioSwapOut, AsyncStdRestore, TypeOK, LocalsInv
<1>6. StackInv'
  <2>1. IsInjective(stack')
    BY <1>2 DEF StackInv, IsInjective
  <2>2. ASSUME NEW i \in 1..Len(stack')
        PROVE  /\ state'[stack'[i]] = "pending"
               /\ owner'[stack'[i]] = IF i = 1 THEN "task" ELSE stack'[i - 1]
    <3>1. i \in 1..Len(stack) /\ i \in 1..(Len(stack) - 1) /\ (i # 1 => i - 1 \in 1..(Len(stack) - 1))
      BY <1>2, <2>2
    <3>2. state'[stack[i]] = state[stack[i]] /\ owner'[stack[i]] = owner[stack[i]]
      BY <1>3, <2>2 DEF TypeOK
    <3> QED BY <1>2, <3>1, <3>2 DEF StackInv
  <2> QED BY <2>1, <2>2 DEF StackInv
<1> QED BY <1>1, <1>2, <1>3, <1>4, <1>5, <1>6

\* A scope begins where the slot is right, and so is what it is given.
LEMMA PollStartLocals ==
  ASSUME IInv, NEW f \in Fut, PollStart(f)
  PROVE  LocalsInv'
<1> SUFFICES ASSUME runtime = "tokio" \/ "async_std" \notin Free
             PROVE  locals' = own'
  BY DEF PollStart, LocalsInv
<1>1. locals = own
  BY DEF IInv, LocalsInv
<1>2. CASE state[f] # "new"
  BY <1>1, <1>2 DEF PollStart
<1>3. CASE state[f] = "new"
  <2>1. CASE runtime = "tokio"
    <3>1. slot = Top
      BY <2>1 DEF IInv, TokioInv
    <3> QED BY <1>1, <1>3, <3>1, CurrentIsOwn DEF PollStart, ScopeLocals, IInv
  <2>2. CASE runtime # "tokio"
    <3>1. runtime = "async_std" /\ "async_std" \notin Free
      BY <2>2 DEF IInv, TypeOK
    <3>2. Pending(Top) = {}
      BY <1>3, <3>1 DEF PollStart, MayRun, Pending
    <3>3. slot = Top
      BY <3>1, <3>2, AwaitingNothing DEF IInv
    <3> QED BY <1>1, <1>3, <3>3, CurrentIsOwn DEF PollStart, ScopeLocals, IInv
  <2> QED BY <2>1, <2>2
<1> QED BY <1>2, <1>3

\* Beginning a poll keeps the discipline of the runtime.
LEMMA PollStartIInv ==
  ASSUME IInv, NEW f \in Fut, PollStart(f)
  PROVE  IInv'
<1> USE DEF IInv
<1>1. CASE runtime = "tokio"
  <2>1. slot' = f /\ saved' = [saved EXCEPT ![f] = slot] /\ slot = Top
    BY <1>1 DEF PollStart, EnterScope, TokioSwapIn, TokioInv
  <2>2. TokioInv'
    <3> SUFFICES ASSUME NEW i \in 1..Len(stack')
                 PROVE  saved'[stack'[i]] = owner'[stack'[i]]
      BY <2>1, PollStartStack DEF TokioInv
    <3>1. CASE i = Len(stack) + 1
      BY <2>1, <3>1, PollStartStack DEF PollStart, TypeOK
    <3>2. CASE i # Len(stack) + 1
      <4>1. i \in 1..Len(stack) /\ stack[i] \in Range(stack) /\ stack[i] \in Fut
        BY <3>2, PollStartStack, LenProperties DEF TypeOK, Range
      <4>2. stack[i] # f /\ stack'[i] = stack[i]
        BY <4>1, PollStartStack
      <4> QED BY <1>1, <2>1, <4>1, <4>2 DEF PollStart, TypeOK, TokioInv
    <3> QED BY <3>1, <3>2
  <2> QED BY <1>1, <2>2, PollStartStack, PollStartLocals DEF PollStart
<1>2. CASE runtime = "async_std" /\ "async_std" \notin Free
  <2>1. AsyncStdInv /\ Pending(Top) \subseteq {f}
    BY <1>2 DEF PollStart, MayRun
  <2>2. CASE state[f] = "new"
    <3>1. Pending(Top) = {}
      BY <2>1, <2>2 DEF Pending
    <3>2. slot = Top /\ \A g \in Alive : owner[g] # Top
      BY <2>1, <3>1, AwaitingNothing
    <3>3. /\ slot' = f /\ saved' = [saved EXCEPT ![f] = Top]
          /\ owner' = [owner EXCEPT ![f] = Top]
          /\ Alive' = Alive \cup {f} /\ f \notin Alive
      BY <1>2, <2>2, <3>2 DEF PollStart, EnterScope, AsyncStdReplace, TypeOK, Alive
    <3>4. Top \in Alive \cup {"task"} /\ f # "task" /\ f # Top
      BY <3>3, TopFacts, FreeAssumption
    <3>5. Alive \subseteq Fut
      BY DEF Alive
    <3>6. /\ saved'[f] = Top /\ owner'[f] = Top
          /\ \A g \in Alive : saved'[g] = saved[g] /\ owner'[g] = owner[g]
      BY <3>3, <3>5 DEF TypeOK
    <3>7. AsyncStdInv'
      <4>1. slot' \in Alive' \cup {"task"}
        BY <3>3
      <4>2. ASSUME NEW g \in Alive'
            PROVE  /\ saved'[g] = owner'[g]
                   /\ owner'[g] \in Alive' \cup {"task"}
                   /\ owner'[g] # slot'
        BY <2>1, <3>3, <3>4, <3>6 DEF AsyncStdInv
      <4>3. ASSUME NEW g \in Alive', NEW h \in Alive', owner'[g] = owner'[h]
            PROVE  g = h
        BY <2>1, <3>2, <3>3, <3>6, <4>3 DEF AsyncStdInv
      <4>4. ASSUME NEW p \in Alive' \cup {"task"}, p # slot'
            PROVE  \E g \in Alive' : owner'[g] = p
        BY <2>1, <3>2, <3>3, <3>6, <4>4 DEF AsyncStdInv
      <4> QED BY <4>1, <4>2, <4>3, <4>4 DEF AsyncStdInv
    <3> QED BY <1>2, <3>7, PollStartStack, PollStartLocals DEF PollStart
  <2>3. CASE state[f] # "new"
    <3>1. state[f] = "pending" /\ owner[f] = Top
      BY <2>3 DEF PollStart, Pending
    <3>2. UNCHANGED <<slot, saved, state, owner>>
      BY <1>2, <2>3, <3>1 DEF PollStart, EnterScope, AsyncStdReplace, TypeOK
    <3>3. AsyncStdInv'
      BY <2>1, <3>2 DEF AsyncStdInv, Alive
    <3> QED BY <1>2, <3>3, PollStartStack, PollStartLocals DEF PollStart
  <2> QED BY <2>2, <2>3
<1>3. CASE runtime = "async_std" /\ "async_std" \in Free
  BY <1>3, PollStartStack, PollStartLocals DEF PollStart
<1> QED BY <1>1, <1>2, <1>3 DEF TypeOK

\* Ending a poll keeps the discipline of the runtime.
LEMMA PollEndIInv ==
  ASSUME IInv, NEW f \in Fut, PollPending(f) \/ PollReady(f) \/ PollPanics(f)
  PROVE  IInv'
<1> USE DEF IInv
<1>0. UNCHANGED <<runtime, owner>>
  BY DEF PollPending, PollReady, PollPanics
<1>1. CASE runtime = "tokio"
  <2>1. slot' = saved[f] /\ saved' = saved
    BY <1>1 DEF PollPending, PollReady, PollPanics, LeaveScope, TokioSwapOut
  <2>2. saved[f] = owner[f]
    <3>1. Len(stack) \in 1..Len(stack) /\ f = stack[Len(stack)]
      BY PollEndStack
    <3> QED BY <1>1, <3>1 DEF TokioInv
  <2>3. \A i \in 1..Len(stack') : i \in 1..Len(stack) /\ stack'[i] = stack[i]
    BY PollEndStack
  <2>4. TokioInv'
    BY <1>0, <1>1, <2>1, <2>2, <2>3, PollEndStack DEF TokioInv
  <2> QED BY <1>0, <1>1, <2>4, PollEndStack
<1>2. CASE runtime = "async_std" /\ "async_std" \notin Free
  <2>1. AsyncStdInv /\ ~PollPanics(f) /\ f = Top /\ f \in Alive
    BY <1>2, PollEndStack, TopFacts DEF PollPanics
  <2>2. CASE PollPending(f)
    <3>1. UNCHANGED <<slot, saved, state, owner>>
      BY <1>2, <2>2 DEF PollPending, LeaveScope, AsyncStdRestore
    <3>2. AsyncStdInv'
      BY <2>1, <3>1 DEF AsyncStdInv, Alive
    <3> QED BY <1>0, <1>2, <3>2, PollEndStack
  <2>3. CASE PollReady(f)
    <3>1. Pending(Top) = {}
      <4>1. Pending(Top) \subseteq {f}
        BY <1>2, <2>1, <2>3 DEF PollReady, MayRun
      <4>2. f \notin Pending(Top)
        BY PollEndStack DEF Pending
      <4> QED BY <4>1, <4>2
    <3>2. slot = f /\ \A g \in Alive : owner[g] # f
      BY <2>1, <3>1, AwaitingNothing
    <3>3. /\ slot' = owner[f] /\ UNCHANGED <<saved, owner>>
          /\ Alive' = Alive \ {f}
      BY <1>2, <2>1, <2>3 DEF PollReady, LeaveScope, AsyncStdRestore, AsyncStdInv, TypeOK, Alive
    <3>4. AsyncStdInv'
      <4>1. slot' \in Alive' \cup {"task"}
        BY <2>1, <3>2, <3>3 DEF AsyncStdInv
      <4>2. ASSUME NEW g \in Alive'
            PROVE  /\ saved'[g] = owner'[g]
                   /\ owner'[g] \in Alive' \cup {"task"}
                   /\ owner'[g] # slot'
        BY <2>1, <3>2, <3>3 DEF AsyncStdInv
      <4>3. ASSUME NEW g \in Alive', NEW h \in Alive', owner'[g] = owner'[h]
            PROVE  g = h
        BY <2>1, <3>3, <4>3 DEF AsyncStdInv
      <4>4. ASSUME NEW p \in Alive' \cup {"task"}, p # slot'
            PROVE  \E g \in Alive' : owner'[g] = p
        <5>1. p \in Alive \cup {"task"} /\ p # slot
          BY <3>2, <3>3, <4>4, FreeAssumption DEF Alive
        <5>2. PICK g \in Alive : owner[g] = p
          BY <2>1, <5>1 DEF AsyncStdInv
        <5> QED BY <3>3, <4>4, <5>2
      <4> QED BY <4>1, <4>2, <4>3, <4>4 DEF AsyncStdInv
    <3> QED BY <1>0, <1>2, <3>4, PollEndStack
  <2> QED BY <2>1, <2>2, <2>3
<1>3. CASE runtime = "async_std" /\ "async_std" \in Free
  BY <1>0, <1>3, PollEndStack
<1> QED BY <1>1, <1>2, <1>3 DEF TypeOK

\* Dropping an unfinished future touches no future of the stack.
LEMMA DropPendingIInv ==
  ASSUME IInv, NEW f \in Fut, DropPending(f)
  PROVE  IInv'
<1> USE DEF IInv, DropPending
<1>1. TypeOK' /\ LocalsInv'
  BY DEF TypeOK, LocalsInv
<1>2. StackInv'
  <2>1. f \notin Range(stack)
    BY DEF Pending
  <2>2. \A i \in 1..Len(stack) : stack[i] # f
    BY <2>1, LenProperties DEF TypeOK, Range
  <2> QED BY <2>2 DEF TypeOK, StackInv
<1>3. runtime' = "tokio" => TokioInv'
  BY DEF TokioInv, Top
<1> QED BY <1>1, <1>2, <1>3

\* Every step of the task preserves the invariant.
LEMMA NextIInv == IInv /\ [Next]_vars => IInv'
<1> SUFFICES ASSUME IInv, [Next]_vars PROVE IInv'
  OBVIOUS
<1>1. CASE UNCHANGED vars
  BY <1>1 DEF vars, IInv, TypeOK, StackInv, LocalsInv, TokioInv, AsyncStdInv, Alive, Top
<1>2. CASE Next
  BY <1>2, PollStartIInv, PollEndIInv, DropPendingIInv DEF Next
<1> QED BY <1>1, <1>2

\* The invariant holds of every task at all times.
THEOREM Inductive == Spec => []IInv
<1> QED BY InitIInv, NextIInv, PTL DEF Spec

\* The slot, the scopes and the stack of polls have the types the code gives
\* them: a poll that ends always finds the future it belongs to.
THEOREM TypeCorrect == Spec => []TypeOK
<1>1. IInv => TypeOK
  BY DEF IInv
<1> QED BY <1>1, Inductive, PTL

\* The running code finds the locals that its own innermost scope should have
\* been given, through all the scopes that inherited them: on tokio for
\* every program, on async-std for programs that only await scoped futures.
THEOREM OwnScope ==
  ASSUME "async_std" \notin Free
  PROVE  Spec => []SeesOwnLocals
<1>1. IInv => SeesOwnLocals
  <2> SUFFICES ASSUME IInv, runtime \in Free \/ Pending(Top) = {}
               PROVE  slot = Top
    BY CurrentIsOwn DEF SeesOwnLocals, get_task_locals, IInv, LocalsInv
  <2>1. CASE runtime = "tokio"
    BY <2>1 DEF IInv, TokioInv
  <2>2. CASE runtime = "async_std"
    BY <2>2, AwaitingNothing DEF IInv
  <2> QED BY <2>1, <2>2 DEF IInv, TypeOK
<1> QED BY <1>1, Inductive, PTL
=============================================================================
