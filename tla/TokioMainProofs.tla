--------------------------- MODULE TokioMainProofs ---------------------------
(***************************************************************************)
(* The start of a program for any number of threads and any list of        *)
(* arguments: an attribute configures what it says, and the runtime is the *)
(* one it configures.                                                      *)
(***************************************************************************)
EXTENDS TokioMain, QueueLemmas

----------------------------------------------------------------------------
(* The accessors a thread is in.                                           *)

\* A thread is in one accessor, or in asyncio() inside one that needs it.
StackShape == \A t \in Thread :
  \/ stack[t] = <<>>
  \/ \E x \in S!Cell : stack[t] = <<x>>
  \/ \E a \in S!AttrCell : stack[t] = <<a, "ASYNCIO">>

\* What entering and leaving an accessor makes of such a stack.
LEMMA StackFacts ==
  ASSUME NEW x, NEW y
  PROVE  /\ <<x>> # <<>> /\ S!Last(<<x>>) = x /\ S!Front(<<x>>) = <<>>
         /\ <<x, y>> # <<>> /\ S!Last(<<x, y>>) = y /\ S!Front(<<x, y>>) = <<x>>
         /\ Append(<<x>>, y) = <<x, y>>
         /\ Len(<<>>) = 0 /\ Len(<<x>>) = 1 /\ Len(<<x, y>>) = 2
<1>1. Len(<<>>) = 0 /\ Len(<<x>>) = 1 /\ Len(<<x, y>>) = 2
  OBVIOUS
<1>2. <<x>> # <<>> /\ <<x, y>> # <<>>
  BY <1>1
<1>s. <<x>> \in Seq({x, y}) /\ <<x, y>> \in Seq({x, y})
  OBVIOUS
<1>3. Append(<<x>>, y) = <<x, y>>
  <2> DEFINE a == Append(<<x>>, y)
  <2>1. a \in Seq({x, y}) /\ Len(a) = 2 /\ a[1] = x /\ a[2] = y
    BY <1>1, <1>s, AppendProperties
  <2> HIDE DEF a
  <2>2. a = <<x, y>>
    BY <1>1, <1>s, <2>1, SeqEqual
  <2> QED BY <2>2 DEF a
<1>4. S!Last(<<x>>) = x /\ S!Last(<<x, y>>) = y
  BY <1>1 DEF S!Last
<1>5. S!Front(<<x>>) = <<>>
  BY <1>1 DEF S!Front
<1>6. S!Front(<<x, y>>) = <<x>>
  <2> DEFINE q == <<x, y>>
             f == SubSeq(q, 1, 1)
  <2>1. \A i \in 1..1 : q[i] \in {x, y}
    OBVIOUS
  <2>2. f \in Seq({x, y}) /\ Len(f) = 1 /\ f[1] = q[1] /\ q[1] = x
    BY <2>1, SubSeqProperties
  <2>3. S!Front(q) = f
    BY <1>1 DEF S!Front
  <2> HIDE DEF f, q
  <2>4. f = <<x>>
    BY <1>1, <1>s, <2>2, SeqEqual
  <2> QED BY <2>3, <2>4 DEF q
<1> QED BY <1>1, <1>2, <1>3, <1>4, <1>5, <1>6

----------------------------------------------------------------------------
(* The inductive invariant.                                                *)

\* Before the generated main calls its first accessor, or has no main to run.
Starting == {"attribute", "compile_error", "compiled", "init", "rt_init"}
NothingYet == pc \in Starting =>
  /\ stack = [t \in Thread |-> <<>>]
  /\ runtime = New /\ lent = {} /\ ~poisoned /\ panicked = {}
  /\ want = [t \in Thread |-> New]
  /\ driver = "none" /\ main_fut = "none"
  /\ pc # "attribute" \/ calls = <<>>

\* The Configuration says what the arguments that were read say.
AsRead ==
  LET args == item.args
      n == Len(args) - Len(rest)
  IN  /\ n \in Nat
      /\ \A k \in 1..Len(rest) : rest[k] = args[n + k]
      /\ pc = "attribute" /\ item.attribute = "tokio" =>
           /\ \A i \in 1..n : Given(args[i]) /\ config[args[i].name] = args[i].lit.value
           /\ \A i, j \in 1..n : args[i].name = args[j].name => i = j
           /\ (\A i \in 1..n : args[i].name # "flavor") => config.flavor = "none"
           /\ (\A i \in 1..n : args[i].name # "worker_threads") => config.worker_threads = 0

\* What the expansion may end with.
Configured ==
  /\ item.args \in Seq(Arg)
  /\ pc = "attribute" => config \in Configuration
  /\ pc \in {"init", "rt_init"} /\ item.attribute # "async_std" => config \in FinalConfig
  /\ pc = "init" => item.attribute # "async_std"
  /\ pc # "extension" \/ ~HasMain(item)

\* The programs whose runtime is the one their main configures.
OwnRuntime == item.attribute \in {"tokio", "run_forever"}

\* Until the runtime is there its builder is the configured one and nobody
\* lends another; it is there before other code of the program runs, because
\* the main thread gets it first, or panics.
Chosen == OwnRuntime =>
  /\ runtime \in {New, config}
  /\ pc \notin Starting \ {"rt_init"} /\ runtime = New =>
       builder = config /\ \A t \in Thread : want[t] = New
  /\ pc \in {"init", "rt_init"} => calls = MainCalls
  /\ pc = "calls" =>
       \/ runtime # New \/ "main" \in panicked
       \/ "TOKIO_RUNTIME" \in Range(calls) \/ stack["main"] = <<"TOKIO_RUNTIME">>
  /\ pc = "loop" \/ main_fut # "none" => runtime # New
  /\ pc = "calls" /\ "main" \in panicked => stack["main"] = <<>>

IInv ==
  /\ TypeOK
  /\ StackShape /\ S!OneRuntime
  /\ NothingYet
  /\ AsRead /\ Configured /\ ConfigAsWritten
  /\ Chosen

----------------------------------------------------------------------------
(* The statics.                                                            *)

Statics == S!SingletonsTypeOK /\ StackShape /\ S!OneRuntime

\* What stands for no runtime is none that can be built or lent.
LEMMA RuntimeKinds ==
  /\ New \notin FinalConfig /\ New \notin Lendable
  /\ multi_thread \in FinalConfig
  /\ \A b \in FinalConfig : b \notin Lendable
  /\ LateBuilder \subseteq FinalConfig
<1>1. /\ New.flavor = "none" /\ multi_thread.flavor = "multi_thread"
      /\ \A r \in Lendable : r.flavor = "lent"
      /\ \A b \in FinalConfig : b.flavor \in Flavor
  BY DEF New, multi_thread, Lendable, FinalConfig
<1>2. multi_thread \in FinalConfig /\ LateBuilder \subseteq FinalConfig
  BY DEF multi_thread, LateBuilder, FinalConfig, Flavor
<1> QED BY <1>1, <1>2 DEF Flavor

\* The threads are none of the states of a cell.
LEMMA ThreadFacts ==
  /\ "main" \in Thread /\ "w1" \in Thread
  /\ \A t \in Thread : t \notin {"empty", "full", "free"}
BY TokioMainAssumption DEF Thread

\* Entering and leaving accessors keeps the shape of the stack.
LEMMA StackStep ==
  ASSUME Statics, NEW t \in Thread
  PROVE  /\ stack[t] # <<>> /\ stack' = [stack EXCEPT ![t] = S!Front(@)] =>
              /\ stack' \in [Thread -> Seq(S!Cell)] /\ StackShape'
              /\ \A x : stack[t] = <<x>> => stack'[t] = <<>>
              /\ S!Last(stack[t]) = "TOKIO_RUNTIME" => stack'[t] = <<>>
              /\ \A u \in Thread \ {t} : stack'[u] = stack[u]
         /\ \A x \in S!Cell : stack' = [stack EXCEPT ![t] = <<x>>] =>
              /\ stack' \in [Thread -> Seq(S!Cell)] /\ StackShape'
              /\ stack'[t] = <<x>>
              /\ \A u \in Thread \ {t} : stack'[u] = stack[u]
         /\ \A x \in S!AttrCell :
              S!InCell(t, x) /\ stack' = [stack EXCEPT ![t] = Append(@, "ASYNCIO")] =>
                /\ stack' \in [Thread -> Seq(S!Cell)] /\ StackShape'
                /\ stack[t] # <<"TOKIO_RUNTIME">>
                /\ \A u \in Thread \ {t} : stack'[u] = stack[u]
<1>1. stack \in [Thread -> Seq(S!Cell)] /\ StackShape
  BY DEF Statics, S!SingletonsTypeOK
<1>2. ASSUME NEW x \in S!Cell
      PROVE  <<x>> \in Seq(S!Cell) /\ <<x, "ASYNCIO">> \in Seq(S!Cell) /\ <<>> \in Seq(S!Cell)
  BY DEF S!Cell, S!ImportCell
<1>3. S!AttrCell \subseteq S!Cell /\ "TOKIO_RUNTIME" \notin S!AttrCell /\ "ASYNCIO" \notin S!AttrCell
  BY DEF S!Cell, S!AttrCell
<1>4. ASSUME NEW q, q \in Seq(S!Cell), stack' = [stack EXCEPT ![t] = q],
             \/ q = <<>>
             \/ \E x \in S!Cell : q = <<x>>
             \/ \E a \in S!AttrCell : q = <<a, "ASYNCIO">>
      PROVE  /\ stack' \in [Thread -> Seq(S!Cell)] /\ StackShape'
             /\ stack'[t] = q
             /\ \A u \in Thread \ {t} : stack'[u] = stack[u]
  <2>1. \A u \in Thread : stack'[u] = IF u = t THEN q ELSE stack[u]
    BY <1>1, <1>4
  <2>2. stack' \in [Thread -> Seq(S!Cell)]
    BY <1>1, <1>4
  <2>3. StackShape'
    BY <1>1, <1>4, <2>1 DEF StackShape
  <2> QED BY <2>1, <2>2, <2>3
<1>5. CASE stack[t] = <<>>
  BY <1>2, <1>4, <1>5 DEF S!InCell
<1>6. ASSUME NEW x \in S!Cell, stack[t] = <<x>>
      PROVE  /\ S!Front(stack[t]) = <<>>
             /\ S!Last(stack[t]) = x /\ Append(stack[t], "ASYNCIO") = <<x, "ASYNCIO">>
             /\ stack[t] = <<"TOKIO_RUNTIME">> => x = "TOKIO_RUNTIME"
  <2>1. \A y : S!Last(<<y>>) = y
    BY StackFacts
  <2> QED BY <1>6, <2>1, StackFacts
<1>7. ASSUME NEW a \in S!AttrCell, stack[t] = <<a, "ASYNCIO">>
      PROVE  /\ S!Front(stack[t]) = <<a>>
             /\ S!Last(stack[t]) = "ASYNCIO" /\ \A x : stack[t] # <<x>>
  <2>1. /\ S!Front(<<a, "ASYNCIO">>) = <<a>> /\ S!Last(<<a, "ASYNCIO">>) = "ASYNCIO"
        /\ Len(<<a, "ASYNCIO">>) = 2
    BY StackFacts
  <2>2. \A x : Len(<<x>>) = 1
    BY StackFacts
  <2> QED BY <1>7, <2>1, <2>2
<1>8. CASE \E x \in S!Cell : stack[t] = <<x>>
  <2>1. PICK x \in S!Cell : stack[t] = <<x>>
    BY <1>8
  <2> QED BY <1>2, <1>3, <1>4, <1>6, <2>1 DEF S!InCell
<1>9. CASE \E a \in S!AttrCell : stack[t] = <<a, "ASYNCIO">>
  <2>1. PICK a \in S!AttrCell : stack[t] = <<a, "ASYNCIO">>
    BY <1>9
  <2> QED BY <1>2, <1>3, <1>4, <1>7, <2>1 DEF S!InCell
<1> QED BY <1>1, <1>5, <1>8, <1>9 DEF StackShape

\* A stack of that shape is two deep at most.
LEMMA StackDepth ==
  ASSUME NEW q,
         \/ q = <<>>
         \/ \E x \in S!Cell : q = <<x>>
         \/ \E a \in S!AttrCell : q = <<a, "ASYNCIO">>
  PROVE  Len(q) <= 2
<1>1. \A x, y : Len(<<>>) = 0 /\ Len(<<x>>) = 1 /\ Len(<<x, y>>) = 2
  BY StackFacts
<1>2. Len(q) \in {0, 1, 2}
  BY <1>1
<1>3. \A n \in {0, 1, 2} : n <= 2
  OBVIOUS
<1> QED BY ONLY <1>2, <1>3, Zenon

\* What a thread inside an accessor may change besides the cell.
Effect(t) ==
  /\ UNCHANGED <<gil, mode, builder>>
  /\ stack[t] # <<>>
  /\ \A u \in Thread : want'[u] \in {want[u], New}
  /\ runtime' = runtime \/ (runtime = New /\ runtime' \in {builder, want[t]})
  /\ \A u \in Thread \ {t} : stack'[u] = stack[u] /\ (u \in panicked' <=> u \in panicked)
  /\ stack[t] = <<"TOKIO_RUNTIME">> =>
       stack'[t] = stack[t] \/ runtime' # New \/ t \in panicked'
  /\ t \in panicked' => t \in panicked \/ stack'[t] = <<>>

\* A thread that finds the cell full or empty, or needs another.
LEMMA AccessCell ==
  ASSUME Statics, NEW t \in Thread, S!Found(t) \/ S!Enter(t) \/ S!NeedAsyncio(t)
  PROVE  Statics' /\ Effect(t)
<1> USE DEF Statics
<1>s. /\ stack \in [Thread -> Seq(S!Cell)] /\ cell \in [S!Cell -> Thread \cup {"empty", "full"}]
      /\ want \in [Thread -> Lendable \cup {New}] /\ panicked \subseteq Thread
      /\ t \notin {"empty", "full"}
  BY ThreadFacts DEF S!SingletonsTypeOK
<1>d. StackShape' => \A u \in Thread : Len(stack'[u]) <= 2
  BY StackDepth DEF StackShape
<1>1. CASE S!Found(t)
  <2>1. /\ stack[t] # <<>> /\ cell[S!Last(stack[t])] = "full"
        /\ stack' = [stack EXCEPT ![t] = S!Front(@)]
        /\ want' = [want EXCEPT ![t] = New] /\ panicked' = panicked \ {t}
        /\ UNCHANGED <<gil, mode, cell, builder, poisoned, runtime, lent>>
    BY <1>1 DEF S!Found, S!Return, S!gilVars
  <2>2. /\ stack' \in [Thread -> Seq(S!Cell)] /\ StackShape'
        /\ \A u \in Thread \ {t} : stack'[u] = stack[u]
    BY <2>1, StackStep
  <2>3. S!SingletonsTypeOK'
    BY <1>s, <1>d, <2>1, <2>2 DEF S!SingletonsTypeOK, S!Pyo3Runtime
  <2>4. S!OneRuntime'
    BY <2>1 DEF S!OneRuntime
  <2>5. stack[t] = <<"TOKIO_RUNTIME">> => runtime # New
    <3>1. S!Last(<<"TOKIO_RUNTIME">>) = "TOKIO_RUNTIME"
      BY StackFacts
    <3> QED BY <2>1, <3>1 DEF S!OneRuntime
  <2>6. Effect(t)
    BY <1>s, <2>1, <2>2, <2>5 DEF Effect
  <2> QED BY <2>2, <2>3, <2>4, <2>6
<1>2. CASE S!Enter(t)
  <2>1. /\ stack[t] # <<>> /\ cell[S!Last(stack[t])] = "empty"
        /\ cell' = [cell EXCEPT ![S!Last(stack[t])] = t]
        /\ UNCHANGED <<gil, mode, stack, want, builder, poisoned, runtime, lent, panicked>>
    BY <1>2 DEF S!Enter, S!gilVars, S!tokioVars
  <2>2. StackShape'
    BY <2>1 DEF StackShape
  <2>3. S!SingletonsTypeOK'
    BY <1>s, <2>1 DEF S!SingletonsTypeOK, S!Pyo3Runtime
  <2>4. cell'["TOKIO_RUNTIME"] = "full" <=> cell["TOKIO_RUNTIME"] = "full"
    BY <1>s, <2>1
  <2>5. S!OneRuntime'
    BY <2>1, <2>4 DEF S!OneRuntime
  <2>6. Effect(t)
    BY <1>s, <2>1 DEF Effect
  <2> QED BY <2>2, <2>3, <2>5, <2>6
<1>3. CASE S!NeedAsyncio(t)
  <2>1. PICK x \in S!AttrCell : S!InCell(t, x)
    BY <1>3 DEF S!NeedAsyncio
  <2>2. /\ stack[t] # <<>> /\ stack' = [stack EXCEPT ![t] = Append(@, "ASYNCIO")]
        /\ UNCHANGED <<gil, mode, cell, want, builder, poisoned, runtime, lent, panicked>>
    BY <1>3, <2>1 DEF S!NeedAsyncio, S!gilVars, S!tokioVars, S!InCell
  <2>3. /\ stack' \in [Thread -> Seq(S!Cell)] /\ StackShape'
        /\ stack[t] # <<"TOKIO_RUNTIME">>
        /\ \A u \in Thread \ {t} : stack'[u] = stack[u]
    BY <2>1, <2>2, StackStep
  <2>4. S!SingletonsTypeOK'
    BY <1>s, <1>d, <2>2, <2>3 DEF S!SingletonsTypeOK, S!Pyo3Runtime
  <2>5. S!OneRuntime'
    BY <2>2 DEF S!OneRuntime
  <2>6. Effect(t)
    BY <1>s, <2>2, <2>3 DEF Effect
  <2> QED BY <2>3, <2>4, <2>5, <2>6
<1> QED BY <1>1, <1>2, <1>3

\* A thread that completes the initialisation of a cell.
LEMMA AccessFill ==
  ASSUME Statics, NEW t \in Thread, NEW x \in S!Cell, S!Fill(t, x),
         \/ x # "TOKIO_RUNTIME" /\ UNCHANGED tokioVars
         \/ /\ x = "TOKIO_RUNTIME"
            /\ S!Lend(t) \/ S!Build(t)
  PROVE  Statics' /\ Effect(t)
<1> USE DEF Statics
<1>s. /\ stack \in [Thread -> Seq(S!Cell)] /\ cell \in [S!Cell -> Thread \cup {"empty", "full"}]
      /\ want \in [Thread -> Lendable \cup {New}] /\ panicked \subseteq Thread
      /\ builder \in FinalConfig /\ lent \subseteq Lendable
      /\ runtime \in FinalConfig \cup Lendable \cup {New}
      /\ t \notin {"empty", "full"} /\ "TOKIO_RUNTIME" \in S!Cell
  BY ThreadFacts DEF S!SingletonsTypeOK, S!Pyo3Runtime, S!Cell
<1>d. StackShape' => \A u \in Thread : Len(stack'[u]) <= 2
  BY StackDepth DEF StackShape
<1>1. /\ stack[t] # <<>> /\ S!Last(stack[t]) = x /\ cell[x] = t
      /\ cell' = [cell EXCEPT ![x] = "full"]
      /\ stack' = [stack EXCEPT ![t] = S!Front(@)]
      /\ UNCHANGED <<gil, mode>>
  BY DEF S!Fill, S!InCell, S!Return, S!gilVars
<1>2. /\ stack' \in [Thread -> Seq(S!Cell)] /\ StackShape'
      /\ \A u \in Thread \ {t} : stack'[u] = stack[u]
      /\ x = "TOKIO_RUNTIME" => stack'[t] = <<>>
  BY <1>1, StackStep
<1>3. cell' \in [S!Cell -> Thread \cup {"empty", "full"}]
  BY <1>s, <1>1
<1>4. CASE x # "TOKIO_RUNTIME"
  <2>1. UNCHANGED <<want, builder, poisoned, runtime, lent, panicked>>
    BY <1>4 DEF tokioVars
  <2>2. S!SingletonsTypeOK'
    BY <1>s, <1>d, <1>1, <1>2, <1>3, <2>1 DEF S!SingletonsTypeOK, S!Pyo3Runtime
  <2>3. cell'["TOKIO_RUNTIME"] = cell["TOKIO_RUNTIME"]
    BY <1>s, <1>1, <1>4
  <2>4. S!OneRuntime'
    BY <2>1, <2>3 DEF S!OneRuntime
  <2>5. stack[t] # <<"TOKIO_RUNTIME">>
    <3>1. S!Last(<<"TOKIO_RUNTIME">>) = "TOKIO_RUNTIME"
      BY StackFacts
    <3> QED BY <1>1, <1>4, <3>1
  <2>6. Effect(t)
    BY <1>s, <1>1, <1>2, <2>1, <2>5 DEF Effect
  <2> QED BY <1>2, <2>2, <2>4, <2>6
<1>5. CASE x = "TOKIO_RUNTIME"
  <2>1. runtime = New /\ lent = {}
    <3>1. runtime = New
      BY <1>s, <1>1, <1>5 DEF S!OneRuntime
    <3> QED BY <1>s, <3>1, RuntimeKinds DEF S!OneRuntime
  <2>2. cell'["TOKIO_RUNTIME"] = "full"
    BY <1>s, <1>1, <1>5
  <2>3. CASE S!Lend(t)
    <3>1. /\ want[t] # New /\ runtime' = want[t] /\ lent' = lent \cup {want[t]}
          /\ want' = [want EXCEPT ![t] = New] /\ panicked' = panicked \ {t}
          /\ UNCHANGED <<builder, poisoned>>
      BY <2>3 DEF S!Lend
    <3>2. want[t] \in Lendable
      BY <1>s, <3>1
    <3>3. S!SingletonsTypeOK'
      BY <1>s, <1>d, <1>1, <1>2, <1>3, <3>1, <3>2 DEF S!SingletonsTypeOK, S!Pyo3Runtime
    <3>4. S!OneRuntime'
      BY <2>1, <2>2, <3>1, <3>2, RuntimeKinds DEF S!OneRuntime
    <3>5. Effect(t)
      BY <1>s, <1>1, <1>2, <1>5, <2>1, <3>1 DEF Effect
    <3> QED BY <1>2, <3>3, <3>4, <3>5
  <2>4. CASE S!Build(t)
    <3>1. /\ ~poisoned /\ runtime' = builder /\ panicked' = panicked \ {t}
          /\ UNCHANGED <<want, builder, poisoned, lent>>
      BY <2>4 DEF S!Build
    <3>2. builder # New
      BY <1>s, RuntimeKinds
    <3>3. S!SingletonsTypeOK'
      BY <1>s, <1>d, <1>1, <1>2, <1>3, <3>1 DEF S!SingletonsTypeOK, S!Pyo3Runtime
    <3>4. S!OneRuntime'
      BY <2>1, <2>2, <3>1, <3>2 DEF S!OneRuntime
    <3>5. Effect(t)
      BY <1>s, <1>1, <1>2, <1>5, <2>1, <3>1, <3>2 DEF Effect
    <3> QED BY <1>2, <3>3, <3>4, <3>5
  <2> QED BY <1>5, <2>3, <2>4
<1> QED BY <1>4, <1>5

\* A builder that fails: the cell is empty again, and the lock is poisoned.
LEMMA AccessPanics ==
  ASSUME Statics, NEW t \in Thread, S!BuildPanics(t)
  PROVE  Statics' /\ Effect(t)
<1> USE DEF Statics
<1>s. /\ stack \in [Thread -> Seq(S!Cell)] /\ cell \in [S!Cell -> Thread \cup {"empty", "full"}]
      /\ panicked \subseteq Thread /\ want \in [Thread -> Lendable \cup {New}]
      /\ t \notin {"empty", "full"} /\ "TOKIO_RUNTIME" \in S!Cell
  BY ThreadFacts DEF S!SingletonsTypeOK, S!Cell
<1>d. StackShape' => \A u \in Thread : Len(stack'[u]) <= 2
  BY StackDepth DEF StackShape
<1>1. /\ stack[t] # <<>> /\ S!Last(stack[t]) = "TOKIO_RUNTIME" /\ cell["TOKIO_RUNTIME"] = t
      /\ cell' = [cell EXCEPT !["TOKIO_RUNTIME"] = "empty"]
      /\ stack' = [stack EXCEPT ![t] = S!Front(@)]
      /\ poisoned' = TRUE /\ panicked' = panicked \cup {t}
      /\ UNCHANGED <<gil, mode, want, builder, runtime, lent>>
  BY DEF S!BuildPanics, S!InCell, S!Return, S!gilVars
<1>2. /\ stack' \in [Thread -> Seq(S!Cell)] /\ StackShape' /\ stack'[t] = <<>>
      /\ \A u \in Thread \ {t} : stack'[u] = stack[u]
  BY <1>1, StackStep
<1>3. cell' \in [S!Cell -> Thread \cup {"empty", "full"}] /\ cell'["TOKIO_RUNTIME"] = "empty"
  BY <1>s, <1>1
<1>4. runtime = New
  BY <1>s, <1>1 DEF S!OneRuntime
<1>5. S!SingletonsTypeOK'
  BY <1>s, <1>d, <1>1, <1>2, <1>3 DEF S!SingletonsTypeOK, S!Pyo3Runtime
<1>6. S!OneRuntime'
  BY <1>1, <1>3, <1>4, RuntimeKinds DEF S!OneRuntime
<1>7. Effect(t)
  BY <1>s, <1>1, <1>2 DEF Effect
<1> QED BY <1>2, <1>5, <1>6, <1>7

\* Every step of a thread inside an accessor.
LEMMA AccessStep ==
  ASSUME Statics, NEW t \in Thread, S!Access(t)
  PROVE  Statics' /\ Effect(t)
<1>1. CASE \/ S!asyncio(t) \/ S!contextvars(t) \/ S!from_code(t) \/ S!ensure_future(t)
           \/ S!get_running_loop(t) \/ S!py_true(t) \/ S!py_false(t)
  <2>1. \E x \in S!Cell : S!Fill(t, x) /\ x # "TOKIO_RUNTIME"
    BY <1>1 DEF S!asyncio, S!contextvars, S!from_code, S!ensure_future, S!get_running_loop,
                S!py_true, S!py_false, S!Cell, S!ImportCell, S!AttrCell, S!BoolCell
  <2>2. UNCHANGED tokioVars
    BY <1>1 DEF S!asyncio, S!contextvars, S!from_code, S!ensure_future, S!get_running_loop,
                S!py_true, S!py_false, S!tokioVars, tokioVars
  <2> QED BY <2>1, <2>2, AccessFill
<1>2. CASE S!Lend(t) \/ S!Build(t)
  <2>1. "TOKIO_RUNTIME" \in S!Cell /\ S!Fill(t, "TOKIO_RUNTIME")
    BY <1>2 DEF S!Lend, S!Build, S!Cell
  <2> QED BY <1>2, <2>1, AccessFill
<1> QED BY <1>1, <1>2, AccessCell, AccessPanics DEF S!Access

\* A thread enters an accessor, to read a cell or to lend a runtime.
LEMMA EnterStep ==
  ASSUME Statics, NEW t \in Thread, NEW x \in S!Cell,
         stack' = [stack EXCEPT ![t] = <<x>>],
         \/ UNCHANGED want
         \/ \E r \in Lendable : want' = [want EXCEPT ![t] = r],
         UNCHANGED <<gil, mode, cell, builder, poisoned, runtime, lent, panicked>>
  PROVE  Statics' /\ stack'[t] = <<x>> /\ \A u \in Thread \ {t} : stack'[u] = stack[u]
<1>1. /\ stack' \in [Thread -> Seq(S!Cell)] /\ StackShape'
      /\ stack'[t] = <<x>> /\ \A u \in Thread \ {t} : stack'[u] = stack[u]
  BY StackStep
<1>2. \A u \in Thread : Len(stack'[u]) <= 2
  BY <1>1, StackDepth DEF StackShape
<1>3. want' \in [Thread -> Lendable \cup {New}]
  BY DEF Statics, S!SingletonsTypeOK
<1>4. S!SingletonsTypeOK'
  BY <1>1, <1>2, <1>3 DEF Statics, S!SingletonsTypeOK, S!Pyo3Runtime
<1>5. S!OneRuntime'
  BY DEF Statics, S!OneRuntime
<1> QED BY <1>1, <1>4, <1>5 DEF Statics

\* A step that changes no cell and no stack, but who runs or the builder.
LEMMA QuietStep ==
  ASSUME Statics,
         gil' \in Thread \cup {"free"}, mode' \in [Thread -> {"off", "rust", "python"}],
         builder' \in FinalConfig, panicked' \subseteq Thread,
         UNCHANGED <<stack, cell, want, poisoned, runtime, lent>>
  PROVE  Statics'
<1>1. S!SingletonsTypeOK'
  BY DEF Statics, S!SingletonsTypeOK, S!Pyo3Runtime
<1>2. S!OneRuntime' /\ StackShape'
  BY DEF Statics, S!OneRuntime, StackShape
<1> QED BY <1>1, <1>2 DEF Statics

----------------------------------------------------------------------------
(* The arguments.                                                          *)

\* A step of the main thread once the attribute is expanded.
Progress ==
  /\ UNCHANGED <<item, rest, config>>
  /\ \/ pc' = pc
     \/ pc = "init" /\ pc' = "rt_init"
     \/ pc \in {"rt_init", "calls", "loop"} /\ pc' \in {"calls", "loop", "exit", "panicked"}

LEMMA ProgressKeeps ==
  ASSUME IInv, Progress
  PROVE  AsRead' /\ Configured' /\ ConfigAsWritten'
<1> USE DEF IInv, Progress
<1>1. AsRead'
  BY DEF AsRead, Given
<1>2. Configured'
  BY DEF Configured, HasMain
<1>3. ConfigAsWritten'
  <2>1. pc' = pc \/ (pc \notin {"attribute", "compile_error"} /\ pc' \notin {"attribute", "compile_error"})
    OBVIOUS
  <2> QED BY <2>1 DEF ConfigAsWritten, Given
<1> QED BY <1>1, <1>2, <1>3

\* What reading one more argument makes of a Configuration.
LEMMA ReadsOne ==
  ASSUME NEW c \in Configuration, NEW a \in Arg
  PROVE  LET d == parse_arg(c, a)
         IN  /\ Failed \notin Configuration
             /\ d = Failed => \/ ~Given(a)
                              \/ a.name = "flavor" /\ c.flavor # "none"
                              \/ a.name = "worker_threads" /\ c.worker_threads # 0
             /\ d # Failed =>
                  /\ Given(a) /\ d \in Configuration /\ d[a.name] = a.lit.value
                  /\ a.name = "flavor" => c.flavor = "none" /\ d.worker_threads = c.worker_threads
                  /\ a.name = "worker_threads" => c.worker_threads = 0 /\ d.flavor = c.flavor
<1> DEFINE d == parse_arg(c, a)
<1>c. c.flavor \in Flavor \cup {"none"} /\ c.worker_threads \in {0, 1, MaxUsize}
  BY DEF Configuration
<1>f. Failed \notin Configuration
  <2>1. Failed.flavor = "error"
    BY DEF Failed
  <2> QED BY <2>1 DEF Configuration, Flavor
<1>1. CASE a.kind # "name_value"
  <2>1. d = Failed
    BY <1>1 DEF parse_arg
  <2> QED BY <1>1, <1>f, <2>1 DEF Given
<1>2. CASE a.kind = "name_value"
  <2>1. a.name \in {"flavor", "worker_threads", "core_threads"} /\ a.lit \in Lit
    BY <1>2 DEF Arg
  <2>2. CASE a.name = "flavor"
    <3>1. d = set_flavor(c, a.lit)
      BY <1>2, <2>2 DEF parse_arg
    <3>2. parse_string(a.lit) = "error" <=> ~(a.lit.type = "str" /\ a.lit.value \in Flavor)
      BY DEF parse_string, from_str, Flavor
    <3>3. parse_string(a.lit) # "error" => parse_string(a.lit) = a.lit.value
      BY DEF parse_string, from_str
    <3>4. CASE c.flavor # "none" \/ parse_string(a.lit) = "error"
      <4>1. d = Failed
        BY <3>1, <3>4 DEF set_flavor
      <4> QED BY <1>f, <2>2, <3>2, <3>4, <4>1 DEF Given
    <3>5. CASE ~(c.flavor # "none" \/ parse_string(a.lit) = "error")
      <4>1. d = [c EXCEPT !.flavor = a.lit.value]
        BY <3>1, <3>3, <3>5 DEF set_flavor
      <4>2. Given(a) /\ a.lit.value \in Flavor
        BY <1>2, <2>2, <3>2, <3>5 DEF Given
      <4>3. d \in Configuration /\ d.flavor = a.lit.value /\ d.worker_threads = c.worker_threads
        BY <4>1, <4>2 DEF Configuration
      <4> QED BY <1>f, <2>2, <3>5, <4>2, <4>3
    <3> QED BY <3>4, <3>5
  <2>3. CASE a.name = "worker_threads"
    <3>1. d = set_worker_threads(c, a.lit)
      BY <1>2, <2>3 DEF parse_arg
    <3>2. parse_int(a.lit) /\ a.lit.value # 0 <=> a.lit.type = "int" /\ a.lit.value \in 1..MaxUsize
      BY <2>1, TokioMainAssumption DEF parse_int, Lit
    <3>3. parse_int(a.lit) => a.lit.value \in {0, 1, MaxUsize}
      BY <2>1, TokioMainAssumption DEF parse_int, Lit
    <3>4. CASE c.worker_threads # 0 \/ ~parse_int(a.lit) \/ a.lit.value = 0
      <4>1. d = Failed
        BY <3>1, <3>4 DEF set_worker_threads
      <4> QED BY <1>f, <2>3, <3>2, <3>4, <4>1 DEF Given
    <3>5. CASE ~(c.worker_threads # 0 \/ ~parse_int(a.lit) \/ a.lit.value = 0)
      <4>1. d = [c EXCEPT !.worker_threads = a.lit.value]
        BY <3>1, <3>5 DEF set_worker_threads
      <4>2. Given(a)
        BY <1>2, <2>3, <3>2, <3>5 DEF Given
      <4>3. d \in Configuration /\ d.worker_threads = a.lit.value /\ d.flavor = c.flavor
        BY <3>3, <3>5, <4>1 DEF Configuration
      <4> QED BY <1>f, <2>3, <3>5, <4>2, <4>3
    <3> QED BY <3>4, <3>5
  <2>4. CASE a.name = "core_threads"
    <3>1. d = Failed
      BY <1>2, <2>4 DEF parse_arg
    <3> QED BY <1>f, <2>4, <3>1 DEF Given
  <2> QED BY <2>1, <2>2, <2>3, <2>4
<1> QED BY <1>1, <1>2

\* An argument is read: the Configuration says what it said and what this one
\* says, or this one is not accepted.
LEMMA ParseArgReads ==
  ASSUME IInv, ParseArg
  PROVE  AsRead' /\ Configured' /\ ConfigAsWritten' /\ rest' \in Seq(Arg)
         /\ config' \in Configuration \cup {Failed}
<1> DEFINE args == item.args
           a == Head(rest)
           n == Len(args) - Len(rest)
<1>1. /\ pc = "attribute" /\ ~Refused /\ rest # <<>>
      /\ config' = parse_arg(config, a) /\ rest' = Tail(rest)
      /\ pc' = IF config' = Failed THEN "compile_error" ELSE pc
      /\ item' = item
  BY DEF ParseArg
<1>2. /\ rest \in Seq(Arg) /\ args \in Seq(Arg) /\ config \in Configuration
  BY <1>1 DEF IInv, TypeOK, Configured
<1>3. /\ Len(args) \in Nat /\ DOMAIN args = 1..Len(args) /\ n \in Nat
      /\ \A k \in 1..Len(rest) : rest[k] = args[n + k]
  BY <1>2, SequenceFacts DEF IInv, AsRead
<1>4. /\ rest' \in Seq(Arg) /\ a \in Arg /\ a = rest[1]
      /\ Len(rest) \in Nat \ {0} /\ Len(rest') = Len(rest) - 1
      /\ \A k \in 1..Len(rest') : rest'[k] = rest[k + 1]
  BY <1>1, <1>2, HeadTailProperties, EmptySeq, LenProperties
<1>5. /\ n + 1 \in 1..Len(args) /\ a = args[n + 1]
      /\ Len(args) - Len(rest') = n + 1
      /\ \A k \in 1..Len(rest') : rest'[k] = args[(n + 1) + k]
  <2>1. n + Len(rest) = Len(args)
    BY <1>3, <1>4
  <2>2. 1 \in 1..Len(rest) /\ \A k \in 1..Len(rest') : k + 1 \in 1..Len(rest)
    BY <1>4
  <2>3. a = args[n + 1]
    BY <1>3, <1>4, <2>2
  <2>4. ASSUME NEW k \in 1..Len(rest')
        PROVE  rest'[k] = args[(n + 1) + k]
    <3>1. rest'[k] = rest[k + 1] /\ rest[k + 1] = args[n + (k + 1)]
      BY <1>3, <1>4, <2>2
    <3>2. n \in Nat /\ k \in Nat
      BY <1>3, <1>4
    <3>3. \A x, y \in Nat : x + (y + 1) = (x + 1) + y
      OBVIOUS
    <3>4. n + (k + 1) = (n + 1) + k
      BY ONLY <3>2, <3>3, Zenon
    <3> QED BY <3>1, <3>4
  <2>5. n + 1 \in 1..Len(args) /\ Len(args) - Len(rest') = n + 1
    BY <1>3, <1>4, <2>1
  <2> QED BY <2>3, <2>4, <2>5
<1>6. /\ Failed \notin Configuration
      /\ config' = Failed => \/ ~Given(a)
                             \/ a.name = "flavor" /\ config.flavor # "none"
                             \/ a.name = "worker_threads" /\ config.worker_threads # 0
      /\ config' # Failed =>
           /\ Given(a) /\ config' \in Configuration /\ config'[a.name] = a.lit.value
           /\ a.name = "flavor" => config.flavor = "none" /\ config'.worker_threads = config.worker_threads
           /\ a.name = "worker_threads" => config.worker_threads = 0 /\ config'.flavor = config.flavor
  BY <1>1, <1>2, <1>4, ReadsOne
<1>7. item.attribute = "tokio" =>
        /\ \A i \in 1..n : Given(args[i]) /\ config[args[i].name] = args[i].lit.value
        /\ \A i, j \in 1..n : args[i].name = args[j].name => i = j
        /\ (\A i \in 1..n : args[i].name # "flavor") => config.flavor = "none"
        /\ (\A i \in 1..n : args[i].name # "worker_threads") => config.worker_threads = 0
  BY <1>1 DEF IInv, AsRead
<1>8. CASE config' = Failed
  <2>1. pc' = "compile_error"
    BY <1>1, <1>8
  <2>2. AsRead'
    BY <1>1, <1>3, <1>5, <2>1 DEF AsRead
  <2>3. Configured'
    BY <1>1, <1>2, <2>1 DEF Configured
  <2>4. ConfigAsWritten'
    <3>1. SUFFICES ASSUME item.attribute = "tokio", \A i \in DOMAIN args : Given(args[i]),
                          \A i, j \in DOMAIN args : args[i].name = args[j].name => i = j
                   PROVE  FALSE
      BY <1>1, <2>1 DEF ConfigAsWritten, Given
    <3>2. Given(a)
      <4>1. n + 1 \in DOMAIN args /\ a = args[n + 1]
        BY <1>3, <1>5
      <4> QED BY ONLY <3>1, <4>1, Zenon
    <3>3. PICK i \in 1..n : args[i].name = a.name
      BY <1>6, <1>7, <1>8, <3>1, <3>2
    <3>4. i \in 1..Len(args) /\ i # n + 1
      BY <1>3, <1>5
    <3> QED BY <1>3, <1>5, <3>1, <3>3, <3>4
  <2> QED BY <1>4, <1>8, <2>2, <2>3, <2>4
<1>9. CASE config' # Failed
  <2>1. pc' = "attribute"
    BY <1>1, <1>9
  <2>2. ASSUME item.attribute = "tokio"
        PROVE  /\ \A i \in 1..(n + 1) : Given(args[i]) /\ config'[args[i].name] = args[i].lit.value
               /\ \A i, j \in 1..(n + 1) : args[i].name = args[j].name => i = j
               /\ (\A i \in 1..(n + 1) : args[i].name # "flavor") => config'.flavor = "none"
               /\ (\A i \in 1..(n + 1) : args[i].name # "worker_threads") => config'.worker_threads = 0
    <3>1. a.name \in {"flavor", "worker_threads"}
      BY <1>6, <1>9 DEF Given
    <3>2. \A i \in 1..n : Given(args[i]) /\ config[args[i].name] = args[i].lit.value
      BY <1>7, <2>2
    <3>3. \A i \in 1..n : args[i].name # a.name
      <4> SUFFICES ASSUME NEW i \in 1..n, args[i].name = a.name
                   PROVE  FALSE
        OBVIOUS
      <4>1. Given(args[i]) /\ config[a.name] = args[i].lit.value
        BY <3>2
      <4>2. CASE a.name = "flavor"
        <5>1. args[i].lit.value \in Flavor /\ config.flavor = args[i].lit.value
          BY <4>1, <4>2 DEF Given
        <5> QED BY <1>6, <1>9, <4>2, <5>1 DEF Flavor
      <4>3. CASE a.name = "worker_threads"
        <5>1. args[i].lit.value \in 1..MaxUsize /\ config.worker_threads = args[i].lit.value
          BY <4>1, <4>3 DEF Given
        <5> QED BY <1>6, <1>9, <4>3, <5>1, TokioMainAssumption
      <4> QED BY <3>1, <4>2, <4>3
    <3>4. \A i \in 1..n : args[i].name \in {"flavor", "worker_threads"}
      BY <3>2 DEF Given
    <3>5. \A i \in 1..n : config'[args[i].name] = config[args[i].name]
      BY <1>6, <1>9, <3>1, <3>3, <3>4
    <3>6. \A i \in 1..(n + 1) : i \in 1..n \/ i = n + 1
      BY <1>3
    <3>7. \A i \in 1..(n + 1) : Given(args[i]) /\ config'[args[i].name] = args[i].lit.value
      BY <1>5, <1>6, <1>9, <3>2, <3>5, <3>6
    <3>8. \A i, j \in 1..(n + 1) : args[i].name = args[j].name => i = j
      BY <1>5, <1>7, <2>2, <3>3, <3>6
    <3>9. \A i \in 1..n : i \in 1..(n + 1)
      BY <1>3
    <3>10. n + 1 \in 1..(n + 1)
      BY <1>3
    <3>11. (\A i \in 1..(n + 1) : args[i].name # "flavor") => config'.flavor = "none"
      BY <1>5, <1>6, <1>7, <1>9, <2>2, <3>1, <3>9, <3>10
    <3>12. (\A i \in 1..(n + 1) : args[i].name # "worker_threads") => config'.worker_threads = 0
      BY <1>5, <1>6, <1>7, <1>9, <2>2, <3>1, <3>9, <3>10
    <3> QED BY <3>7, <3>8, <3>11, <3>12
  <2>3. AsRead'
    BY <1>1, <1>3, <1>5, <2>2 DEF AsRead, Given
  <2>4. Configured'
    BY <1>1, <1>2, <1>6, <1>9, <2>1 DEF Configured
  <2>5. ConfigAsWritten'
    BY <2>1 DEF ConfigAsWritten
  <2> QED BY <1>4, <1>6, <1>9, <2>3, <2>4, <2>5
<1> QED BY <1>8, <1>9

\* build turns a Configuration into the one the program runs with, or fails.
LEMMA BuildFacts ==
  ASSUME NEW c \in Configuration
  PROVE  LET d == build(c)
         IN  /\ Failed \notin Configuration /\ Failed \notin FinalConfig
             /\ d = Failed <=> c.flavor = "current_thread" /\ c.worker_threads # 0
             /\ d # Failed =>
                  /\ d \in FinalConfig /\ d \in Configuration
                  /\ d.worker_threads = c.worker_threads
                  /\ d.flavor = IF c.flavor = "none" THEN "multi_thread" ELSE c.flavor
<1> DEFINE d == build(c)
           f == IF c.flavor = "none" THEN "multi_thread" ELSE c.flavor
<1>1. Failed \notin Configuration /\ Failed \notin FinalConfig
  <2>1. Failed.flavor = "error"
    BY DEF Failed
  <2> QED BY <2>1 DEF Configuration, FinalConfig, Flavor
<1>2. f \in Flavor /\ (f = "current_thread" <=> c.flavor = "current_thread")
  BY DEF Configuration, Flavor
<1>3. d = IF f = "current_thread" /\ c.worker_threads # 0 THEN Failed ELSE [c EXCEPT !.flavor = f]
  BY DEF build
<1> HIDE DEF f, d
<1>4. LET e == [c EXCEPT !.flavor = f]
      IN  /\ e \in FinalConfig /\ e \in Configuration
          /\ e.worker_threads = c.worker_threads /\ e.flavor = f
  BY <1>2 DEF Configuration, FinalConfig
<1>5. d = Failed <=> c.flavor = "current_thread" /\ c.worker_threads # 0
  BY <1>1, <1>2, <1>3, <1>4
<1>6. d # Failed => /\ d \in FinalConfig /\ d \in Configuration
                    /\ d.worker_threads = c.worker_threads /\ d.flavor = f
  BY <1>3, <1>4
<1> QED BY <1>1, <1>5, <1>6 DEF d, f

\* All is read: what was accepted is built, and nothing else is.
LEMMA ParseKnobsBuilds ==
  ASSUME IInv, parse_knobs
  PROVE  AsRead' /\ Configured' /\ ConfigAsWritten' /\ config' \in Configuration \cup {Failed}
<1> DEFINE args == item.args
<1>1. /\ pc = "attribute" /\ ~Refused /\ rest = <<>>
      /\ config' = CASE item.attribute = "tokio" -> build(config)
                     [] item.attribute = "async_std" -> New
                     [] OTHER -> [multi_thread EXCEPT !.flavor = "current_thread"]
      /\ pc' = IF config' = Failed THEN "compile_error"
               ELSE IF item \notin Executed THEN "compiled"
               ELSE IF item.attribute = "async_std" THEN "rt_init" ELSE "init"
      /\ item' = item /\ rest' = rest
  BY DEF parse_knobs
<1>2. args \in Seq(Arg) /\ config \in Configuration
  BY <1>1 DEF IInv, Configured
<1>3. /\ pc' \in {"compile_error", "compiled", "rt_init", "init"}
      /\ pc' = "compile_error" <=> config' = Failed
      /\ pc' = "init" => item.attribute # "async_std"
  BY <1>1
<1>4. /\ Len(args) \in Nat /\ DOMAIN args = 1..Len(args)
      /\ Len(rest) = 0 /\ Len(args) - Len(rest) = Len(args)
  BY <1>1, <1>2, SequenceFacts
<1>5. AsRead'
  BY <1>1, <1>3, <1>4 DEF AsRead
<1>6. CASE item.attribute # "tokio"
  <2>1. config' \in Configuration /\ (item.attribute # "async_std" => config' \in FinalConfig)
    BY <1>1, <1>6 DEF New, multi_thread, Configuration, FinalConfig, Flavor
  <2>2. Configured'
    BY <1>1, <1>2, <1>3, <2>1 DEF Configured
  <2>3. ConfigAsWritten'
    BY <1>1, <1>6 DEF ConfigAsWritten
  <2> QED BY <1>5, <2>1, <2>2, <2>3
<1>7. CASE item.attribute = "tokio"
  <2>1. config' = build(config)
    BY <1>1, <1>7
  <2>2. /\ Failed \notin Configuration /\ Failed \notin FinalConfig
        /\ config' = Failed <=> config.flavor = "current_thread" /\ config.worker_threads # 0
        /\ config' # Failed =>
             /\ config' \in FinalConfig /\ config' \in Configuration
             /\ config'.worker_threads = config.worker_threads
             /\ config'.flavor = IF config.flavor = "none" THEN "multi_thread" ELSE config.flavor
    BY <1>2, <2>1, BuildFacts
  <2>3. /\ \A i \in DOMAIN args : Given(args[i]) /\ config[args[i].name] = args[i].lit.value
        /\ \A i, j \in DOMAIN args : args[i].name = args[j].name => i = j
        /\ (\A i \in DOMAIN args : args[i].name # "flavor") => config.flavor = "none"
        /\ (\A i \in DOMAIN args : args[i].name # "worker_threads") => config.worker_threads = 0
    BY <1>1, <1>4, <1>7 DEF IInv, AsRead
  <2>4. item.fn.async /\ ~(item.fn.name = "main" /\ item.fn.inputs)
    BY <1>1, <1>7 DEF Refused, TokioRefuses
  <2>5. \A i \in DOMAIN args :
          \/ args[i].name = "flavor" /\ args[i].lit.value \in Flavor
          \/ args[i].name = "worker_threads" /\ args[i].lit.value # 0
    BY <2>3, TokioMainAssumption DEF Given
  <2>6. Configured'
    BY <1>1, <1>2, <1>3, <2>2 DEF Configured
  <2>7. CASE config' = Failed
    <3>1. PICK i \in DOMAIN args : args[i].name = "flavor"
      BY <2>2, <2>3, <2>7
    <3>2. PICK j \in DOMAIN args : args[j].name = "worker_threads"
      BY <2>2, <2>3, <2>7
    <3>3. args[i].lit.value = "current_thread"
      BY <2>2, <2>3, <2>7, <3>1
    <3>4. i # j
      BY <3>1, <3>2
    <3>5. Len(args) # 1
      <4>1. i \in 1..Len(args) /\ j \in 1..Len(args)
        BY <1>4
      <4>2. \A k \in 1..1 : k = 1
        OBVIOUS
      <4> QED BY <3>4, <4>1, <4>2
    <3>6. ConfigAsWritten'
      BY <1>1, <1>3, <2>7, <3>1, <3>3, <3>5 DEF ConfigAsWritten, Given
    <3> QED BY <1>5, <2>6, <2>7, <3>6
  <2>8. CASE config' # Failed
    <3>1. \A i \in DOMAIN args : config'[args[i].name] = args[i].lit.value
      BY <2>2, <2>3, <2>5, <2>8 DEF Flavor
    <3>2. (\A i \in DOMAIN args : args[i].name # "flavor") => config'.flavor = "multi_thread"
      BY <2>2, <2>3, <2>8
    <3>3. (\A i \in DOMAIN args : args[i].name # "worker_threads") => config'.worker_threads = 0
      BY <2>2, <2>3, <2>8
    <3>4. ASSUME NEW i \in DOMAIN args, args[i].name = "flavor", args[i].lit.value = "current_thread"
          PROVE  Len(args) = 1
      <4>1. config.flavor = "current_thread"
        BY <2>3, <3>4
      <4>2. config.worker_threads = 0
        BY <2>2, <2>8, <4>1
      <4>3. \A j \in DOMAIN args : args[j].name = "flavor"
        BY <2>3, <2>5, <4>2
      <4>4. \A j \in DOMAIN args : j = i
        BY <2>3, <3>4, <4>3
      <4>5. i \in 1..Len(args) /\ \A j \in 1..Len(args) : j = i
        BY <1>4, <4>4
      <4>6. \A m \in Nat : i \in 1..m /\ (\A j \in 1..m : j = i) => m = 1
        OBVIOUS
      <4> QED BY <1>4, <4>5, <4>6
    <3>5. ConfigAsWritten'
      BY <1>1, <2>3, <2>4, <3>1, <3>2, <3>3, <3>4 DEF ConfigAsWritten, Given
    <3> QED BY <1>5, <2>2, <2>6, <2>8, <3>5
  <2> QED BY <2>7, <2>8
<1> QED BY <1>6, <1>7

----------------------------------------------------------------------------
(* Every step keeps the invariant.                                         *)

\* The statics stay what they are when nothing but the GIL moves, or nothing.
LEMMA SameStatics ==
  ASSUME IInv,
         gil' \in Thread \cup {"free"}, mode' \in [Thread -> {"off", "rust", "python"}],
         UNCHANGED <<stack, cell, tokioVars>>
  PROVE  Statics'
<1>1. Statics /\ builder \in FinalConfig /\ panicked \subseteq Thread
  BY DEF IInv, Statics, TypeOK, S!SingletonsTypeOK
<1>2. builder' \in FinalConfig /\ panicked' \subseteq Thread
  BY <1>1 DEF tokioVars
<1> QED BY <1>1, <1>2, QuietStep DEF tokioVars

LEMMA UnchangedStatics ==
  ASSUME IInv, UNCHANGED singletonVars
  PROVE  Statics'
<1>1. gil' \in Thread \cup {"free"} /\ mode' \in [Thread -> {"off", "rust", "python"}]
  BY DEF IInv, TypeOK, S!SingletonsTypeOK, singletonVars
<1> QED BY <1>1, SameStatics DEF singletonVars

\* What is left to show of a step after the expansion.
LEMMA Remains ==
  ASSUME IInv, Progress, Statics', NothingYet', Chosen',
         calls' \in Seq(S!Cell),
         driver' \in {"none", "starting", "get_runtime", "driving", "panicked"},
         main_fut' \in {"none", "spawned", "polled", "done"}
  PROVE  IInv'
<1>1. pc' \in {"attribute", "compile_error", "compiled", "init", "rt_init", "calls", "loop",
               "extension", "exit", "panicked"}
  BY DEF IInv, TypeOK, Progress
<1>2. rest' \in Seq(Arg) /\ config' \in Configuration \cup {Failed}
  BY DEF IInv, TypeOK, Progress
<1> QED BY <1>1, <1>2, ProgressKeeps DEF IInv, TypeOK, Statics

LEMMA InitIInv == Init => IInv
<1> SUFFICES ASSUME Init PROVE IInv
  OBVIOUS
<1>1. /\ item \in Item /\ rest = item.args /\ config = New
      /\ pc = IF HasMain(item) THEN "attribute" ELSE "extension"
      /\ calls = <<>> /\ driver = "none" /\ main_fut = "none"
      /\ mode \in [Thread -> {"off", "rust", "python"}]
  BY DEF Init
<1>2. /\ gil = "free" /\ stack = [t \in Thread |-> <<>>]
      /\ cell = [x \in S!Cell |-> "empty"] /\ want = [t \in Thread |-> New]
      /\ builder = multi_thread /\ poisoned = FALSE /\ runtime = New
      /\ lent = {} /\ panicked = {}
  BY DEF Init, S!SingletonsInit
<1>3. item.args \in Seq(Arg)
  <2>1. \A l \in {"current_thread", "multi_thread"} : NameValue("flavor", "str", l) \in Arg
    BY DEF NameValue, Arg, Lit, Flavor
  <2>2. NameValue("worker_threads", "int", MaxUsize) \in Arg
    BY DEF NameValue, Arg, Lit
  <2>3. <<>> \in Seq(Arg)
    OBVIOUS
  <2>4. \A a, b \in Arg : <<a>> \in Seq(Arg) /\ <<a, b>> \in Seq(Arg)
    OBVIOUS
  <2>5. \A i \in Executed : i.args \in Seq(Arg)
    <3>1. /\ Example_async_std.args = <<>> /\ Example_tokio.args = <<>>
          /\ Test_run_forever.args = <<>> /\ Extension.args = <<>> /\ ExtensionRuntime.args = <<>>
      BY DEF Program, Example_async_std, Example_tokio, Test_run_forever, Extension, ExtensionRuntime
    <3>2. Example_tokio_current_thread.args = <<NameValue("flavor", "str", "current_thread")>>
      BY DEF Program, Example_tokio_current_thread
    <3>3. Example_tokio_multi_thread.args = <<NameValue("flavor", "str", "multi_thread"),
                                              NameValue("worker_threads", "int", MaxUsize)>>
      BY DEF Program, Example_tokio_multi_thread
    <3>4. /\ Example_tokio_current_thread.args \in Seq(Arg)
          /\ Example_tokio_multi_thread.args \in Seq(Arg)
      BY <2>1, <2>2, <2>4, <3>2, <3>3
    <3> QED BY <2>3, <3>1, <3>4 DEF Executed
  <2>6. \A args \in BoundedSeq(Arg, MaxArgs) : args \in Seq(Arg)
    <3>1. BoundedSeq(Arg, MaxArgs) = UNION {[1..n -> Arg] : n \in 0..MaxArgs}
      BY DEF BoundedSeq, SeqOf
    <3>2. \A n \in 0..MaxArgs : n \in Nat
      BY TokioMainAssumption
    <3>3. \A n \in Nat : \A f \in [1..n -> Arg] : f \in Seq(Arg)
      OBVIOUS
    <3> QED BY <3>1, <3>2, <3>3
  <2>7. \A a, args, fn : Program(a, args, fn).args = args
    BY DEF Program
  <2>8. \/ \E args \in BoundedSeq(Arg, MaxArgs) : item = Program("tokio", args, Main)
        \/ \E a, fn : item = Program(a, <<>>, fn)
        \/ item \in Executed
    BY <1>1 DEF Item
  <2>9. (\E args \in BoundedSeq(Arg, MaxArgs) : item = Program("tokio", args, Main))
           => item.args \in Seq(Arg)
    <3> HAVE \E args \in BoundedSeq(Arg, MaxArgs) : item = Program("tokio", args, Main)
    <3>1. PICK args \in BoundedSeq(Arg, MaxArgs) : item = Program("tokio", args, Main)
      OBVIOUS
    <3>2. item.args = args
      BY <2>7, <3>1
    <3> QED BY <2>6, <3>2
  <2>10. (\E a, fn : item = Program(a, <<>>, fn)) => item.args = <<>>
    BY <2>7
  <2> QED BY <2>3, <2>5, <2>8, <2>9, <2>10
<1>4. StackShape
  BY <1>2 DEF StackShape
<1>5. S!SingletonsTypeOK
  <2>1. stack \in [Thread -> Seq(S!Cell)] /\ \A t \in Thread : Len(stack[t]) <= 2
    <3>1. <<>> \in Seq(S!Cell) /\ Len(<<>>) <= 2
      OBVIOUS
    <3> QED BY <1>2, <3>1
  <2> QED BY <1>1, <1>2, <2>1, RuntimeKinds DEF S!SingletonsTypeOK, S!Pyo3Runtime
<1>6. S!OneRuntime
  <2>1. cell["TOKIO_RUNTIME"] = "empty"
    BY <1>2 DEF S!Cell
  <2> QED BY <1>2, <2>1 DEF S!OneRuntime
<1>7. TypeOK
  <2>1. New \in Configuration
    BY DEF New, Configuration
  <2>2. calls \in Seq(S!Cell)
    BY <1>1
  <2> QED BY <1>1, <1>3, <1>5, <2>1, <2>2 DEF TypeOK
<1>8. NothingYet
  BY <1>1, <1>2 DEF NothingYet
<1>9. AsRead
  <2>1. /\ Len(item.args) \in Nat /\ Len(item.args) - Len(rest) = 0
        /\ \A k \in 1..Len(rest) : 0 + k = k
    BY <1>1, <1>3, LenProperties
  <2>2. New.flavor = "none" /\ New.worker_threads = 0
    BY DEF New
  <2> QED BY <1>1, <2>1, <2>2 DEF AsRead
<1>10. Configured
  BY <1>1, <1>3 DEF Configured, New, Configuration
<1>11. ConfigAsWritten
  <2>1. item.attribute = "tokio" => pc = "attribute"
    <3>1. Extension.attribute = "extension" /\ ExtensionRuntime.attribute = "extension_runtime"
      BY DEF Extension, ExtensionRuntime, Program
    <3> QED BY <1>1, <3>1 DEF HasMain
  <2> QED BY <2>1 DEF ConfigAsWritten
<1>12. Chosen
  <2>1. OwnRuntime => pc = "attribute"
    <3>1. Extension.attribute = "extension" /\ ExtensionRuntime.attribute = "extension_runtime"
      BY DEF Extension, ExtensionRuntime, Program
    <3> QED BY <1>1, <3>1 DEF HasMain, OwnRuntime
  <2> QED BY <1>1, <1>2, <2>1 DEF Chosen, Starting
<1> QED BY <1>4, <1>6, <1>7, <1>8, <1>9, <1>10, <1>11, <1>12 DEF IInv

\* The expansion of the attribute.
LEMMA ExpandStep ==
  ASSUME IInv, Expand
  PROVE  IInv'
<1>1. /\ pc = "attribute"
      /\ pc' \in {"attribute", "compile_error", "compiled", "rt_init", "init"}
      /\ UNCHANGED <<item, driver, main_fut, singletonVars>>
  BY DEF Expand, Refuse, ParseArg, parse_knobs
<1>2. AsRead' /\ Configured' /\ ConfigAsWritten' /\ rest' \in Seq(Arg)
      /\ config' \in Configuration \cup {Failed}
  <2>1. CASE Refuse
    <3>1. Refused /\ config' = Failed /\ pc' = "compile_error" /\ rest' = rest
      BY <2>1 DEF Refuse
    <3>2. AsRead'
      BY <1>1, <3>1 DEF IInv, AsRead
    <3>3. Configured'
      BY <1>1, <3>1 DEF IInv, Configured
    <3>4. ConfigAsWritten'
      BY <1>1, <3>1 DEF ConfigAsWritten, Refused, TokioRefuses
    <3> QED BY <3>1, <3>2, <3>3, <3>4 DEF IInv, TypeOK
  <2>2. CASE ParseArg
    BY <2>2, ParseArgReads
  <2>3. CASE parse_knobs
    <3>1. rest' \in Seq(Arg)
      BY <2>3 DEF IInv, TypeOK, parse_knobs
    <3> QED BY <2>3, <3>1, ParseKnobsBuilds
  <2> QED BY <2>1, <2>2, <2>3 DEF Expand
<1>3. /\ pc' = "attribute" => calls' = calls
      /\ pc' \in {"init", "rt_init"} => calls' = MainCalls
      /\ pc' = "rt_init" => item.attribute = "async_std"
      /\ calls' \in {calls, <<>>, MainCalls}
  BY <1>1 DEF Expand, Refuse, ParseArg, parse_knobs
<1>4. calls' \in Seq(S!Cell)
  <2>1. MainCalls \in Seq(S!Cell)
    <3>1. {"ASYNCIO", "CONTEXTVARS", "TOKIO_RUNTIME"} \subseteq S!Cell
      BY DEF S!Cell, S!ImportCell
    <3>2. \A x, y, z \in S!Cell :
            <<x>> \in Seq(S!Cell) /\ <<x, y>> \in Seq(S!Cell) /\ <<x, y, z>> \in Seq(S!Cell)
      OBVIOUS
    <3> QED BY <3>1, <3>2 DEF MainCalls
  <2>2. calls \in Seq(S!Cell) /\ <<>> \in Seq(S!Cell)
    BY DEF IInv, TypeOK
  <2> QED BY <1>3, <2>1, <2>2
<1>5. Statics'
  BY <1>1, UnchangedStatics
<1>6. /\ stack = [t \in Thread |-> <<>>]
      /\ runtime = New /\ lent = {} /\ ~poisoned /\ panicked = {}
      /\ want = [t \in Thread |-> New]
      /\ driver = "none" /\ main_fut = "none" /\ calls = <<>>
  BY <1>1 DEF IInv, NothingYet, Starting
<1>7. NothingYet'
  BY <1>1, <1>3, <1>6 DEF NothingYet, singletonVars, tokioVars
<1>8. Chosen'
  <2>1. UNCHANGED <<runtime, item, main_fut, singletonVars>> /\ runtime = New /\ main_fut = "none"
    BY <1>1, <1>6 DEF singletonVars, tokioVars
  <2>2. MainCalls' = MainCalls
    BY <1>1 DEF MainCalls
  <2> QED BY <1>1, <1>3, <2>1, <2>2 DEF Chosen, Starting, OwnRuntime
<1>9. TypeOK'
  BY <1>1, <1>2, <1>4, <1>5 DEF IInv, TypeOK, Statics
<1> QED BY <1>2, <1>5, <1>7, <1>8, <1>9 DEF IInv, Statics

\* The generated main configures the runtime and starts what drives it.
LEMMA StartStep ==
  ASSUME IInv, MainInit \/ RtInit
  PROVE  IInv'
<1>s. /\ mode \in [Thread -> {"off", "rust", "python"}] /\ gil \in Thread \cup {"free"}
      /\ calls \in Seq(S!Cell) /\ panicked \subseteq Thread
      /\ driver \in {"none", "starting", "get_runtime", "driving", "panicked"}
      /\ main_fut \in {"none", "spawned", "polled", "done"}
  BY DEF IInv, TypeOK, S!SingletonsTypeOK
<1>1. CASE MainInit
  <2>1. /\ pc = "init" /\ pc' = "rt_init" /\ S!init("main", config)
        /\ UNCHANGED <<item, rest, config, calls, driver, main_fut>>
    BY <1>1 DEF MainInit
  <2>2. /\ stack = [t \in Thread |-> <<>>]
        /\ runtime = New /\ lent = {} /\ ~poisoned /\ panicked = {}
        /\ want = [t \in Thread |-> New]
        /\ driver = "none" /\ main_fut = "none"
    BY <2>1 DEF IInv, NothingYet, Starting
  <2>3. /\ builder' = config /\ panicked' = {}
        /\ UNCHANGED <<gil, mode, stack, cell, want, poisoned, runtime, lent>>
    BY <2>1, <2>2 DEF S!init, S!gilVars
  <2>4. config \in FinalConfig
    BY <2>1 DEF IInv, Configured
  <2>5. Statics'
    <3>1. Statics /\ builder' \in FinalConfig /\ panicked' \subseteq Thread
      BY <2>3, <2>4 DEF IInv, Statics, TypeOK
    <3> QED BY <1>s, <2>3, <3>1, QuietStep
  <2>6. NothingYet'
    BY <2>1, <2>2, <2>3 DEF NothingYet
  <2>7. Chosen'
    <3>1. OwnRuntime => calls' = MainCalls'
      BY <2>1 DEF IInv, Chosen, MainCalls, OwnRuntime
    <3> QED BY <2>1, <2>2, <2>3, <3>1 DEF Chosen, Starting, OwnRuntime
  <2>8. Progress
    BY <2>1 DEF Progress
  <2> QED BY <1>s, <2>1, <2>5, <2>6, <2>7, <2>8, Remains
<1>2. CASE RtInit
  <2>1. /\ pc = "rt_init" /\ pc' = "calls"
        /\ driver' \in {driver, "starting"}
        /\ mode' \in {[mode EXCEPT !["main"] = "python", !["w1"] = "rust"],
                      [mode EXCEPT !["main"] = "python"]}
        /\ UNCHANGED <<item, rest, config, calls, main_fut, gil, stack, cell, tokioVars>>
    BY <1>2 DEF RtInit
  <2>2. runtime = New /\ panicked = {} /\ main_fut = "none"
    BY <2>1 DEF IInv, NothingYet, Starting
  <2>3. mode' \in [Thread -> {"off", "rust", "python"}]
    BY <1>s, <2>1
  <2>4. Statics'
    BY <1>s, <2>1, <2>3, SameStatics
  <2>5. NothingYet'
    BY <2>1 DEF NothingYet, Starting
  <2>6. Chosen'
    <3>1. OwnRuntime => calls = MainCalls /\ "TOKIO_RUNTIME" \in Range(calls)
      <4>1. SUFFICES ASSUME OwnRuntime
                     PROVE  calls = MainCalls /\ "TOKIO_RUNTIME" \in Range(calls)
        OBVIOUS
      <4>2. calls = MainCalls
        BY <2>1, <4>1 DEF IInv, Chosen
      <4>3. \/ calls = <<"ASYNCIO", "CONTEXTVARS", "TOKIO_RUNTIME">>
            \/ calls = <<"TOKIO_RUNTIME">>
        BY <4>1, <4>2 DEF MainCalls, OwnRuntime
      <4>4. \E i \in 1..Len(calls) : calls[i] = "TOKIO_RUNTIME"
        <5>1. CASE calls = <<"ASYNCIO", "CONTEXTVARS", "TOKIO_RUNTIME">>
          <6>1. Len(calls) = 3 /\ calls[3] = "TOKIO_RUNTIME"
            BY <5>1
          <6> QED BY <6>1
        <5>2. CASE calls = <<"TOKIO_RUNTIME">>
          <6>1. Len(calls) = 1 /\ calls[1] = "TOKIO_RUNTIME"
            BY <5>2
          <6> QED BY <6>1
        <5> QED BY <4>3, <5>1, <5>2
      <4>5. \A i \in 1..Len(calls) : calls[i] \in Range(calls)
        BY <1>s, SequenceFacts
      <4> QED BY <4>2, <4>4, <4>5
    <3>2. OwnRuntime => builder = config /\ \A t \in Thread : want[t] = New
      BY <2>1, <2>2 DEF IInv, Chosen, Starting
    <3> QED BY <2>1, <2>2, <3>1, <3>2 DEF Chosen, OwnRuntime, tokioVars
  <2>7. Progress
    BY <2>1 DEF Progress
  <2> QED BY <1>s, <2>1, <2>4, <2>5, <2>6, <2>7, Remains
<1> QED BY <1>1, <1>2

\* The main thread calls the accessors, spawns the async main and leaves.
LEMMA MainThreadStep ==
  ASSUME IInv, MainCall \/ SpawnMain \/ MainPanics \/ Leave
  PROVE  IInv'
<1>s. /\ calls \in Seq(S!Cell)
      /\ driver \in {"none", "starting", "get_runtime", "driving", "panicked"}
      /\ main_fut \in {"none", "spawned", "polled", "done"}
  BY DEF IInv, TypeOK
<1>m. "main" \in Thread
  BY ThreadFacts
<1>1. CASE MainCall
  <2>1. /\ pc = "calls" /\ calls # <<>> /\ "main" \notin panicked
        /\ S!Call("main", Head(calls)) /\ calls' = Tail(calls)
        /\ UNCHANGED <<item, rest, config, pc, driver, main_fut>>
    BY <1>1 DEF MainCall
  <2>2. Head(calls) \in S!Cell /\ Tail(calls) \in Seq(S!Cell)
    BY <1>s, <2>1
  <2>3. /\ stack' = [stack EXCEPT !["main"] = <<Head(calls)>>]
        /\ stack["main"] = <<>>
        /\ UNCHANGED <<gil, mode, cell, want, builder, poisoned, runtime, lent, panicked>>
    BY <2>1 DEF S!Call, S!Idle, S!gilVars, S!tokioVars
  <2>4. /\ Statics' /\ stack'["main"] = <<Head(calls)>>
    <3>1. Statics
      BY DEF IInv, Statics, TypeOK
    <3>2. UNCHANGED want
      BY <2>3
    <3> HIDE DEF Statics
    <3> DEFINE x == Head(calls)
    <3>3. x \in S!Cell /\ stack' = [stack EXCEPT !["main"] = <<x>>]
      BY <2>2, <2>3
    <3> HIDE DEF x
    <3>4. Statics' /\ stack'["main"] = <<x>>
      BY <1>m, <2>3, <3>1, <3>2, <3>3, EnterStep
    <3> QED BY <3>4 DEF x
  <2>5. NothingYet'
    BY <2>1 DEF NothingYet, Starting
  <2>6. Chosen'
    <3>1. "TOKIO_RUNTIME" \in Range(calls) =>
             "TOKIO_RUNTIME" \in Range(Tail(calls)) \/ Head(calls) = "TOKIO_RUNTIME"
      BY <1>s, <2>1, TailRange
    <3>2. \A x : <<x>> # <<>>
      BY StackFacts
    <3>3. OwnRuntime => \/ runtime # New
                        \/ "TOKIO_RUNTIME" \in Range(calls)
      BY <2>1, <2>3, <3>2 DEF IInv, Chosen
    <3>4. OwnRuntime => \/ runtime' # New
                        \/ "TOKIO_RUNTIME" \in Range(calls')
                        \/ stack'["main"] = <<"TOKIO_RUNTIME">>
      BY <2>1, <2>3, <2>4, <3>1, <3>3
    <3> QED BY <2>1, <2>3, <3>4 DEF IInv, Chosen, OwnRuntime, Starting
  <2>7. Progress
    BY <2>1 DEF Progress
  <2> QED BY <1>s, <2>1, <2>2, <2>4, <2>5, <2>6, <2>7, Remains
<1>2. CASE SpawnMain
  <2>1. /\ pc = "calls" /\ calls = <<>> /\ "main" \notin panicked
        /\ stack["main"] = <<>> /\ main_fut' = "spawned" /\ pc' = "loop"
        /\ UNCHANGED <<item, rest, config, calls, driver, singletonVars>>
    BY <1>2 DEF SpawnMain, S!Idle
  <2>2. Statics'
    BY <2>1, UnchangedStatics
  <2>3. NothingYet'
    BY <2>1 DEF NothingYet, Starting
  <2>4. Chosen'
    <3>1. "TOKIO_RUNTIME" \notin Range(calls)
      <4>1. \A h \in Range(calls) : \E i \in 1..Len(calls) : calls[i] = h
        BY <1>s, SequenceFacts
      <4>2. 1..Len(calls) = {}
        BY <2>1
      <4> QED BY <4>1, <4>2
    <3>2. \A x : <<x>> # <<>>
      BY StackFacts
    <3>3. OwnRuntime => runtime # New
      BY <2>1, <3>1, <3>2 DEF IInv, Chosen
    <3> QED BY <2>1, <3>3 DEF IInv, Chosen, OwnRuntime, Starting, singletonVars, tokioVars
  <2>5. Progress
    BY <2>1 DEF Progress
  <2> QED BY <1>s, <2>1, <2>2, <2>3, <2>4, <2>5, Remains
<1>3. CASE MainPanics \/ Leave
  <2>1. /\ pc \in {"calls", "loop"} /\ pc' \in {"exit", "panicked"}
        /\ UNCHANGED <<item, rest, config, calls, driver, main_fut, singletonVars>>
    BY <1>3 DEF MainPanics, Leave
  <2>2. Statics'
    BY <2>1, UnchangedStatics
  <2>3. NothingYet'
    BY <2>1 DEF NothingYet, Starting
  <2>4. Chosen'
    BY <2>1 DEF IInv, Chosen, OwnRuntime, Starting, singletonVars, tokioVars
  <2>5. Progress
    BY <2>1 DEF Progress
  <2> QED BY <1>s, <2>1, <2>2, <2>3, <2>4, <2>5, Remains
<1> QED BY <1>1, <1>2, <1>3

\* The thread of rt_init asks for the runtime and drives it.
LEMMA DriverStep ==
  ASSUME IInv, Driver
  PROVE  IInv'
<1>s. /\ calls \in Seq(S!Cell) /\ main_fut \in {"none", "spawned", "polled", "done"}
  BY DEF IInv, TypeOK
<1>m. "w1" \in Thread /\ "main" \in Thread /\ "main" # "w1" /\ "TOKIO_RUNTIME" \in S!Cell
  BY ThreadFacts, TokioMainAssumption DEF S!Cell
<1>1. CASE DriverGetsRuntime
  <2>1. /\ driver = "starting" /\ driver' = "get_runtime" /\ S!Call("w1", "TOKIO_RUNTIME")
        /\ UNCHANGED <<item, rest, config, pc, calls, main_fut>>
    BY <1>1 DEF DriverGetsRuntime
  <2>2. /\ stack' = [stack EXCEPT !["w1"] = <<"TOKIO_RUNTIME">>]
        /\ UNCHANGED <<gil, mode, cell, want, builder, poisoned, runtime, lent, panicked>>
    BY <2>1 DEF S!Call, S!gilVars, S!tokioVars
  <2>3. Statics' /\ stack'["main"] = stack["main"]
    <3>1. Statics /\ UNCHANGED want
      BY <2>2 DEF IInv, Statics, TypeOK
    <3> QED BY <1>m, <2>2, <3>1, EnterStep
  <2>4. pc \notin Starting
    BY <2>1 DEF IInv, NothingYet
  <2>5. NothingYet'
    BY <2>1, <2>4 DEF NothingYet
  <2>6. Chosen'
    BY <2>1, <2>2, <2>3, <2>4 DEF IInv, Chosen, OwnRuntime, Starting
  <2>7. Progress
    BY <2>1 DEF Progress
  <2> QED BY <1>s, <2>1, <2>3, <2>5, <2>6, <2>7, Remains
<1>2. CASE DriverBlocksOn
  <2>1. /\ driver = "get_runtime" /\ driver' \in {"panicked", "driving"}
        /\ UNCHANGED <<item, rest, config, pc, calls, main_fut, singletonVars>>
    BY <1>2 DEF DriverBlocksOn
  <2>2. Statics'
    BY <2>1, UnchangedStatics
  <2>3. NothingYet'
    BY <2>1 DEF IInv, NothingYet
  <2>4. Chosen'
    BY <2>1 DEF IInv, Chosen, OwnRuntime, Starting, singletonVars, tokioVars, MainCalls
  <2>5. Progress
    BY <2>1 DEF Progress
  <2> QED BY <1>s, <2>1, <2>2, <2>3, <2>4, <2>5, Remains
<1> QED BY <1>1, <1>2 DEF Driver

\* A step that leaves everything but the GIL, the threads that run and the
\* async main alone, and spawns none.
LEMMA QuietProgress ==
  ASSUME IInv, Statics',
         UNCHANGED <<item, rest, config, pc, calls, driver, stack, tokioVars>>,
         main_fut' = main_fut
           \/ (main_fut \in {"spawned", "polled"} /\ main_fut' \in {"polled", "done"})
  PROVE  IInv'
<1>1. NothingYet'
  BY DEF IInv, NothingYet, tokioVars
<1>2. Chosen'
  BY DEF IInv, Chosen, OwnRuntime, Starting, tokioVars, MainCalls
<1>3. Progress
  BY DEF Progress
<1> QED BY <1>1, <1>2, <1>3, Remains DEF IInv, TypeOK

\* Workers start, and poll the async main.
LEMMA WorkerStep ==
  ASSUME IInv, NEW t \in Worker, WorkerStarts(t) \/ PollMain(t) \/ FinishMain(t)
  PROVE  IInv'
<1>1. CASE WorkerStarts(t)
  <2>1. /\ mode' = [mode EXCEPT ![t] = "rust"]
        /\ UNCHANGED <<item, rest, config, pc, calls, driver, main_fut, gil, stack, cell, tokioVars>>
    BY <1>1 DEF WorkerStarts, mainVars
  <2>2. /\ gil' \in Thread \cup {"free"} /\ mode' \in [Thread -> {"off", "rust", "python"}]
    BY <2>1 DEF IInv, TypeOK, S!SingletonsTypeOK
  <2>3. Statics'
    BY <2>1, <2>2, SameStatics
  <2> QED BY <2>1, <2>3, QuietProgress
<1>2. CASE PollMain(t) \/ FinishMain(t)
  <2>1. /\ main_fut \in {"spawned", "polled"} /\ main_fut' \in {"polled", "done"}
        /\ UNCHANGED <<item, rest, config, pc, calls, driver, singletonVars>>
    BY <1>2 DEF PollMain, FinishMain
  <2>2. Statics'
    BY <2>1, UnchangedStatics
  <2>3. UNCHANGED <<stack, tokioVars>>
    BY <2>1 DEF singletonVars
  <2> QED BY <2>1, <2>2, <2>3, QuietProgress
<1> QED BY <1>1, <1>2

\* A thread takes the GIL or gives it up.
LEMMA GilStep ==
  ASSUME IInv, NEW t \in Thread, TakeGil(t) \/ YieldGil(t)
  PROVE  IInv'
<1>1. /\ gil' \in {t, "free"} /\ mode' = mode /\ UNCHANGED <<stack, cell, tokioVars>>
      /\ UNCHANGED <<item, rest, config, pc, calls, driver, main_fut>>
  BY DEF TakeGil, YieldGil, S!TakeGil, S!YieldGil, S!tokioVars, tokioVars, mainVars
<1>2. gil' \in Thread \cup {"free"} /\ mode' \in [Thread -> {"off", "rust", "python"}]
  BY <1>1 DEF IInv, TypeOK, S!SingletonsTypeOK
<1>3. Statics'
  BY <1>1, <1>2, SameStatics
<1> QED BY <1>1, <1>3, QuietProgress

\* A thread inside an accessor goes on: nobody is in one before the main thread
\* calls the first, and the runtime that is built is the configured one.
LEMMA AccessorStep ==
  ASSUME IInv, NEW t \in Thread, Access(t)
  PROVE  IInv'
<1>1. S!Access(t) /\ UNCHANGED <<item, rest, config, pc, calls, driver, main_fut>>
  BY DEF Access, mainVars
<1>2. Statics' /\ Effect(t)
  <2>1. Statics
    BY DEF IInv, Statics, TypeOK
  <2> QED BY <1>1, <2>1, AccessStep
<1>3. pc \notin Starting
  BY <1>2 DEF IInv, NothingYet, Effect
<1>4. NothingYet'
  BY <1>1, <1>3 DEF NothingYet
<1>5. Chosen'
  <2>1. SUFFICES ASSUME OwnRuntime
                 PROVE  Chosen'
    BY <1>1 DEF Chosen, OwnRuntime
  <2>2. runtime # New => runtime' = runtime
    BY <1>2 DEF Effect
  <2>3. runtime = New =>
          /\ builder = config /\ \A u \in Thread : want[u] = New
          /\ runtime' \in {New, config} /\ builder' = config
          /\ \A u \in Thread : want'[u] = New
    BY <1>2, <1>3, <2>1 DEF IInv, Chosen, Effect
  <2>4. pc = "calls" /\ "main" \in panicked => t # "main"
    BY <1>2, <2>1 DEF IInv, Chosen, Effect
  <2>5. ASSUME pc = "calls", "main" \in panicked'
        PROVE  stack'["main"] = <<>>
    <3>1. CASE t = "main"
      BY <1>2, <2>4, <2>5, <3>1 DEF Effect
    <3>2. CASE t # "main"
      BY <1>2, <2>1, <2>5, <3>2, ThreadFacts DEF IInv, Chosen, Effect
    <3> QED BY <3>1, <3>2
  <2>6. ASSUME pc = "calls", runtime' = New
        PROVE  \/ "main" \in panicked'
               \/ "TOKIO_RUNTIME" \in Range(calls) \/ stack'["main"] = <<"TOKIO_RUNTIME">>
    <3>1. \/ "main" \in panicked
          \/ "TOKIO_RUNTIME" \in Range(calls) \/ stack["main"] = <<"TOKIO_RUNTIME">>
      BY <2>1, <2>2, <2>6 DEF IInv, Chosen
    <3>2. CASE t = "main"
      BY <1>2, <2>4, <2>6, <3>1, <3>2 DEF Effect
    <3>3. CASE t # "main"
      BY <1>2, <3>1, <3>3, ThreadFacts DEF Effect
    <3> QED BY <3>2, <3>3
  <2>7. pc = "loop" \/ main_fut # "none" => runtime' # New
    BY <2>1, <2>2 DEF IInv, Chosen
  <2>8. runtime' \in {New, config}
    BY <2>1, <2>2, <2>3 DEF IInv, Chosen
  <2>9. runtime' = New => builder' = config /\ \A u \in Thread : want'[u] = New
    BY <2>2, <2>3
  <2> QED BY <1>1, <1>3, <2>5, <2>6, <2>7, <2>8, <2>9 DEF Chosen, Starting
<1>6. Progress
  BY <1>1 DEF Progress
<1> QED BY <1>1, <1>2, <1>4, <1>5, <1>6, Remains DEF IInv, TypeOK

\* The code of the program runs only once there is a runtime, where the program
\* has one of its own, and then cannot change it.
LEMMA ProgramStep ==
  ASSUME IInv, NEW t \in Thread, ProgramCalls(t)
  PROVE  IInv'
<1>1. /\ RunsProgram(t) /\ UNCHANGED <<item, rest, config, pc, calls, driver, main_fut>>
      /\ \/ \E x \in Uses : S!Call(t, x)
         \/ S!WithGil(t) \/ S!EndWithGil(t)
         \/ \E b \in LateBuilder : S!init(t, b)
         \/ \E r \in Lendable : S!init_with_runtime(t, r)
  BY DEF ProgramCalls, mainVars
<1>2. Statics
  BY DEF IInv, Statics, TypeOK
<1>3. pc \notin Starting
  BY <1>1 DEF IInv, NothingYet, RunsProgram, Starting
<1>4. OwnRuntime => runtime # New /\ (pc = "calls" => t # "main")
  <2>1. OwnRuntime => pc # "extension"
    <3>1. Extension.attribute = "extension" /\ ExtensionRuntime.attribute = "extension_runtime"
      BY DEF Extension, ExtensionRuntime, Program
    <3> QED BY <3>1 DEF IInv, Configured, HasMain, OwnRuntime
  <2> QED BY <1>1, <2>1 DEF IInv, Chosen, RunsProgram
<1>5. /\ Statics' /\ runtime' = runtime
      /\ \A u \in Thread \ {t} : stack'[u] = stack[u] /\ (u \in panicked' <=> u \in panicked)
  <2>1. ASSUME NEW x \in Uses, S!Call(t, x)
        PROVE  Statics' /\ runtime' = runtime /\ panicked' = panicked
               /\ \A u \in Thread \ {t} : stack'[u] = stack[u]
    <3>1. x \in S!Cell
      BY DEF Uses, S!Cell, S!ImportCell, S!AttrCell, S!BoolCell
    <3>2. /\ stack' = [stack EXCEPT ![t] = <<x>>] /\ UNCHANGED want
          /\ UNCHANGED <<gil, mode, cell, builder, poisoned, runtime, lent, panicked>>
      BY <2>1 DEF S!Call, S!gilVars, S!tokioVars
    <3> QED BY <1>2, <3>1, <3>2, EnterStep
  <2>2. ASSUME NEW r \in Lendable, S!init_with_runtime(t, r)
        PROVE  Statics' /\ runtime' = runtime /\ panicked' = panicked
               /\ \A u \in Thread \ {t} : stack'[u] = stack[u]
    <3>1. "TOKIO_RUNTIME" \in S!Cell
      BY DEF S!Cell
    <3>2. /\ stack' = [stack EXCEPT ![t] = <<"TOKIO_RUNTIME">>]
          /\ want' = [want EXCEPT ![t] = r]
          /\ UNCHANGED <<gil, mode, cell, builder, poisoned, runtime, lent, panicked>>
      BY <2>2 DEF S!init_with_runtime, S!gilVars
    <3> QED BY <1>2, <3>1, <3>2, EnterStep
  <2>3. ASSUME NEW b \in LateBuilder, S!init(t, b)
        PROVE  /\ Statics' /\ runtime' = runtime /\ stack' = stack
               /\ \A u \in Thread \ {t} : u \in panicked' <=> u \in panicked
    <3>1. /\ builder' \in {b, builder} /\ panicked' \in {panicked \ {t}, panicked \cup {t}}
          /\ UNCHANGED <<gil, mode, stack, cell, want, poisoned, runtime, lent>>
      BY <2>3 DEF S!init, S!gilVars
    <3>2. b \in FinalConfig
      BY RuntimeKinds
    <3>3. Statics'
      <4>1. /\ builder' \in FinalConfig /\ panicked' \subseteq Thread
            /\ gil' \in Thread \cup {"free"} /\ mode' \in [Thread -> {"off", "rust", "python"}]
        BY <1>2, <3>1, <3>2 DEF Statics, S!SingletonsTypeOK
      <4> QED BY <1>2, <3>1, <4>1, QuietStep
    <3> QED BY <3>1, <3>3
  <2>4. ASSUME S!WithGil(t) \/ S!EndWithGil(t)
        PROVE  Statics' /\ runtime' = runtime /\ stack' = stack /\ panicked' = panicked
    <3>1. /\ mode' \in {[mode EXCEPT ![t] = "python"], [mode EXCEPT ![t] = "rust"]}
          /\ gil' \in {gil, "free"} /\ UNCHANGED <<stack, cell, tokioVars>>
      BY <2>4 DEF S!WithGil, S!EndWithGil, S!tokioVars, tokioVars
    <3>2. /\ gil' \in Thread \cup {"free"} /\ mode' \in [Thread -> {"off", "rust", "python"}]
      BY <1>2, <3>1 DEF Statics, S!SingletonsTypeOK
    <3> QED BY <3>1, <3>2, SameStatics DEF tokioVars
  <2> QED BY <1>1, <2>1, <2>2, <2>3, <2>4
<1>6. NothingYet'
  BY <1>1, <1>3 DEF NothingYet
<1>7. Chosen'
  <2>1. OwnRuntime /\ pc = "calls" /\ "main" \in panicked' => stack'["main"] = <<>>
    BY <1>4, <1>5, ThreadFacts DEF IInv, Chosen
  <2> QED BY <1>1, <1>3, <1>4, <1>5, <2>1 DEF IInv, Chosen, OwnRuntime, Starting
<1>8. Progress
  BY <1>1 DEF Progress
<1> QED BY <1>1, <1>5, <1>6, <1>7, <1>8, Remains DEF IInv, TypeOK

LEMMA NextIInv == IInv /\ [Next]_vars => IInv'
<1> SUFFICES ASSUME IInv, [Next]_vars PROVE IInv'
  OBVIOUS
<1>1. CASE Expand
  BY <1>1, ExpandStep
<1>2. CASE MainStep
  BY <1>2, StartStep, MainThreadStep DEF MainStep
<1>3. CASE Leave
  BY <1>3, MainThreadStep
<1>4. CASE Driver
  BY <1>4, DriverStep
<1>5. ASSUME NEW t \in Worker, WorkerStarts(t) \/ PollMain(t) \/ FinishMain(t)
      PROVE  IInv'
  BY <1>5, WorkerStep
<1>6. ASSUME NEW t \in Thread, Access(t)
      PROVE  IInv'
  BY <1>6, AccessorStep
<1>7. ASSUME NEW t \in Thread, TakeGil(t) \/ YieldGil(t)
      PROVE  IInv'
  BY <1>7, GilStep
<1>8. ASSUME NEW t \in Thread, ProgramCalls(t)
      PROVE  IInv'
  BY <1>8, ProgramStep
<1>9. CASE UNCHANGED vars
  <2>1. /\ UNCHANGED <<item, rest, config, pc, calls, driver, main_fut>>
        /\ UNCHANGED <<stack, tokioVars>> /\ UNCHANGED singletonVars
    BY <1>9 DEF vars, mainVars, singletonVars
  <2>2. Statics'
    BY <2>1, UnchangedStatics
  <2> QED BY <2>1, <2>2, QuietProgress
<1> QED BY <1>1, <1>2, <1>3, <1>4, <1>5, <1>6, <1>7, <1>8, <1>9 DEF Next

----------------------------------------------------------------------------
(* The theorems.                                                           *)

\* The invariant holds in every state that a program can reach.
THEOREM Inductive == Spec => []IInv
BY InitIInv, NextIInv, PTL DEF Spec

\* Every variable keeps its type: an attribute leaves no half-read
\* Configuration, and no thread is in more than two accessors.
THEOREM TypeCorrect == Spec => []TypeOK
<1>1. IInv => TypeOK
  BY DEF IInv
<1> QED BY <1>1, Inductive, PTL

\* For any list of arguments tokio::main compiles exactly those that give a
\* known flavour and a usable number of workers at most once each, and the
\* runtime is configured as they say.
THEOREM AttributeAsWritten == Spec => []ConfigAsWritten
<1>1. IInv => ConfigAsWritten
  BY DEF IInv
<1> QED BY <1>1, Inductive, PTL

\* Whatever the program initialises later, and however many threads race for
\* the runtime, a generated main runs on the one that its attribute configures;
\* and a runtime that was lent with success is the runtime.
THEOREM ConfiguredRuntime == Spec => []RuntimeAsConfigured
<1>1. IInv => RuntimeAsConfigured
  BY DEF IInv, Chosen, OwnRuntime, RuntimeAsConfigured
<1> QED BY <1>1, Inductive, PTL
----------------------------------------------------------------------------
(* Who waits for whom.                                                     *)

\* A thread initialises the cell of the accessor it is in, and the one that
\* needs asyncio around it.
Owner(t) == \A x \in S!Cell : cell[x] = t =>
  \/ S!InCell(t, x)
  \/ x \in S!AttrCell /\ stack[t] = <<x, "ASYNCIO">>

\* A thread that is in an accessor of the Python objects holds the GIL, unless it
\* runs the import; py_true is called with the GIL, or when its cell is full.
Holds(t) == \A x \in S!Cell : S!InCell(t, x) =>
  /\ x \in S!ImportCell \cup S!AttrCell => gil = t \/ (x \in S!ImportCell /\ cell[x] = t)
  /\ x = "TRUE" => gil = t \/ cell[x] = "full"

Locks == \A t \in Thread : Owner(t) /\ Holds(t)

\* A generated main imports asyncio and contextvars before any other thread
\* takes the GIL.
ImportsFirst == Generated(item) =>
  \/ cell["ASYNCIO"] = "full" /\ cell["CONTEXTVARS"] = "full"
  \/ /\ main_fut = "none" /\ pc \notin {"loop", "extension"}
     /\ \A t \in Worker :
          /\ mode[t] # "python" /\ gil # t
          /\ stack[t] = <<>> \/ stack[t] = <<"TOKIO_RUNTIME">>
     /\ pc \in {"init", "rt_init"} => calls = MainCalls
     /\ pc = "calls" => \A x \in {"ASYNCIO", "CONTEXTVARS"} :
          x \in Range(calls) \/ cell[x] = "full" \/ stack["main"] = <<x>>

\* What a step of thread t leaves to the other threads.
OwnOnly(t) ==
  /\ \A u \in Thread \ {t} :
       /\ stack'[u] = stack[u] /\ (gil = u => gil' = u)
       /\ gil' = u => gil = u
       /\ \A x \in S!Cell : cell'[x] = u <=> cell[x] = u
  /\ \A x \in S!Cell : cell[x] = "full" => cell'[x] = "full"

\* Where a thread is when it is in an accessor, and where it returns to.
LEMMA Innermost ==
  ASSUME StackShape, NEW t \in Thread, NEW x, S!InCell(t, x)
  PROVE  /\ x \in S!Cell /\ stack[t] # <<>> /\ S!Last(stack[t]) = x
         /\ \/ stack[t] = <<x>> /\ S!Front(stack[t]) = <<>>
            \/ /\ x = "ASYNCIO"
               /\ \E a \in S!AttrCell : stack[t] = <<a, "ASYNCIO">> /\ S!Front(stack[t]) = <<a>>
<1>1. stack[t] # <<>> /\ S!Last(stack[t]) = x
  BY DEF S!InCell
<1>2. CASE \E y \in S!Cell : stack[t] = <<y>>
  BY <1>1, <1>2, StackFacts
<1>3. CASE \E a \in S!AttrCell : stack[t] = <<a, "ASYNCIO">>
  <2>1. PICK a \in S!AttrCell : stack[t] = <<a, "ASYNCIO">>
    BY <1>3
  <2>2. S!Last(stack[t]) = "ASYNCIO" /\ S!Front(stack[t]) = <<a>>
    BY <2>1, StackFacts
  <2> QED BY <1>1, <2>1, <2>2 DEF S!Cell, S!ImportCell
<1> QED BY <1>1, <1>2, <1>3 DEF StackShape

\* A thread is in one accessor at most, and two stacks differ as they look.
LEMMA Apart ==
  ASSUME NEW x, NEW y, NEW z
  PROVE  /\ <<x>> # <<>> /\ <<x, z>> # <<>> /\ <<x>> # <<y, z>>
         /\ <<x>> = <<y>> => x = y
         /\ <<x, z>> = <<y, z>> => x = y
<1>1. Len(<<>>) = 0 /\ Len(<<x>>) = 1 /\ Len(<<x, z>>) = 2 /\ Len(<<y, z>>) = 2
  OBVIOUS
<1>2. <<x>> # <<>> /\ <<x, z>> # <<>> /\ <<x>> # <<y, z>>
  BY <1>1
<1>3. <<x>>[1] = x /\ <<y>>[1] = y /\ <<x, z>>[1] = x /\ <<y, z>>[1] = y
  OBVIOUS
<1>4. <<x>> = <<y>> => x = y
  BY <1>3
<1>5. <<x, z>> = <<y, z>> => x = y
  BY <1>3
<1> QED BY <1>2, <1>4, <1>5

\* Other threads keep what they own and hold.
LEMMA OthersKeep ==
  ASSUME Locks, NEW t \in Thread, OwnOnly(t), Owner(t)', Holds(t)'
  PROVE  Locks'
<1> SUFFICES ASSUME NEW u \in Thread, u # t PROVE Owner(u)' /\ Holds(u)'
  BY DEF Locks
<1>1. Owner(u) /\ Holds(u)
  BY DEF Locks
<1>2. /\ stack'[u] = stack[u] /\ (gil = u => gil' = u)
      /\ \A x \in S!Cell : cell'[x] = u <=> cell[x] = u
      /\ \A x \in S!Cell : cell[x] = "full" => cell'[x] = "full"
  BY DEF OwnOnly
<1>3. \A x : S!InCell(u, x)' <=> S!InCell(u, x)
  BY <1>2 DEF S!InCell
<1>4. Owner(u)'
  BY <1>1, <1>2, <1>3 DEF Owner
<1>5. Holds(u)'
  BY <1>1, <1>2, <1>3 DEF Holds
<1> QED BY <1>4, <1>5

\* A thread that finds the cell full or empty, or needs another.
LEMMA AccessCellLocks ==
  ASSUME Statics, Locks, NEW t \in Thread, S!Found(t) \/ S!Enter(t) \/ S!NeedAsyncio(t)
  PROVE  Owner(t)' /\ Holds(t)' /\ OwnOnly(t)
<1>s. /\ stack \in [Thread -> Seq(S!Cell)] /\ cell \in [S!Cell -> Thread \cup {"empty", "full"}]
      /\ StackShape /\ \A u \in Thread : u \notin {"empty", "full"}
  BY ThreadFacts DEF Statics, S!SingletonsTypeOK
<1>o. Owner(t) /\ Holds(t)
  BY DEF Locks
<1>i. stack[t] # <<>> => S!InCell(t, S!Last(stack[t]))
  BY DEF S!InCell
<1>c. "ASYNCIO" \in S!Cell \ S!AttrCell /\ S!AttrCell \subseteq S!Cell /\ "ASYNCIO" \in S!ImportCell
      /\ "TRUE" \notin S!AttrCell \cup S!ImportCell
  BY DEF S!Cell, S!ImportCell, S!AttrCell
<1>1. CASE S!Found(t)
  <2> DEFINE x == S!Last(stack[t])
  <2>1. /\ stack[t] # <<>> /\ cell[x] = "full" /\ stack' = [stack EXCEPT ![t] = S!Front(@)]
        /\ UNCHANGED <<gil, cell>>
    BY <1>1 DEF S!Found, S!Return, S!gilVars
  <2>2. S!InCell(t, x) /\ x \in S!Cell
    BY <1>i, <1>s, <2>1, Innermost
  <2>3. OwnOnly(t)
    BY <1>s, <2>1 DEF OwnOnly
  <2> HIDE DEF x
  <2>4. CASE stack[t] = <<x>> /\ S!Front(stack[t]) = <<>>
    <3>1. stack'[t] = <<>>
      BY <1>s, <2>1, <2>4
    <3>2. Holds(t)'
      BY <3>1 DEF Holds, S!InCell
    <3>3. \A z \in S!Cell : cell'[z] # t
      BY <1>s, <1>o, <2>1, <2>2, <2>4, Innermost, Apart DEF Owner, S!InCell
    <3> QED BY <2>3, <3>2, <3>3 DEF Owner
  <2>5. CASE x = "ASYNCIO" /\ \E a \in S!AttrCell : stack[t] = <<a, "ASYNCIO">> /\ S!Front(stack[t]) = <<a>>
    <3>1. PICK a \in S!AttrCell : stack[t] = <<a, "ASYNCIO">> /\ S!Front(stack[t]) = <<a>>
      BY <2>5
    <3>2. stack'[t] = <<a>> /\ \A z : S!InCell(t, z)' <=> z = a
      BY <1>s, <2>1, <3>1, StackFacts DEF S!InCell
    <3>3. gil = t
      BY <1>s, <1>o, <1>c, <2>1, <2>2, <2>5 DEF Holds
    <3>4. \A z \in S!Cell : cell[z] = t => z = a
      BY <1>s, <1>o, <2>1, <2>2, <2>5, <3>1, Apart DEF Owner, S!InCell
    <3> QED BY <1>c, <2>1, <2>3, <3>2, <3>3, <3>4 DEF Owner, Holds
  <2> QED BY <1>s, <2>2, <2>4, <2>5, Innermost
<1>2. CASE S!Enter(t)
  <2> DEFINE x == S!Last(stack[t])
  <2>1. /\ stack[t] # <<>> /\ cell[x] = "empty" /\ cell' = [cell EXCEPT ![x] = t]
        /\ UNCHANGED <<gil, stack>>
    BY <1>2 DEF S!Enter, S!gilVars
  <2>2. S!InCell(t, x) /\ x \in S!Cell
    BY <1>i, <1>s, <2>1, Innermost
  <2> HIDE DEF x
  <2>3. /\ \A z \in S!Cell : cell'[z] = IF z = x THEN t ELSE cell[z]
        /\ \A z : S!InCell(t, z)' <=> S!InCell(t, z)
    BY <1>s, <2>1, <2>2 DEF S!InCell
  <2>4. OwnOnly(t)
    BY <1>s, <2>1, <2>3 DEF OwnOnly
  <2>5. \A z : S!InCell(t, z) => z = x
    BY <2>2 DEF S!InCell
  <2>6. Owner(t)'
    BY <1>o, <2>1, <2>2, <2>3 DEF Owner
  <2>7. Holds(t)'
    BY <1>s, <1>o, <2>1, <2>2, <2>3, <2>5 DEF Holds
  <2> QED BY <2>4, <2>6, <2>7
<1>3. CASE S!NeedAsyncio(t)
  <2>1. PICK x \in S!AttrCell : S!InCell(t, x) /\ cell[x] = t
    BY <1>3 DEF S!NeedAsyncio
  <2>2. /\ stack' = [stack EXCEPT ![t] = Append(@, "ASYNCIO")] /\ UNCHANGED <<gil, cell>>
    BY <1>3 DEF S!NeedAsyncio, S!gilVars
  <2>3. stack[t] = <<x>>
    BY <1>s, <1>c, <2>1, Innermost
  <2>4. stack'[t] = <<x, "ASYNCIO">> /\ \A z : S!InCell(t, z)' <=> z = "ASYNCIO"
    <3>1. stack'[t] = Append(stack[t], "ASYNCIO")
      BY <1>s, <2>2
    <3>2. Append(<<x>>, "ASYNCIO") = <<x, "ASYNCIO">>
      BY StackFacts
    <3>3. <<x, "ASYNCIO">> # <<>> /\ S!Last(<<x, "ASYNCIO">>) = "ASYNCIO"
      BY StackFacts
    <3> QED BY <2>3, <3>1, <3>2, <3>3 DEF S!InCell
  <2>5. gil = t
    BY <1>o, <1>c, <2>1 DEF Holds, S!ImportCell, S!AttrCell
  <2>6. \A z \in S!Cell : cell[z] = t => z = x
    BY <1>o, <2>1, <2>3, Apart DEF Owner, S!InCell
  <2>7. Owner(t)'
    BY <2>1, <2>2, <2>4, <2>6 DEF Owner
  <2>8. Holds(t)'
    BY <1>c, <2>2, <2>4, <2>5 DEF Holds
  <2>9. OwnOnly(t)
    BY <1>s, <2>2 DEF OwnOnly
  <2> QED BY <2>7, <2>8, <2>9
<1> QED BY <1>1, <1>2, <1>3

\* A thread that leaves the accessor whose cell it initialised; one that was
\* inside another has run an import and holds the GIL.
LEMMA LeaveLocks ==
  ASSUME Statics, Locks, NEW t \in Thread, NEW x \in S!Cell,
         S!InCell(t, x), cell[x] = t, x = "ASYNCIO" => gil = t,
         NEW c \in {"empty", "full"}, cell' = [cell EXCEPT ![x] = c],
         stack' = [stack EXCEPT ![t] = S!Front(@)], gil' = gil
  PROVE  Owner(t)' /\ Holds(t)' /\ OwnOnly(t)
<1>s. /\ stack \in [Thread -> Seq(S!Cell)] /\ cell \in [S!Cell -> Thread \cup {"empty", "full"}]
      /\ StackShape /\ \A u \in Thread : u \notin {"empty", "full"}
  BY ThreadFacts DEF Statics, S!SingletonsTypeOK
<1>o. Owner(t) /\ Holds(t)
  BY DEF Locks
<1>c. "TRUE" \notin S!AttrCell
  BY DEF S!AttrCell
<1>1. \A z \in S!Cell : cell'[z] = IF z = x THEN c ELSE cell[z]
  BY <1>s
<1>2. OwnOnly(t)
  BY <1>s, <1>1 DEF OwnOnly
<1>3. \A z : S!InCell(t, z) => z = x
  BY DEF S!InCell
<1>4. CASE stack[t] = <<x>> /\ S!Front(stack[t]) = <<>>
  <2>1. stack'[t] = <<>>
    BY <1>s, <1>4
  <2>2. Holds(t)'
    BY <2>1 DEF Holds, S!InCell
  <2>3. \A z \in S!Cell : cell'[z] # t
    BY <1>s, <1>o, <1>1, <1>3, <1>4, Apart DEF Owner
  <2> QED BY <1>2, <2>2, <2>3 DEF Owner
<1>5. CASE x = "ASYNCIO" /\ \E a \in S!AttrCell : stack[t] = <<a, "ASYNCIO">> /\ S!Front(stack[t]) = <<a>>
  <2>1. PICK a \in S!AttrCell : stack[t] = <<a, "ASYNCIO">> /\ S!Front(stack[t]) = <<a>>
    BY <1>5
  <2>2. stack'[t] = <<a>> /\ \A z : S!InCell(t, z)' <=> z = a
    BY <1>s, <2>1, StackFacts DEF S!InCell
  <2>3. \A z \in S!Cell : cell'[z] = t => z = a
    BY <1>s, <1>o, <1>1, <1>3, <2>1, Apart DEF Owner
  <2> QED BY <1>c, <1>2, <1>5, <2>2, <2>3 DEF Owner, Holds
<1> QED BY <1>s, <1>4, <1>5, Innermost

\* Every step of a thread in an accessor.
LEMMA AccessLocks ==
  ASSUME Statics, Locks, NEW t \in Thread, S!Access(t)
  PROVE  Locks' /\ OwnOnly(t)
<1>1. CASE S!Found(t) \/ S!Enter(t) \/ S!NeedAsyncio(t)
  BY <1>1, AccessCellLocks, OthersKeep
<1>2. ASSUME NEW x \in S!Cell, S!Fill(t, x), x = "ASYNCIO" => gil = t
      PROVE  Locks' /\ OwnOnly(t)
  <2>1. /\ S!InCell(t, x) /\ cell[x] = t /\ cell' = [cell EXCEPT ![x] = "full"]
        /\ stack' = [stack EXCEPT ![t] = S!Front(@)] /\ gil' = gil
    BY <1>2 DEF S!Fill, S!Return, S!gilVars
  <2> QED BY <1>2, <2>1, LeaveLocks, OthersKeep
<1>3. CASE S!BuildPanics(t)
  <2>1. /\ "TOKIO_RUNTIME" \in S!Cell /\ S!InCell(t, "TOKIO_RUNTIME")
        /\ cell["TOKIO_RUNTIME"] = t /\ cell' = [cell EXCEPT !["TOKIO_RUNTIME"] = "empty"]
        /\ stack' = [stack EXCEPT ![t] = S!Front(@)] /\ gil' = gil
    BY <1>3 DEF S!BuildPanics, S!Return, S!gilVars, S!Cell
  <2> QED BY <2>1, LeaveLocks, OthersKeep
<1>4. CASE \/ S!asyncio(t) \/ S!contextvars(t) \/ S!from_code(t) \/ S!ensure_future(t)
           \/ S!get_running_loop(t) \/ S!py_true(t) \/ S!py_false(t) \/ S!Lend(t) \/ S!Build(t)
  <2>1. \E x \in S!Cell : S!Fill(t, x) /\ (x = "ASYNCIO" => gil = t)
    BY <1>4 DEF S!asyncio, S!contextvars, S!from_code, S!ensure_future, S!get_running_loop,
                S!py_true, S!py_false, S!Lend, S!Build, S!Cell, S!ImportCell, S!AttrCell, S!BoolCell
  <2> QED BY <1>2, <2>1
<1> QED BY <1>1, <1>3, <1>4 DEF S!Access

\* A thread enters an accessor: it holds the GIL where the code takes the token.
LEMMA EnterLocks ==
  ASSUME Statics, Locks, NEW t \in Thread, NEW x \in S!Cell,
         stack[t] = <<>>, stack' = [stack EXCEPT ![t] = <<x>>], UNCHANGED <<gil, cell>>,
         x \in S!ImportCell \cup S!AttrCell => gil = t,
         x = "TRUE" => gil = t \/ cell[x] = "full"
  PROVE  Locks' /\ OwnOnly(t)
<1>s. stack \in [Thread -> Seq(S!Cell)] /\ Owner(t) /\ Holds(t)
  BY DEF Statics, S!SingletonsTypeOK, Locks
<1>1. stack'[t] = <<x>> /\ \A z : S!InCell(t, z)' <=> z = x
  BY <1>s, StackFacts DEF S!InCell
<1>2. \A z \in S!Cell : cell'[z] # t
  <2>1. \A z : <<z, "ASYNCIO">> # <<>>
    BY Apart
  <2> QED BY <1>s, <2>1 DEF Owner, S!InCell
<1>3. Owner(t)' /\ Holds(t)'
  BY <1>1, <1>2 DEF Owner, Holds
<1>4. OwnOnly(t)
  BY <1>s DEF OwnOnly
<1> QED BY <1>3, <1>4, OthersKeep

\* A thread takes the GIL or gives it up: never inside an accessor that needs it.
LEMMA GilLocks ==
  ASSUME Statics, Locks, NEW t \in Thread, UNCHANGED <<stack, cell>>,
         \/ gil = "free" /\ gil' = t
         \/ gil = t /\ gil' = "free" /\ (stack[t] = <<>> \/ S!InPython(t))
  PROVE  Locks' /\ OwnOnly(t)
<1>1. Owner(t) /\ Holds(t) /\ \A u \in Thread : u # "free"
  BY ThreadFacts DEF Locks
<1>2. \A z : S!InCell(t, z)' <=> S!InCell(t, z)
  BY DEF S!InCell
<1>3. Owner(t)'
  BY <1>1, <1>2 DEF Owner
<1>4. Holds(t)'
  <2>1. CASE gil' = t
    BY <1>1, <1>2, <2>1 DEF Holds
  <2>2. CASE stack[t] = <<>>
    BY <1>2, <2>2 DEF Holds, S!InCell
  <2>3. CASE \E x \in S!ImportCell : S!InCell(t, x) /\ cell[x] = t
    <3>1. PICK x \in S!ImportCell : S!InCell(t, x) /\ cell[x] = t
      BY <2>3
    <3>2. \A z : S!InCell(t, z) => z = x
      BY <3>1 DEF S!InCell
    <3> QED BY <1>2, <3>1, <3>2 DEF Holds, S!ImportCell
  <2> QED BY <2>1, <2>2, <2>3 DEF S!InPython
<1>5. OwnOnly(t)
  BY <1>1 DEF OwnOnly
<1> QED BY <1>3, <1>4, <1>5, OthersKeep

\* Every step of the program keeps the locks in order, and is one of one thread.
LEMMA NextLocks ==
  ASSUME IInv, Locks, [Next]_vars
  PROVE  Locks' /\ \/ UNCHANGED <<gil, stack, cell>>
                   \/ \E t \in Thread : OwnOnly(t)
<1>s. Statics /\ "main" \in Thread /\ "w1" \in Thread
  BY ThreadFacts DEF IInv, Statics, TypeOK
<1>1. CASE UNCHANGED <<gil, stack, cell>>
  BY <1>1 DEF Locks, Owner, Holds, S!InCell
<1>2. ASSUME NEW t \in Thread, NEW x \in S!Cell, S!Call(t, x)
      PROVE  Locks' /\ OwnOnly(t)
  BY <1>s, <1>2, EnterLocks DEF S!Call, S!Idle, S!gilVars
<1>3. ASSUME NEW t \in Thread, NEW r, S!init_with_runtime(t, r)
      PROVE  Locks' /\ OwnOnly(t)
  <2>1. "TOKIO_RUNTIME" \in S!Cell \ (S!ImportCell \cup S!AttrCell)
    BY DEF S!Cell, S!ImportCell, S!AttrCell
  <2> QED BY <1>s, <1>3, <2>1, EnterLocks DEF S!init_with_runtime, S!Idle, S!gilVars
<1>4. ASSUME NEW t \in Thread, S!TakeGil(t) \/ S!YieldGil(t) \/ S!EndWithGil(t)
      PROVE  Locks' /\ OwnOnly(t)
  BY <1>s, <1>4, GilLocks DEF S!TakeGil, S!YieldGil, S!EndWithGil
<1>5. CASE MainCall
  <2>1. Head(calls) \in S!Cell /\ S!Call("main", Head(calls))
    BY <1>5 DEF MainCall, IInv, TypeOK
  <2> QED BY <1>s, <1>2, <2>1
<1>6. CASE DriverGetsRuntime
  <2>1. "TOKIO_RUNTIME" \in S!Cell /\ S!Call("w1", "TOKIO_RUNTIME")
    BY <1>6 DEF DriverGetsRuntime, S!Cell
  <2> QED BY <1>s, <1>2, <2>1
<1>7. ASSUME NEW t \in Thread, ProgramCalls(t)
      PROVE  Locks' /\ (UNCHANGED <<gil, stack, cell>> \/ OwnOnly(t))
  <2>1. Uses \subseteq S!Cell
    BY DEF Uses, S!Cell, S!ImportCell, S!AttrCell, S!BoolCell
  <2>2. S!WithGil(t) \/ (\E b \in LateBuilder : S!init(t, b)) => UNCHANGED <<gil, stack, cell>>
    BY DEF S!WithGil, S!init, S!gilVars
  <2> QED BY <1>1, <1>2, <1>3, <1>4, <1>7, <2>1, <2>2 DEF ProgramCalls
<1>8. ASSUME NEW t \in Thread, Access(t) \/ TakeGil(t) \/ YieldGil(t)
      PROVE  Locks' /\ OwnOnly(t)
  BY <1>s, <1>4, <1>8, AccessLocks DEF Access, TakeGil, YieldGil
<1>9. CASE \/ Expand \/ MainInit \/ RtInit \/ SpawnMain \/ MainPanics \/ Leave \/ DriverBlocksOn
           \/ \E t \in Worker : WorkerStarts(t) \/ PollMain(t) \/ FinishMain(t)
           \/ UNCHANGED vars
  <2>1. UNCHANGED <<gil, stack, cell>>
    BY <1>9 DEF Expand, Refuse, ParseArg, parse_knobs, MainInit, S!init, S!gilVars, RtInit, SpawnMain,
       MainPanics, Leave, DriverBlocksOn, WorkerStarts, PollMain, FinishMain, vars, singletonVars
  <2> QED BY <1>1, <2>1
<1> QED BY <1>s, <1>5, <1>6, <1>7, <1>8, <1>9 DEF Next, MainStep, Driver

\* A thread in an accessor that needs no other stays there, or leaves it with
\* the cell full.
LEMMA AccessPlain ==
  ASSUME Statics, NEW t \in Thread, S!Access(t), NEW x \in S!Cell \ S!AttrCell, stack[t] = <<x>>
  PROVE  \/ stack'[t] = <<x>>
         \/ stack'[t] = <<>> /\ (x = "TOKIO_RUNTIME" \/ cell'[x] = "full")
<1>s. /\ stack \in [Thread -> Seq(S!Cell)] /\ cell \in [S!Cell -> Thread \cup {"empty", "full"}]
      /\ S!Last(stack[t]) = x /\ S!Front(stack[t]) = <<>>
  BY StackFacts DEF Statics, S!SingletonsTypeOK
<1>1. ASSUME stack' = [stack EXCEPT ![t] = S!Front(@)]
      PROVE  stack'[t] = <<>>
  BY <1>s, <1>1
<1>2. CASE S!Found(t)
  BY <1>s, <1>1, <1>2 DEF S!Found, S!Return
<1>3. CASE S!Enter(t)
  BY <1>3 DEF S!Enter
<1>4. CASE S!NeedAsyncio(t)
  BY <1>s, <1>4 DEF S!NeedAsyncio, S!InCell
<1>5. CASE S!BuildPanics(t)
  BY <1>s, <1>1, <1>5 DEF S!BuildPanics, S!InCell, S!Return
<1>6. ASSUME NEW y, S!Fill(t, y)
      PROVE  stack'[t] = <<>> /\ cell'[x] = "full"
  BY <1>s, <1>1, <1>6 DEF S!Fill, S!InCell, S!Return
<1>7. CASE \/ S!asyncio(t) \/ S!contextvars(t) \/ S!from_code(t) \/ S!ensure_future(t)
           \/ S!get_running_loop(t) \/ S!py_true(t) \/ S!py_false(t) \/ S!Lend(t) \/ S!Build(t)
  BY <1>6, <1>7 DEF S!asyncio, S!contextvars, S!from_code, S!ensure_future, S!get_running_loop,
     S!py_true, S!py_false, S!Lend, S!Build
<1> QED BY <1>2, <1>3, <1>4, <1>5, <1>7 DEF S!Access

\* Before the imports are done only the main thread takes the GIL.
LEMMA StepImportsFirst ==
  ASSUME IInv, Locks, ImportsFirst, [Next]_vars
  PROVE  ImportsFirst'
<1> DEFINE Imported == cell["ASYNCIO"] = "full" /\ cell["CONTEXTVARS"] = "full"
           Quiet(t) == /\ mode[t] # "python" /\ gil # t
                       /\ stack[t] = <<>> \/ stack[t] = <<"TOKIO_RUNTIME">>
           Calling == \A x \in {"ASYNCIO", "CONTEXTVARS"} :
                        x \in Range(calls) \/ cell[x] = "full" \/ stack["main"] = <<x>>
<1>s. /\ Statics /\ mode \in [Thread -> {"off", "rust", "python"}]
      /\ stack \in [Thread -> Seq(S!Cell)] /\ calls \in Seq(S!Cell)
      /\ "main" \in Thread /\ "w1" \in Worker /\ "main" \notin Worker /\ Worker \subseteq Thread
      /\ Thread = Worker \cup {"main"} /\ "free" \notin Worker
  BY ThreadFacts, TokioMainAssumption DEF IInv, Statics, TypeOK, S!SingletonsTypeOK, Thread
<1>c. {"ASYNCIO", "CONTEXTVARS", "TOKIO_RUNTIME"} \subseteq S!Cell \ S!AttrCell
  BY DEF S!Cell, S!ImportCell, S!AttrCell
<1>t. item' = item
  BY DEF Next, Expand, Refuse, ParseArg, parse_knobs, MainStep, MainInit, RtInit, MainCall,
     SpawnMain, MainPanics, Leave, Driver, DriverGetsRuntime, DriverBlocksOn, WorkerStarts, PollMain,
     FinishMain, Access, TakeGil, YieldGil, ProgramCalls, vars, mainVars
<1>f. \A x \in S!Cell : cell[x] = "full" => cell'[x] = "full"
  BY NextLocks DEF OwnOnly
<1> SUFFICES ASSUME Generated(item), ~Imported'
             PROVE  /\ main_fut' = "none" /\ pc' \notin {"loop", "extension"}
                    /\ \A t \in Worker : Quiet(t)'
                    /\ pc' \in {"init", "rt_init"} => calls' = MainCalls'
                    /\ pc' = "calls" => Calling'
  BY <1>t DEF ImportsFirst, Generated
<1>0. /\ main_fut = "none" /\ pc \notin {"loop", "extension"}
      /\ \A t \in Worker : Quiet(t)
      /\ pc \in {"init", "rt_init"} => calls = MainCalls
      /\ pc = "calls" => Calling
  BY <1>c, <1>f DEF ImportsFirst
<1>m. MainCalls' = MainCalls
  BY <1>t DEF MainCalls
<1>k. UNCHANGED <<gil, mode, stack>> => \A t \in Worker : Quiet(t)'
  BY <1>0
<1>l. UNCHANGED <<calls, cell, stack>> => (pc = "calls" => Calling')
  BY <1>0
<1> HIDE DEF Imported
<1>1. CASE Expand
  <2>1. /\ UNCHANGED <<main_fut, gil, mode, stack>>
        /\ pc' \in {"attribute", "compile_error", "compiled", "init", "rt_init"}
        /\ pc' \in {"init", "rt_init"} => calls' = MainCalls
    BY <1>1 DEF Expand, Refuse, ParseArg, parse_knobs, singletonVars
  <2> QED BY <1>0, <1>k, <1>m, <2>1
<1>2. CASE MainInit
  <2>1. /\ UNCHANGED <<main_fut, gil, mode, stack, calls>> /\ pc = "init" /\ pc' = "rt_init"
    BY <1>2 DEF MainInit, S!init, S!gilVars
  <2> QED BY <1>0, <1>k, <1>m, <2>1
<1>3. CASE RtInit
  <2>1. /\ pc = "rt_init" /\ pc' = "calls" /\ UNCHANGED <<main_fut, gil, stack, calls>>
        /\ mode' \in {[mode EXCEPT !["main"] = "python", !["w1"] = "rust"],
                      [mode EXCEPT !["main"] = "python"]}
    BY <1>3 DEF RtInit
  <2>2. \A t \in Worker : mode'[t] # "python"
    BY <1>s, <1>0, <2>1
  <2>3. Len(calls) >= 2 /\ calls[1] = "ASYNCIO" /\ calls[2] = "CONTEXTVARS"
    <3>1. \/ calls = <<"ASYNCIO", "CONTEXTVARS", "TOKIO_RUNTIME">>
          \/ calls = <<"ASYNCIO", "CONTEXTVARS">>
      BY <1>0, <2>1 DEF MainCalls, Generated
    <3> QED BY <3>1
  <2>4. "ASYNCIO" \in Range(calls) /\ "CONTEXTVARS" \in Range(calls)
    BY <1>s, <2>3, SequenceFacts
  <2> QED BY <1>0, <2>1, <2>2, <2>4
<1>4. CASE MainCall
  <2>1. /\ pc = "calls" /\ pc' = pc /\ calls # <<>> /\ calls' = Tail(calls)
        /\ stack["main"] = <<>> /\ stack' = [stack EXCEPT !["main"] = <<Head(calls)>>]
        /\ UNCHANGED <<main_fut, gil, mode, cell>>
    BY <1>4 DEF MainCall, S!Call, S!Idle, S!gilVars
  <2>2. /\ stack'["main"] = <<Head(calls)>>
        /\ \A t \in Worker : stack'[t] = stack[t]
    BY <1>s, <2>1
  <2>3. \A x \in Range(calls) : x = Head(calls) \/ x \in Range(Tail(calls))
    BY <1>s, <2>1, TailRange
  <2>4. \A x : <<x>> # <<>>
    BY Apart
  <2>5. Calling'
    BY <1>0, <2>1, <2>2, <2>3, <2>4
  <2> QED BY <1>0, <2>1, <2>2, <2>5
<1>5. CASE SpawnMain
  <2>1. pc = "calls" /\ calls = <<>> /\ stack["main"] = <<>> /\ UNCHANGED cell
    BY <1>5 DEF SpawnMain, S!Idle, singletonVars
  <2>2. \A x : x \notin Range(calls)
    <3>1. \A x \in Range(calls) : \E i \in 1..Len(calls) : calls[i] = x
      BY <1>s, SequenceFacts
    <3>2. 1..Len(calls) = {}
      BY <2>1
    <3> QED BY <3>1, <3>2
  <2>3. \A x : <<x>> # <<>>
    BY Apart
  <2>4. Imported'
    BY <1>0, <2>1, <2>2, <2>3 DEF Imported
  <2> QED BY <2>4
<1>6. CASE MainPanics \/ Leave
  <2>1. pc' \in {"panicked", "exit"} /\ UNCHANGED <<main_fut, gil, mode, stack>>
    BY <1>6 DEF MainPanics, Leave, singletonVars
  <2> QED BY <1>0, <1>k, <2>1
<1>7. CASE DriverGetsRuntime
  <2>1. /\ stack' = [stack EXCEPT !["w1"] = <<"TOKIO_RUNTIME">>]
        /\ UNCHANGED <<pc, main_fut, calls, gil, mode, cell>>
    BY <1>7 DEF DriverGetsRuntime, S!Call, S!gilVars
  <2>2. /\ stack'["w1"] = <<"TOKIO_RUNTIME">>
        /\ \A t \in Thread \ {"w1"} : stack'[t] = stack[t]
    BY <1>s, <2>1
  <2>3. \A t \in Worker : Quiet(t)'
    BY <1>s, <1>0, <2>1, <2>2
  <2>4. pc = "calls" => Calling'
    BY <1>s, <1>0, <2>1, <2>2
  <2> QED BY <1>0, <1>m, <2>1, <2>3, <2>4
<1>8. CASE DriverBlocksOn \/ UNCHANGED vars
  <2>1. UNCHANGED <<pc, main_fut, calls, gil, mode, stack, cell>>
    BY <1>8 DEF DriverBlocksOn, vars, mainVars, singletonVars
  <2> QED BY <1>0, <1>k, <1>l, <1>m, <2>1
<1>9. ASSUME NEW t \in Worker, WorkerStarts(t)
      PROVE  UNCHANGED <<pc, main_fut, calls, gil, stack, cell>> /\ \A u \in Worker : Quiet(u)'
  <2>1. mode' = [mode EXCEPT ![t] = "rust"] /\ UNCHANGED <<pc, main_fut, calls, gil, stack, cell>>
    BY <1>9 DEF WorkerStarts, mainVars
  <2>2. \A u \in Worker : mode'[u] # "python"
    BY <1>s, <1>0, <2>1
  <2> QED BY <1>0, <2>1, <2>2
<1>10. ASSUME NEW t \in Worker, PollMain(t) \/ FinishMain(t)
       PROVE  FALSE
  BY <1>0, <1>10 DEF PollMain, FinishMain
<1>11. ASSUME NEW t \in Thread, Access(t)
       PROVE  /\ UNCHANGED <<pc, main_fut, calls>> /\ \A u \in Worker : Quiet(u)'
              /\ pc = "calls" => Calling'
  <2>1. S!Access(t) /\ UNCHANGED <<pc, main_fut, calls>>
    BY <1>11 DEF Access, mainVars
  <2>2. /\ UNCHANGED <<gil, mode>> /\ stack[t] # <<>>
        /\ \A u \in Thread \ {t} : stack'[u] = stack[u]
    BY <1>s, <2>1, AccessStep DEF Effect
  <2>3. ASSUME t \in Worker
        PROVE  stack'[t] = <<>> \/ stack'[t] = <<"TOKIO_RUNTIME">>
    BY <1>s, <1>c, <1>0, <2>1, <2>2, <2>3, AccessPlain
  <2>4. \A u \in Worker : Quiet(u)'
    BY <1>s, <1>0, <2>2, <2>3
  <2>5. ASSUME pc = "calls", NEW x \in {"ASYNCIO", "CONTEXTVARS"}
        PROVE  x \in Range(calls') \/ cell'[x] = "full" \/ stack'["main"] = <<x>>
    <3>1. CASE stack["main"] = <<x>> /\ t = "main"
      BY <1>s, <1>c, <2>1, <3>1, AccessPlain
    <3>2. CASE stack["main"] = <<x>> /\ t # "main"
      BY <1>s, <2>2, <3>2
    <3>3. CASE x \in Range(calls) \/ cell[x] = "full"
      BY <1>c, <1>f, <2>1, <3>3
    <3> QED BY <1>0, <2>5, <3>1, <3>2, <3>3
  <2> QED BY <2>1, <2>4, <2>5
<1>12. ASSUME NEW t \in Thread, TakeGil(t) \/ YieldGil(t)
       PROVE  /\ UNCHANGED <<pc, main_fut, calls, stack, cell>> /\ \A u \in Worker : Quiet(u)'
  <2>1. /\ UNCHANGED <<pc, main_fut, calls, stack, cell, mode>>
        /\ gil' = "free" \/ (gil' = t /\ mode[t] = "python")
    BY <1>12 DEF TakeGil, YieldGil, S!TakeGil, S!YieldGil, mainVars
  <2> QED BY <1>s, <1>0, <2>1
<1>13. ASSUME NEW t \in Thread, ProgramCalls(t)
       PROVE  FALSE
  BY <1>0, <1>13 DEF ProgramCalls, RunsProgram
<1> HIDE DEF Quiet, Calling
<1> QED
  BY <1>0, <1>l, <1>m, <1>1, <1>2, <1>3, <1>4, <1>5, <1>6, <1>7, <1>8, <1>9, <1>10, <1>11, <1>12,
     <1>13 DEF Next, MainStep, Driver

\* At the start nobody is in an accessor and nobody holds the GIL.
LEMMA InitLocks == Init => Locks /\ ImportsFirst
<1> SUFFICES ASSUME Init PROVE Locks /\ ImportsFirst
  OBVIOUS
<1>s. \A t \in Thread : t \notin {"empty", "full", "free"}
  BY ThreadFacts
<1>1. /\ gil = "free" /\ \A t \in Thread : stack[t] = <<>>
      /\ \A x \in S!Cell : cell[x] = "empty"
      /\ main_fut = "none" /\ pc = IF HasMain(item) THEN "attribute" ELSE "extension"
  BY DEF Init, S!SingletonsInit
<1>2. Locks
  BY <1>s, <1>1 DEF Locks, Owner, Holds, S!InCell
<1>3. Generated(item) => HasMain(item)
  BY DEF Generated, HasMain, Extension, ExtensionRuntime, Program
<1>4. Generated(item) => \A t \in Worker : mode[t] = "off"
  BY <1>3, TokioMainAssumption DEF Init, Thread
<1> QED BY <1>s, <1>1, <1>2, <1>3, <1>4 DEF ImportsFirst, Thread

\* In such a state threads wait for each other as WhoWaits says.
LEMMA LocksOrder == IInv /\ Locks /\ ImportsFirst => WhoWaits
<1> SUFFICES ASSUME IInv, Locks, ImportsFirst,
                    NEW t \in Thread, NEW u \in Thread, S!WaitsFor(t, u)
             PROVE  /\ \A v \in Thread : S!WaitsFor(u, v) => \A w \in Thread : ~S!WaitsFor(v, w)
                    /\ gil = t => S!InCell(u, "TOKIO_RUNTIME") \/ \E x \in MayBlock : S!InCell(u, x)
  BY DEF WhoWaits
<1>s. /\ StackShape /\ \A r \in Thread : r \notin {"empty", "full", "free"}
      /\ Thread = Worker \cup {"main"} /\ "main" \notin Worker
  BY ThreadFacts, TokioMainAssumption DEF IInv, Thread
<1>c. "ASYNCIO" \in S!ImportCell \ S!AttrCell /\ S!ImportCell \cup S!AttrCell \subseteq S!Cell
  BY DEF S!ImportCell, S!AttrCell, S!Cell
<1>1. PICK x \in S!Cell : S!InCell(t, x) /\ cell[x] = u /\ t # u
  <2>1. S!InCell(t, S!Last(stack[t])) /\ cell[S!Last(stack[t])] = u /\ t # u
    BY DEF S!WaitsFor, S!InCell
  <2> QED BY <1>s, <2>1, Innermost
<1>2. S!InCell(u, x) \/ (x \in S!AttrCell /\ S!InCell(u, "ASYNCIO"))
  <2>1. stack[u] = <<x, "ASYNCIO">> => S!InCell(u, "ASYNCIO")
    BY StackFacts DEF S!InCell
  <2> QED BY <1>1, <2>1 DEF Locks, Owner
<1>3. \A r, y, z : S!InCell(r, y) /\ S!InCell(r, z) => y = z
  BY DEF S!InCell
<1>4. ASSUME NEW r \in Thread, NEW q \in Thread, NEW y, S!InCell(r, y), S!WaitsFor(r, q)
      PROVE  cell[y] = q /\ r # q
  BY <1>4 DEF S!WaitsFor, S!InCell
<1>5. ASSUME NEW v \in Thread, S!WaitsFor(u, v), NEW w \in Thread, S!WaitsFor(v, w)
      PROVE  FALSE
  <2>1. ~S!InCell(u, x)
    BY <1>1, <1>4, <1>5
  <2>2. cell["ASYNCIO"] = v
    BY <1>2, <1>4, <1>5, <2>1
  <2>3. S!InCell(v, "ASYNCIO")
    BY <1>c, <2>2 DEF Locks, Owner
  <2> QED BY <1>4, <1>5, <2>2, <2>3
<1>6. ASSUME gil = t
      PROVE  S!InCell(u, "TOKIO_RUNTIME") \/ \E y \in MayBlock : S!InCell(u, y)
  <2>1. gil # u
    BY <1>1, <1>6
  <2>2. \A y \in S!Cell : S!InCell(u, y) =>
          y \notin S!AttrCell /\ (y \in S!ImportCell => cell[y] = u) /\ (y = "TRUE" => cell[y] = "full")
    BY <2>1 DEF Locks, Holds, S!AttrCell, S!ImportCell
  <2>3. \E y \in S!Cell : S!InCell(u, y) /\ cell[y] = u
    BY <1>1, <1>2, <1>c, <2>2
  <2>4. PICK y \in S!Cell : S!InCell(u, y) /\ cell[y] = u
    BY <2>3
  <2>5. y \in {"TOKIO_RUNTIME", "FALSE", "GLUE_MOD", "ASYNCIO", "CONTEXTVARS"}
    BY <1>s, <2>2, <2>4 DEF S!Cell, S!ImportCell, S!AttrCell, S!BoolCell
  <2>6. Generated(item) => y \notin {"ASYNCIO", "CONTEXTVARS"}
    <3> SUFFICES ASSUME Generated(item), y \in {"ASYNCIO", "CONTEXTVARS"} PROVE FALSE
      OBVIOUS
    <3>1. /\ u \in Worker => stack[u] = <<>> \/ stack[u] = <<"TOKIO_RUNTIME">>
          /\ t \notin Worker
      BY <1>s, <1>6, <2>4 DEF ImportsFirst
    <3>2. u \in Worker
      BY <1>s, <1>1, <3>1
    <3>3. stack[u] # <<>> /\ S!Last(<<"TOKIO_RUNTIME">>) = "TOKIO_RUNTIME"
      BY <2>4, StackFacts DEF S!InCell
    <3> QED BY <2>4, <3>1, <3>2, <3>3 DEF S!InCell
  <2>7. y = "TOKIO_RUNTIME" \/ y \in MayBlock
    BY <2>5, <2>6 DEF MayBlock, S!ImportCell
  <2> QED BY <2>4, <2>7
<1> QED BY <1>5, <1>6

\* With any number of threads no circle of cells arises, and a thread that holds
\* the GIL never waits for one that waits for the GIL, but for the initialisers
\* that MayBlock names.
THEOREM LockOrder == Spec => []WhoWaits
<1>1. IInv /\ Locks /\ ImportsFirst /\ [Next]_vars => Locks' /\ ImportsFirst'
  BY NextLocks, StepImportsFirst
<1> QED BY <1>1, InitLocks, LocksOrder, Inductive, PTL DEF Spec
=============================================================================
