------------------------------ MODULE TokioMain ------------------------------
(***************************************************************************)
(* The start of a program: #[pyo3_asyncio::tokio::main] and                *)
(* #[pyo3_asyncio::async_std::main] check their arguments and generate a   *)
(* fn main, which configures the runtime, starts what drives it and runs   *)
(* the async main on the event loop.  The tests that call run_forever do   *)
(* the same by hand; an extension module has no such main.                 *)
(*                                                                         *)
(* The threads use the statics of module Singletons.  "main" holds the     *)
(* GIL and the event loop; the workers run the tasks of the runtime, and   *)
(* "w1" is also the thread that #[main] spawns for the current_thread      *)
(* flavour.                                                                *)
(***************************************************************************)
EXTENDS Naturals, SequencesExt

CONSTANTS
  Worker,        \* bound: the threads that may run tasks, "w1" among them
  MaxUsize,      \* the largest usize
  MaxArgs,       \* bound: how many arguments an attribute has
  BuildMayFail   \* may the tokio Builder fail?

ASSUME TokioMainAssumption ==
  /\ "w1" \in Worker /\ "main" \notin Worker /\ "free" \notin Worker
  /\ Worker \intersect {"empty", "full"} = {}
  /\ MaxUsize \in Nat \ {0}
  /\ MaxArgs \in Nat
  /\ BuildMayFail \in BOOLEAN

VARIABLES
  item,     \* the program text: attribute, arguments and function
  rest,     \* the arguments that parse_knobs has not read yet
  config,   \* the Configuration read so far, then the FinalConfig
  pc,       \* where the main thread is
  calls,    \* the accessors the main thread is still to call
  driver,   \* the thread of rt_init: none, starting, in get_runtime, driving
  main_fut, \* the async main: none, spawned, polled or done
  gil, mode, stack, cell, want, builder, poisoned, runtime, lent,
  panicked  \* the statics, see Singletons

mainVars == <<item, rest, config, pc, calls, driver, main_fut>>
tokioVars == <<want, builder, poisoned, runtime, lent, panicked>>
singletonVars == <<gil, mode, stack, cell, tokioVars>>
vars == <<mainVars, singletonVars>>

----------------------------------------------------------------------------
(* The arguments of the attribute (pyo3-asyncio-macros).                   *)

Flavor == {"current_thread", "multi_thread"}

\* Other strings are not the name of a flavour, or no longer.
Lit == [type : {"str"}, value : Flavor \cup {"threaded_scheduler"}]
         \cup [type : {"int"}, value : {0, 1, MaxUsize, MaxUsize + 1}]

\* name = literal; a path such as `multi_thread` alone; anything else.
Arg == [kind : {"name_value"}, name : {"flavor", "worker_threads", "core_threads"}, lit : Lit]
         \cup [kind : {"path"}, name : {"multi_thread", "flavor"}]

\* None is "none" for a flavour and 0 for worker_threads, which may not be 0.
Configuration == [flavor : Flavor \cup {"none"}, worker_threads : {0, 1, MaxUsize}]
New == [flavor |-> "none", worker_threads |-> 0]
Failed == [flavor |-> "error", worker_threads |-> 0]
FinalConfig == [flavor : Flavor, worker_threads : {0, 1, MaxUsize}]
multi_thread == [flavor |-> "multi_thread", worker_threads |-> 0]

from_str(s) == IF s \in Flavor THEN s ELSE "error"
parse_string(lit) == IF lit.type = "str" THEN from_str(lit.value) ELSE "error"

\* Mutant: a second flavour replaces the first.
set_flavor_Last(c, lit) ==
  IF parse_string(lit) = "error" THEN Failed
  ELSE [c EXCEPT !.flavor = parse_string(lit)]

set_flavor(c, lit) ==
  IF c.flavor # "none" \/ parse_string(lit) = "error" THEN Failed
  ELSE [c EXCEPT !.flavor = parse_string(lit)]

\* Mutant: integers that no usize holds pass.
parse_int_Any(lit) == lit.type = "int"

\* base10_parse fails for what is no usize.
parse_int(lit) == lit.type = "int" /\ lit.value <= MaxUsize

set_worker_threads(c, lit) ==
  IF c.worker_threads # 0 \/ ~parse_int(lit) THEN Failed
  ELSE IF lit.value = 0 THEN Failed
  ELSE [c EXCEPT !.worker_threads = lit.value]

parse_arg(c, arg) ==
  IF arg.kind # "name_value" THEN Failed
  ELSE CASE arg.name = "worker_threads" -> set_worker_threads(c, arg.lit)
         [] arg.name = "flavor" -> set_flavor(c, arg.lit)
         [] OTHER -> Failed

\* Configuration::build with the feature rt-multi-thread, as tokio_main has it.
build(c) ==
  LET flavor == IF c.flavor = "none" THEN "multi_thread" ELSE c.flavor
  IN  IF flavor = "current_thread" /\ c.worker_threads # 0 THEN Failed
      ELSE [c EXCEPT !.flavor = flavor]

----------------------------------------------------------------------------
(* The programs.                                                           *)

Main == [name |-> "main", async |-> TRUE, inputs |-> FALSE]
Program(attribute, args, fn) == [attribute |-> attribute, args |-> args, fn |-> fn]
NameValue(name, type, value) ==
  [kind |-> "name_value", name |-> name, lit |-> [type |-> type, value |-> value]]

Example_async_std == Program("async_std", <<>>, Main)
Example_tokio == Program("tokio", <<>>, Main)
Example_tokio_current_thread ==
  Program("tokio", <<NameValue("flavor", "str", "current_thread")>>, Main)
Example_tokio_multi_thread ==
  Program("tokio", <<NameValue("flavor", "str", "multi_thread"),
                     NameValue("worker_threads", "int", MaxUsize)>>, Main)

\* The tests of run_forever have no attribute and call init by hand.
Test_run_forever == Program("run_forever", <<>>, Main)
Extension == Program("extension", <<>>, Main)
ExtensionRuntime == Program("extension_runtime", <<>>, Main)
Generated(i) == i.attribute \in {"tokio", "async_std"}
HasMain(i) == i \notin {Extension, ExtensionRuntime}

Functions == [name : {"main", "other"}, async : BOOLEAN, inputs : {FALSE}]
               \cup {[Main EXCEPT !.inputs = TRUE]}

\* Bound: of the programs whose arguments are enumerated only these are run.
Executed ==
  {Example_async_std, Example_tokio, Example_tokio_current_thread,
   Example_tokio_multi_thread, Test_run_forever, Extension, ExtensionRuntime}

Item ==
  {Program("tokio", args, Main) : args \in BoundedSeq(Arg, MaxArgs)}
    \cup {Program(a, <<>>, fn) : a \in {"tokio", "async_std"}, fn \in Functions}
    \cup Executed

----------------------------------------------------------------------------
\* What code of the program initialises the runtime with, by hand.
LateBuilder == {[flavor |-> "current_thread", worker_threads |-> 0]}
Lendable == {[flavor |-> "lent", worker_threads |-> 0]}

Thread == {"main"} \cup Worker

S == INSTANCE Singletons
       WITH Builder <- FinalConfig, DefaultBuilder <- multi_thread,
            NoRuntime <- New, Static <- Lendable

TypeOK ==
  /\ S!SingletonsTypeOK
  /\ rest \in Seq(Arg)
  /\ config \in Configuration \cup {Failed}
  /\ pc \in {"attribute", "compile_error", "compiled", "init", "rt_init", "calls", "loop",
             "extension", "exit", "panicked"}
  /\ calls \in Seq(S!Cell)
  /\ driver \in {"none", "starting", "get_runtime", "driving", "panicked"}
  /\ main_fut \in {"none", "spawned", "polled", "done"}

Init ==
  /\ item \in Item
  /\ rest = item.args
  /\ config = New
  /\ pc = IF HasMain(item) THEN "attribute" ELSE "extension"
  /\ calls = <<>>
  /\ driver = "none" /\ main_fut = "none"
  /\ mode = [t \in Thread |->
       IF HasMain(item) THEN IF t = "main" THEN "rust" ELSE "off"
       ELSE IF t = "main" THEN "python" ELSE "rust"]
  /\ S!SingletonsInit

----------------------------------------------------------------------------
(* The attribute.                                                          *)

\* Mutant: the async main is spawned before the context is copied.
MainCalls_NoContext == IF Generated(item) THEN <<"ASYNCIO", "TOKIO_RUNTIME">> ELSE <<"TOKIO_RUNTIME">>

\* What the generated main calls, in this order: run needs asyncio, then
\* copy_context, and spawns the async main.  run_forever only spawns.
MainCalls ==
  CASE item.attribute = "tokio" -> <<"ASYNCIO", "CONTEXTVARS", "TOKIO_RUNTIME">>
    [] item.attribute = "async_std" -> <<"ASYNCIO", "CONTEXTVARS">>
    [] OTHER -> <<"TOKIO_RUNTIME">>

\* Both attributes refuse a function that is not async, tokio::main a main with
\* inputs, async_std_main a name other than main.  A main with inputs it expands,
\* and rustc refuses the generated call, which has no arguments.
TokioRefuses == ~item.fn.async \/ (item.fn.name = "main" /\ item.fn.inputs)
AsyncStdRefuses == ~item.fn.async \/ item.fn.name # "main"
RustcRefuses == item.fn.inputs
Refused ==
  \/ item.attribute = "tokio" /\ TokioRefuses
  \/ item.attribute = "async_std" /\ (AsyncStdRefuses \/ RustcRefuses)

Refuse ==
  /\ pc = "attribute" /\ Refused
  /\ config' = Failed
  /\ pc' = "compile_error"
  /\ UNCHANGED <<item, rest, calls, driver, main_fut, singletonVars>>

\* parse_knobs reads one argument; the first error ends it.
ParseArg ==
  /\ pc = "attribute" /\ ~Refused
  /\ rest # <<>>
  /\ config' = parse_arg(config, Head(rest))
  /\ rest' = Tail(rest)
  /\ pc' = IF config' = Failed THEN "compile_error" ELSE pc
  /\ UNCHANGED <<item, calls, driver, main_fut, singletonVars>>

\* All is read: build, and the fn main that is generated or written by hand.
parse_knobs ==
  /\ pc = "attribute" /\ ~Refused
  /\ rest = <<>>
  /\ config' = CASE item.attribute = "tokio" -> build(config)
                 [] item.attribute = "async_std" -> New
                 [] OTHER -> [multi_thread EXCEPT !.flavor = "current_thread"]
  /\ pc' = IF config' = Failed THEN "compile_error"
           ELSE IF item \notin Executed THEN "compiled"
           ELSE IF item.attribute = "async_std" THEN "rt_init" ELSE "init"
  /\ calls' = IF config' = Failed THEN <<>> ELSE MainCalls
  /\ UNCHANGED <<item, rest, driver, main_fut, singletonVars>>

Expand == Refuse \/ ParseArg \/ parse_knobs

----------------------------------------------------------------------------
(* The generated main.                                                     *)

Alive == pc \notin {"attribute", "compile_error", "compiled", "exit", "panicked"}

MainInit ==
  /\ pc = "init"
  /\ S!init("main", config)
  /\ pc' = "rt_init"
  /\ UNCHANGED <<item, rest, config, calls, driver, main_fut>>

\* Mutant: nothing drives a current_thread runtime.
RtInit_NoDriver ==
  /\ pc = "rt_init"
  /\ pc' = "calls"
  /\ mode' = [mode EXCEPT !["main"] = "python"]
  /\ UNCHANGED <<item, rest, config, calls, driver, main_fut, gil, stack, cell, tokioVars>>

\* A current_thread runtime is driven by a thread of its own, which blocks on a
\* future that never ends.  Then Python::with_gil.
RtInit ==
  /\ pc = "rt_init"
  /\ pc' = "calls"
  /\ \/ /\ config.flavor = "current_thread"
        /\ driver' = "starting"
        /\ mode' = [mode EXCEPT !["main"] = "python", !["w1"] = "rust"]
     \/ /\ config.flavor # "current_thread"
        /\ mode' = [mode EXCEPT !["main"] = "python"]
        /\ UNCHANGED driver
  /\ UNCHANGED <<item, rest, config, calls, main_fut, gil, stack, cell, tokioVars>>

MainCall ==
  /\ pc = "calls" /\ calls # <<>> /\ "main" \notin panicked
  /\ gil = "main" /\ S!Call("main", Head(calls))
  /\ calls' = Tail(calls)
  /\ UNCHANGED <<item, rest, config, pc, driver, main_fut>>

\* Runtime::spawn, after which the main thread runs the event loop.
SpawnMain ==
  /\ pc = "calls" /\ calls = <<>> /\ "main" \notin panicked
  /\ gil = "main" /\ S!Idle("main")
  /\ main_fut' = "spawned"
  /\ pc' = "loop"
  /\ UNCHANGED <<item, rest, config, calls, driver, singletonVars>>

MainPanics ==
  /\ pc = "calls" /\ S!Idle("main") /\ "main" \in panicked
  /\ pc' = "panicked"
  /\ UNCHANGED <<item, rest, config, calls, driver, main_fut, singletonVars>>

\* run_until_complete, or run_forever, returns and so does main.
Leave ==
  /\ pc = "loop" /\ gil = "main" /\ S!Idle("main")
  /\ main_fut = "done"
  /\ pc' = "exit"
  /\ UNCHANGED <<item, rest, config, calls, driver, main_fut, singletonVars>>

----------------------------------------------------------------------------
(* The threads that run tasks.                                             *)

\* The thread of rt_init: get_runtime().block_on(pending()).
DriverGetsRuntime ==
  /\ driver = "starting"
  /\ S!Call("w1", "TOKIO_RUNTIME")
  /\ driver' = "get_runtime"
  /\ UNCHANGED <<item, rest, config, pc, calls, main_fut>>

DriverBlocksOn ==
  /\ driver = "get_runtime" /\ S!Idle("w1")
  /\ driver' = IF "w1" \in panicked THEN "panicked" ELSE "driving"
  /\ UNCHANGED <<item, rest, config, pc, calls, main_fut, singletonVars>>

\* The workers of a multi_thread runtime start when it is built, those of
\* async-std with the first spawn.
WorkerStarts(t) ==
  /\ mode[t] = "off"
  /\ \/ runtime.flavor = "multi_thread"
     \/ item.attribute = "async_std" /\ main_fut = "spawned"
  /\ config.worker_threads = 1 => \A u \in Worker : mode[u] = "off"
  /\ HasMain(item)
  /\ mode' = [mode EXCEPT ![t] = "rust"]
  /\ UNCHANGED <<mainVars, gil, stack, cell, tokioVars>>

RunsTasks(t) == S!Idle(t) /\ (driver = "none" \/ (t = "w1" /\ driver = "driving"))

PollMain(t) ==
  /\ RunsTasks(t)
  /\ main_fut = "spawned"
  /\ main_fut' = "polled"
  /\ UNCHANGED <<item, rest, config, pc, calls, driver, singletonVars>>

\* The async main ends, and the event loop is told under the GIL.
FinishMain(t) ==
  /\ RunsTasks(t) /\ gil = t
  /\ main_fut = "polled"
  /\ main_fut' = "done"
  /\ UNCHANGED <<item, rest, config, pc, calls, driver, singletonVars>>

\* Threads that run the code of the program.
RunsProgram(t) ==
  IF t = "main" THEN pc \in {"loop", "extension"}
  ELSE pc = "extension" \/ main_fut \in {"polled", "done"}

\* Bound: the statics that the code of a program uses.
Uses ==
  CASE item = Extension -> S!Cell \ {"TOKIO_RUNTIME", "GLUE_MOD"}
    [] item = ExtensionRuntime -> {"TOKIO_RUNTIME", "GLUE_MOD", "GET_RUNNING_LOOP"}
    [] item.attribute = "async_std" -> {"ENSURE_FUTURE", "GLUE_MOD", "TRUE", "FALSE"}
    [] OTHER -> S!Cell \ {"GLUE_MOD"}

\* Code of the program calls an accessor, takes the GIL or releases it, or
\* initialises the runtime, which may be too late.
ProgramCalls(t) ==
  /\ RunsProgram(t)
  /\ \/ \E x \in Uses : S!Call(t, x)
     \/ t # "main" /\ (S!WithGil(t) \/ S!EndWithGil(t))
     \/ /\ "TOKIO_RUNTIME" \in Uses
        /\ \/ \E b \in LateBuilder : S!init(t, b)
           \/ \E r \in Lendable : S!init_with_runtime(t, r)
  /\ UNCHANGED mainVars

Access(t) == Alive /\ S!Access(t) /\ UNCHANGED mainVars
TakeGil(t) == Alive /\ S!TakeGil(t) /\ UNCHANGED mainVars
YieldGil(t) == Alive /\ S!YieldGil(t) /\ UNCHANGED mainVars

----------------------------------------------------------------------------
MainStep == MainInit \/ RtInit \/ MainCall \/ SpawnMain \/ MainPanics
Driver == Alive /\ (DriverGetsRuntime \/ DriverBlocksOn)

Next ==
  \/ Expand \/ MainStep \/ Leave \/ Driver
  \/ \E t \in Worker : Alive /\ (WorkerStarts(t) \/ PollMain(t) \/ FinishMain(t))
  \/ \E t \in Thread :
       Access(t) \/ TakeGil(t) \/ YieldGil(t) \/ (Alive /\ ProgramCalls(t))

Spec == Init /\ [][Next]_vars

\* The threads run, and the runtime polls what was spawned.  Python's
\* interpreter makes a thread that executes Python code give the GIL up, and
\* whoever waits for it gets it in the end.
Fairness ==
  /\ WF_vars(Expand) /\ SF_vars(MainStep) /\ WF_vars(Driver)
  /\ \A t \in Worker : WF_vars(Alive /\ WorkerStarts(t)) /\ WF_vars(Alive /\ PollMain(t))
  /\ \A t \in Thread :
       SF_vars(Access(t)) /\ SF_vars(TakeGil(t)) /\ SF_vars(YieldGil(t))

FairSpec == Spec /\ Fairness

----------------------------------------------------------------------------
(* Properties.                                                             *)

Given(a) ==
  /\ a.kind = "name_value"
  /\ \/ a.name = "flavor" /\ a.lit.type = "str" /\ a.lit.value \in Flavor
     \/ a.name = "worker_threads" /\ a.lit.type = "int" /\ a.lit.value \in 1..MaxUsize

\* tokio::main compiles exactly the attributes that give a known flavour and a
\* usable number of workers at most once each, in any order, and no workers to
\* current_thread; the runtime is configured as they say, and multi_thread with
\* the default number of workers where they say nothing.
ConfigAsWritten ==
  LET args == item.args
  IN  item.attribute = "tokio" /\ pc # "attribute" =>
        IF /\ item.fn.async /\ ~(item.fn.name = "main" /\ item.fn.inputs)
           /\ \A i \in DOMAIN args : Given(args[i])
           /\ \A i, j \in DOMAIN args : args[i].name = args[j].name => i = j
           /\ (\E i \in DOMAIN args : args[i].name = "flavor" /\ args[i].lit.value = "current_thread") =>
                Len(args) = 1
        THEN /\ \A i \in DOMAIN args : config[args[i].name] = args[i].lit.value
             /\ (\A i \in DOMAIN args : args[i].name # "flavor") => config.flavor = "multi_thread"
             /\ (\A i \in DOMAIN args : args[i].name # "worker_threads") => config.worker_threads = 0
        ELSE pc = "compile_error"

\* A generated main runs on the runtime that its attribute configures, whatever
\* its program initialises later, and although init never fails; and a runtime
\* that init_with_runtime said was lent is the runtime.
RuntimeAsConfigured ==
  /\ item.attribute \in {"tokio", "run_forever"} => runtime \in {New, config}
  /\ S!OneRuntime

\* A generated main polls the async main or panics because the runtime cannot
\* be built: a current_thread runtime is driven although the main thread and
\* the thread that drives it race to build it.
MainStarts == pc = "init" ~> main_fut = "polled" \/ pc = "panicked"

\* The cells whose initialiser may wait for the GIL: that of FALSE takes it, that
\* of the stream glue gives it up, and so does an import where no generated main
\* has imported asyncio and contextvars before it starts other threads.
MayBlock == {"FALSE", "GLUE_MOD"} \cup (IF Generated(item) THEN {} ELSE S!ImportCell)

\* Threads never wait for one another in a circle of cells: who waits for a thread
\* that waits itself wants an attribute of asyncio, and the thread that imports
\* asyncio waits for no cell.  And a thread that holds the GIL waits only for an
\* initialiser that needs no GIL, or for one of MayBlock.
WhoWaits == \A t, u \in Thread : S!WaitsFor(t, u) =>
  /\ \A v \in Thread : S!WaitsFor(u, v) => \A w \in Thread : ~S!WaitsFor(v, w)
  /\ gil = t => S!InCell(u, "TOKIO_RUNTIME") \/ \E x \in MayBlock : S!InCell(u, x)

\* A call of an accessor returns, whoever initialises the statics at the same
\* time, except where its thread waits for an initialiser of MayBlock.
CallsReturn == \A t \in Thread :
  stack[t] # <<>> ~> stack[t] = <<>> \/ ~Alive \/ S!Deadlock(MayBlock)
=============================================================================
