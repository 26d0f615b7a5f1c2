----------------------------- MODULE Singletons -----------------------------
(***************************************************************************)
(* The lazily initialised statics of the crate, and the two kinds of lock  *)
(* a thread may wait for in one of them: the GIL and the cell itself.      *)
(*                                                                         *)
(* A OnceCell lets one thread initialise it and blocks the others, whether *)
(* or not they hold the GIL.  An initialiser may need the GIL (TRUE,       *)
(* FALSE), may run Python code, which may give the GIL up (the imports and *)
(* GLUE_MOD), or may use another cell (ENSURE_FUTURE and GET_RUNNING_LOOP  *)
(* need ASYNCIO).  TOKIO_RUNTIME is built from TOKIO_BUILDER, a mutex that a    *)
(* failed build poisons, unless the program lends a runtime first.         *)
(*                                                                         *)
(* The module has no Next: module TokioMain says which thread makes which  *)
(* calls.                                                                  *)
(***************************************************************************)
EXTENDS Naturals, SequencesExt

CONSTANTS
  Thread,
  Builder,       \* what a tokio Builder can be configured to build
  DefaultBuilder,
  Static,        \* runtimes the program may lend
  NoRuntime,
  BuildMayFail   \* may Builder::build fail?

VARIABLES
  gil,       \* free, or the thread that holds it
  mode,      \* off, rust, or python: inside Python::with_gil, waiting or not
  stack,     \* the accessors a thread is in, the innermost last
  cell,      \* empty, full, or the thread that initialises it
  want,      \* the runtime that the init_with_runtime of a thread lends
  builder,   \* what TOKIO_BUILDER holds
  poisoned,  \* is TOKIO_BUILDER poisoned?
  runtime,   \* what TOKIO_RUNTIME holds
  lent,      \* the runtimes for which init_with_runtime returned Ok
  panicked   \* the threads whose last init or get_runtime panicked

gilVars == <<gil, mode>>
tokioVars == <<want, builder, poisoned, runtime, lent, panicked>>
singletonVars == <<gil, mode, stack, cell, want, builder, poisoned, runtime, lent, panicked>>

ImportCell == {"ASYNCIO", "CONTEXTVARS", "GLUE_MOD"}
AttrCell == {"ENSURE_FUTURE", "GET_RUNNING_LOOP"}
BoolCell == {"TRUE", "FALSE"}
Cell == ImportCell \cup AttrCell \cup BoolCell \cup {"TOKIO_RUNTIME"}

\* What TOKIO_RUNTIME may hold: a runtime of the crate's own, or a lent one.
Pyo3Runtime == Builder \cup Static

SingletonsTypeOK ==
  /\ gil \in Thread \cup {"free"}
  /\ mode \in [Thread -> {"off", "rust", "python"}]
  /\ stack \in [Thread -> Seq(Cell)] /\ \A t \in Thread : Len(stack[t]) <= 2
  /\ cell \in [Cell -> Thread \cup {"empty", "full"}]
  /\ want \in [Thread -> Static \cup {NoRuntime}]
  /\ builder \in Builder
  /\ poisoned \in BOOLEAN
  /\ runtime \in Pyo3Runtime \cup {NoRuntime}
  /\ lent \subseteq Static
  /\ panicked \subseteq Thread

\* Nothing is initialised.  TOKIO_BUILDER is Lazy: multi_thread().
SingletonsInit ==
  /\ gil = "free"
  /\ stack = [t \in Thread |-> <<>>]
  /\ cell = [x \in Cell |-> "empty"]
  /\ want = [t \in Thread |-> NoRuntime]
  /\ builder = DefaultBuilder
  /\ poisoned = FALSE
  /\ runtime = NoRuntime
  /\ lent = {} /\ panicked = {}

----------------------------------------------------------------------------
(* The GIL.                                                                *)

Runs(t) == mode[t] = "rust" \/ (mode[t] = "python" /\ gil = t)
Idle(t) == Runs(t) /\ stack[t] = <<>>
InCell(t, x) == stack[t] # <<>> /\ Last(stack[t]) = x

\* Is the thread executing Python code?
InPython(t) ==
  mode[t] = "python" /\ (stack[t] = <<>> \/ \E x \in ImportCell : InCell(t, x) /\ cell[x] = t)

\* Python::with_gil, and its end.
WithGil(t) ==
  /\ mode[t] = "rust" /\ stack[t] = <<>>
  /\ mode' = [mode EXCEPT ![t] = "python"]
  /\ UNCHANGED <<gil, stack, cell, tokioVars>>

EndWithGil(t) ==
  /\ mode[t] = "python" /\ gil = t /\ stack[t] = <<>>
  /\ mode' = [mode EXCEPT ![t] = "rust"]
  /\ gil' = "free"
  /\ UNCHANGED <<stack, cell, tokioVars>>

TakeGil(t) ==
  /\ mode[t] = "python" /\ gil = "free"
  /\ gil' = t
  /\ UNCHANGED <<mode, stack, cell, tokioVars>>

\* The interpreter switches threads, or waits for I/O without the GIL.
YieldGil(t) ==
  /\ gil = t /\ InPython(t)
  /\ gil' = "free"
  /\ UNCHANGED <<mode, stack, cell, tokioVars>>

----------------------------------------------------------------------------
(* The cells.                                                              *)

\* A thread calls an accessor.  Those of the Python objects take the GIL
\* token; py_true and py_false do not.  Without the GIL py_true is called by
\* the Rust task of an item, after an earlier item was sent with its result.
Call(t, x) ==
  /\ Idle(t)
  /\ x \in ImportCell \cup AttrCell => gil = t
  /\ x = "TRUE" => gil = t \/ cell[x] = "full"
  /\ stack' = [stack EXCEPT ![t] = <<x>>]
  /\ UNCHANGED <<gilVars, cell, tokioVars>>

Return(t) == stack' = [stack EXCEPT ![t] = Front(@)]

\* OnceCell::get_or_init: the cell is full; or this thread initialises it.  A
\* cell that another thread initialises blocks the thread.
Found(t) ==
  /\ stack[t] # <<>> /\ cell[Last(stack[t])] = "full"
  /\ Return(t)
  /\ want' = [want EXCEPT ![t] = NoRuntime]
  /\ panicked' = panicked \ {t}
  /\ UNCHANGED <<gilVars, cell, builder, poisoned, runtime, lent>>

Enter(t) ==
  /\ stack[t] # <<>> /\ cell[Last(stack[t])] = "empty"
  /\ cell' = [cell EXCEPT ![Last(stack[t])] = t]
  /\ UNCHANGED <<gilVars, stack, tokioVars>>

Fill(t, x) ==
  /\ InCell(t, x) /\ cell[x] = t
  /\ cell' = [cell EXCEPT ![x] = "full"]
  /\ Return(t)
  /\ UNCHANGED <<gilVars>>

\* asyncio(py), contextvars(py): the import is over.
asyncio(t) == gil = t /\ Fill(t, "ASYNCIO") /\ UNCHANGED tokioVars
contextvars(t) == gil = t /\ Fill(t, "CONTEXTVARS") /\ UNCHANGED tokioVars

\* PyModule::from_code has run the module STREAM_GLUE.
from_code(t) == gil = t /\ Fill(t, "GLUE_MOD") /\ UNCHANGED tokioVars

\* The initialisers that take an attribute of the module asyncio.
NeedAsyncio(t) ==
  /\ \E x \in AttrCell : InCell(t, x) /\ cell[x] = t
  /\ cell["ASYNCIO"] # "full"
  /\ stack' = [stack EXCEPT ![t] = Append(@, "ASYNCIO")]
  /\ UNCHANGED <<gilVars, cell, tokioVars>>

ensure_future(t) ==
  cell["ASYNCIO"] = "full" /\ Fill(t, "ENSURE_FUTURE") /\ UNCHANGED tokioVars

get_running_loop(t) ==
  cell["ASYNCIO"] = "full" /\ Fill(t, "GET_RUNNING_LOOP") /\ UNCHANGED tokioVars

\* Python::with_gil(|py| true.into_py(py)) inside the initialiser.
py_true(t) == gil \in {"free", t} /\ Fill(t, "TRUE") /\ UNCHANGED tokioVars
py_false(t) == gil \in {"free", t} /\ Fill(t, "FALSE") /\ UNCHANGED tokioVars

----------------------------------------------------------------------------
(* TOKIO_BUILDER and TOKIO_RUNTIME.                                        *)

\* Mutant: the builder is replaced even if the runtime is there, and rebuilt.
init_Rebuilds(t, b) ==
  /\ Idle(t)
  /\ builder' = b
  /\ runtime' = IF runtime = NoRuntime THEN runtime ELSE b
  /\ UNCHANGED <<gilVars, stack, cell, want, poisoned, lent, panicked>>

\* init: *TOKIO_BUILDER.lock().unwrap() = builder.
init(t, b) ==
  /\ Idle(t)
  /\ \/ /\ ~poisoned
        /\ builder' = b
        /\ panicked' = panicked \ {t}
     \/ /\ poisoned
        /\ panicked' = panicked \cup {t}
        /\ UNCHANGED builder
  /\ UNCHANGED <<gilVars, stack, cell, want, poisoned, runtime, lent>>

\* init_with_runtime is OnceCell::set: it blocks as get_or_init does.
init_with_runtime(t, r) ==
  /\ Idle(t)
  /\ stack' = [stack EXCEPT ![t] = <<"TOKIO_RUNTIME">>]
  /\ want' = [want EXCEPT ![t] = r]
  /\ UNCHANGED <<gilVars, cell, builder, poisoned, runtime, lent, panicked>>

Lend(t) ==
  /\ want[t] # NoRuntime
  /\ Fill(t, "TOKIO_RUNTIME")
  /\ runtime' = want[t]
  /\ lent' = lent \cup {want[t]}
  /\ want' = [want EXCEPT ![t] = NoRuntime]
  /\ panicked' = panicked \ {t}
  /\ UNCHANGED <<builder, poisoned>>

\* The initialiser of get_runtime.  A panic leaves the cell empty; one under
\* the lock poisons it.
Build(t) ==
  /\ want[t] = NoRuntime /\ ~poisoned
  /\ Fill(t, "TOKIO_RUNTIME")
  /\ runtime' = builder
  /\ panicked' = panicked \ {t}
  /\ UNCHANGED <<want, builder, poisoned, lent>>

BuildPanics(t) ==
  /\ want[t] = NoRuntime
  /\ InCell(t, "TOKIO_RUNTIME") /\ cell["TOKIO_RUNTIME"] = t
  /\ BuildMayFail \/ poisoned
  /\ poisoned' = TRUE
  /\ cell' = [cell EXCEPT !["TOKIO_RUNTIME"] = "empty"]
  /\ Return(t)
  /\ panicked' = panicked \cup {t}
  /\ UNCHANGED <<gilVars, want, builder, runtime, lent>>

\* A thread that is inside an accessor goes on.
Access(t) ==
  \/ Found(t) \/ Enter(t) \/ NeedAsyncio(t)
  \/ asyncio(t) \/ contextvars(t) \/ from_code(t) \/ ensure_future(t) \/ get_running_loop(t)
  \/ py_true(t) \/ py_false(t)
  \/ Lend(t) \/ Build(t) \/ BuildPanics(t)

----------------------------------------------------------------------------
(* Who waits for whom.                                                     *)

\* Thread t waits for the cell that thread u initialises.
WaitsFor(t, u) == t # u /\ stack[t] # <<>> /\ cell[Last(stack[t])] = u

\* Thread t holds the GIL and waits for a cell of S whose initialiser is
\* thread u and waits for the GIL (directly, or in the import it needs).
Deadlock(S) == \E t, u \in Thread :
  gil = t /\ WaitsFor(t, u) /\ stack[u] # <<>> /\ Last(stack[u]) \in S

\* A runtime that was lent with success is the runtime, and a builder that
\* failed to build it never does later: a poisoned TOKIO_BUILDER is for good.
OneRuntime ==
  /\ \A r \in lent : runtime = r
  /\ poisoned => runtime \notin Builder
  /\ cell["TOKIO_RUNTIME"] = "full" <=> runtime # NoRuntime
=============================================================================
