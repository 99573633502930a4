----------------------------- MODULE ModuleRunner -----------------------------
(***************************************************************************)
(* Registration and shutdown of levshell-core's ModuleRunner (runner.rs).  *)
(* Modules are registered one after the other: start() is awaited, then    *)
(* the module is subscribed on the bus and its loop spawned.  shutdown()   *)
(* first signals every loop, then joins them in registration order.  The   *)
(* loops run concurrently; here a loop is its life cycle and the health it *)
(* reports, ModuleLoop has its inside.                                     *)
(***************************************************************************)
EXTENDS Naturals, Sequences

CONSTANTS
  Module,     \* modules the daemon registers
  Eventful    \* those whose subscribed_events() is not empty

VARIABLES
  runner,      \* "open", "signalling", "joining", "down"
  starting,    \* modules whose start() is being awaited (at most one)
  handles,     \* ModuleRunner.handles, as the modules' names in order
  loop,        \* per module: "none", "select", "handler", "stop", "done", "panicked"
  health,      \* per module: HealthState, "absent" before its handle exists
  subscribed,  \* modules whose receiver is on the bus
  signalled,   \* modules whose stop_tx has been used
  joined,      \* how many handles shutdown() has joined
  hangs        \* modules whose stop() never returns (a property of the module)

vars == <<runner, starting, handles, loop, health, subscribed, signalled, joined, hangs>>

Handled == {handles[i] : i \in 1..Len(handles)}
Spawned == {m \in Handled : loop[m] # "none"}
Alive(m) == loop[m] \in {"select", "handler", "stop"}

TypeOK ==
  /\ runner \in {"open", "signalling", "joining", "down"}
  /\ starting \subseteq Module
  /\ handles \in Seq(Module)
  /\ loop \in [Module -> {"none", "select", "handler", "stop", "done", "panicked"}]
  /\ health \in [Module -> {"absent", "normal", "stale", "error", "unavailable"}]
  /\ subscribed \subseteq Eventful
  /\ signalled \subseteq Handled
  /\ joined \in 0..Len(handles)
  /\ hangs \subseteq Module

Init ==
  /\ runner = "open"
  /\ starting = {}
  /\ handles = <<>>
  /\ loop = [m \in Module |-> "none"]
  /\ health = [m \in Module |-> "absent"]
  /\ subscribed = {}
  /\ signalled = {}
  /\ joined = 0
  /\ hangs \in SUBSET Module

-----------------------------------------------------------------------------
\* register(m) is called: names and kinds are read, start() is awaited.
Start(m) ==
  /\ runner = "open"
  /\ starting = {}
  /\ m \notin Handled
  /\ starting' = {m}
  /\ UNCHANGED <<runner, handles, loop, health, subscribed, signalled, joined, hangs>>

\* start() returned Unavailable: the handle is parked, nothing is spawned.
Park(m) ==
  /\ m \in starting
  /\ starting' = {}
  /\ handles' = Append(handles, m)
  /\ health' = [health EXCEPT ![m] = "unavailable"]
  /\ UNCHANGED <<runner, loop, subscribed, signalled, joined, hangs>>

\* start() returned Ok or Failed: subscribe if there are kinds, spawn the loop.
Spawn(m) ==
  /\ m \in starting
  /\ starting' = {}
  /\ handles' = Append(handles, m)
  /\ health' \in {[health EXCEPT ![m] = h] : h \in {"normal", "error"}}
  /\ subscribed' = subscribed \cup ({m} \cap Eventful)
  /\ loop' = [loop EXCEPT ![m] = "select"]
  /\ UNCHANGED <<runner, signalled, joined, hangs>>

-----------------------------------------------------------------------------
\* The loop turns to a tick or an event (unless the stop signal is there).
Enter(m) ==
  /\ loop[m] = "select"
  /\ m \notin signalled
  /\ loop' = [loop EXCEPT ![m] = "handler"]
  /\ UNCHANGED <<runner, starting, handles, health, subscribed, signalled, joined, hangs>>

\* The handler returns or is cut off: the outcome is folded into the health.
Leave(m) ==
  /\ loop[m] = "handler"
  /\ loop' = [loop EXCEPT ![m] = "select"]
  /\ health' \in {[health EXCEPT ![m] = h] : h \in {"normal", "error", "unavailable", "stale"}}
  /\ UNCHANGED <<runner, starting, handles, subscribed, signalled, joined, hangs>>

\* A panic in a handler ends the task; the receiver is dropped, the health
\* keeps the last value written.
Panic(m) ==
  /\ loop[m] = "handler"
  /\ loop' = [loop EXCEPT ![m] = "panicked"]
  /\ subscribed' = subscribed \ {m}
  /\ UNCHANGED <<runner, starting, handles, health, signalled, joined, hangs>>

\* The loop sees the stop signal and awaits module.stop().
Stop(m) ==
  /\ loop[m] = "select"
  /\ m \in signalled
  /\ loop' = [loop EXCEPT ![m] = "stop"]
  /\ UNCHANGED <<runner, starting, handles, health, subscribed, signalled, joined, hangs>>

\* stop() returned; an error is only logged.  The task ends.
Finish(m) ==
  /\ loop[m] = "stop"
  /\ m \notin hangs
  /\ loop' = [loop EXCEPT ![m] = "done"]
  /\ subscribed' = subscribed \ {m}
  /\ UNCHANGED <<runner, starting, handles, health, signalled, joined, hangs>>

-----------------------------------------------------------------------------
\* shutdown() consumes the runner, so no register() is under way.
Shutdown ==
  /\ runner = "open"
  /\ starting = {}
  /\ runner' = "signalling"
  /\ UNCHANGED <<starting, handles, loop, health, subscribed, signalled, joined, hangs>>

\* First pass: one stop signal per spawned loop, in order, without waiting.
\* A loop that already ended drops the signal.
SignalNext(m) ==
  /\ runner = "signalling"
  /\ m \in Spawned \ signalled
  /\ signalled' = signalled \cup {m}
  /\ UNCHANGED <<runner, starting, handles, loop, health, subscribed, joined, hangs>>

SignalsSent ==
  /\ runner = "signalling"
  /\ Spawned \subseteq signalled
  /\ runner' = "joining"
  /\ UNCHANGED <<starting, handles, loop, health, subscribed, signalled, joined, hangs>>

\* Mutant: shutdown() does not wait for the tasks.
JoinNoWait ==
  /\ runner = "joining"
  /\ joined < Len(handles)
  /\ joined' = joined + 1
  /\ UNCHANGED <<runner, starting, handles, loop, health, subscribed, signalled, hangs>>

\* Second pass: wait for the task of the next handle, if it has one.
JoinNext ==
  /\ runner = "joining"
  /\ joined < Len(handles)
  /\ ~Alive(handles[joined + 1])
  /\ joined' = joined + 1
  /\ UNCHANGED <<runner, starting, handles, loop, health, subscribed, signalled, hangs>>

ShutdownReturns ==
  /\ runner = "joining"
  /\ joined = Len(handles)
  /\ runner' = "down"
  /\ UNCHANGED <<starting, handles, loop, health, subscribed, signalled, joined, hangs>>

LoopStep(m) == Enter(m) \/ Leave(m) \/ Panic(m) \/ Stop(m) \/ Finish(m)

RunnerStep == (\E m \in Module : SignalNext(m)) \/ SignalsSent \/ JoinNext \/ ShutdownReturns

Next ==
  \/ \E m \in Module : Start(m) \/ Park(m) \/ Spawn(m) \/ LoopStep(m)
  \/ Shutdown \/ RunnerStep

Spec == Init /\ [][Next]_vars

\* Tasks are polled; handlers end (their timeout sees to it).  Nothing makes a
\* stop() of hangs return, and nobody has to register, publish or shut down.
FairSpec ==
  /\ Spec
  /\ WF_vars(RunnerStep)
  /\ \A m \in Module : WF_vars(Leave(m) \/ Stop(m) \/ Finish(m))

-----------------------------------------------------------------------------
(***************************************************************************)
(* Properties                                                              *)
(***************************************************************************)
\* When shutdown() has returned no module task is left and no receiver is on the
\* bus: what runs after it in the daemon (the sync engine's stop, removal of the
\* socket) cannot race with a module.
NoTaskLeft == runner = "down" => subscribed = {} /\ \A m \in Module : ~Alive(m)

\* shutdown() returns when every stop() does: parked and panicked modules do
\* not hold it up.  It leaves no task behind.  And "doing this in two passes lets
\* the modules unwind in parallel": a module whose stop() returns is stopped even
\* if another one's never does.  (The variables keep their types.)
ShutdownTerminates ==
  /\ (runner # "open" /\ hangs = {}) ~> runner = "down"
  /\ [](TypeOK /\ NoTaskLeft)
  /\ \A m \in Module : (m \notin hangs /\ Alive(m) /\ runner # "open") ~> ~Alive(m)
=============================================================================
