------------------------------- MODULE MCRunner -------------------------------
(***************************************************************************)
(* The inside of one module's loop in time; the runner with two modules,   *)
(* one of which listens to events; and the sync engine's loops for two     *)
(* adapters, either of which may have a probe that hangs.                  *)
(***************************************************************************)
EXTENDS ModuleLoop

CONSTANTS a, b

VARIABLES
  part, \* "loop", "runner" or "engine": which of them moves
  \* ModuleRunner
  runner, starting, handles, loop, handleHealth, subscribed, signalled, joined, hangs,
  \* SyncEngine
  task, spent, interval, unseen, battery, inbox, watcher, power, lossy, published, handle, extra, stuck

Runner == INSTANCE ModuleRunner
  WITH Module <- {a, b}, Eventful <- {a}, health <- handleHealth

Engine == INSTANCE SyncEngine
  WITH Adapter <- {a, b}, PollInterval <- 1, Multiplier <- 2, Timeout <- 2, Capacity <- 1, MaxPower <- 2,
       pc <- task

runnerTuple == <<runner, starting, handles, loop, handleHealth, subscribed, signalled, joined, hangs>>
engineTuple ==
  <<task, spent, interval, unseen, battery, inbox, watcher, power, lossy, published, handle, extra, stuck>>
allVars == <<part, vars, runnerTuple, engineTuple>>

RunnerInit ==
  /\ part \in {"runner", "loop", "engine"} /\ Init /\ Runner!Init /\ Engine!Init
  /\ part # "runner" => hangs = {}
  /\ part # "loop" => health = "normal"
  /\ part # "engine" => battery /\ stuck = {}

LoopPart(A) == part = "loop" /\ A /\ UNCHANGED <<part, runnerTuple, engineTuple>>
RunnerPart(A) == part = "runner" /\ A /\ UNCHANGED <<part, vars, engineTuple>>
EnginePart(A) == part = "engine" /\ A /\ UNCHANGED <<part, vars, runnerTuple>>

\* The fairness is that of the three modules' own FairSpec.
RunnerSpec ==
  /\ RunnerInit /\ [][LoopPart(Next) \/ RunnerPart(Runner!Next) \/ EnginePart(Engine!Next)]_allVars
  /\ WF_allVars(RunnerPart(Runner!RunnerStep))
  /\ \A m \in {a, b} : WF_allVars(RunnerPart(Runner!Leave(m) \/ Runner!Stop(m) \/ Runner!Finish(m)))
  /\ WF_allVars(LoopPart(SelectStop \/ SelectTick \/ SelectEvent \/ SelectNone))
  /\ WF_allVars(LoopPart(HandlerTimesOut))
  /\ WF_allVars(LoopPart(pc = "tick" /\ ran = SlowTick /\ HandlerReturns))
  /\ WF_allVars(LoopPart(pc = "event" /\ ran = SlowEvent /\ HandlerReturns))
  /\ WF_allVars(LoopPart(Elapse))
  /\ WF_allVars(EnginePart(Engine!WatchPower)) /\ WF_allVars(EnginePart(Engine!Elapse))
  /\ WF_allVars(EnginePart(Engine!ShutdownReturns))
  /\ \A m \in {a, b} :
       /\ WF_allVars(EnginePart(Engine!BeginSync(m) \/ Engine!Unavailable(m)))
       /\ WF_allVars(EnginePart(spent[m] = 2 /\ Engine!EndSync(m)))
       /\ WF_allVars(EnginePart(Engine!SleepDone(m) \/ Engine!SleepChanged(m) \/ Engine!SleepStopped(m)))

\* ModuleRunner: shutdown ends the tasks and returns if every stop() does.  (The
\* variables of the loop keep their types, too.)
ShutdownTerminates == Runner!ShutdownTerminates /\ []TypeOK

\* SyncEngine: a sleep runs with the interval of the power state it knows of.
ModeInEffect == Engine!ModeInEffect

\* SyncEngine: shutdown and the loss of the handle end every loop whose probe returns.
EngineStops == Engine!EngineStops

\* SyncEngine: no adapter is kept from polling by another.
KeepsPolling == Engine!KeepsPolling
=============================================================================
