------------------------------ MODULE SyncEngine ------------------------------
(***************************************************************************)
(* The scheduler of levshell-sync (engine.rs): one task per adapter that   *)
(* probes, syncs under a timeout and sleeps; a watcher that turns          *)
(* PowerStateChanged events into one shared battery flag, whose flips      *)
(* restart every sleep with the interval that now applies; and the         *)
(* shutdown of it all.  Time is discrete.  The watcher's subscription is   *)
(* the bounded lossy FIFO that EventBus implements.                        *)
(***************************************************************************)
EXTENDS Naturals, Sequences

CONSTANTS
  Adapter,
  PollInterval,  \* poll_interval(), in time units, at least one
  Multiplier,    \* battery_poll_multiplier
  Timeout,       \* timeout() of sync(), at least one
  Capacity,      \* of the watcher's channel, at least one
  MaxPower       \* bound on the PowerStateChanged events

VARIABLES
  pc,        \* per adapter: "probe", "sync", "sleep", "done"
  spent,     \* per adapter: time in the present sync or sleep
  interval,  \* per adapter: the interval the present sleep was begun with
  unseen,    \* adapters whose watch receiver has a change to see
  battery,   \* the watched flag
  inbox,     \* PowerStateChanged events that wait for the watcher
  watcher,   \* the watcher task runs
  power,     \* on_battery of the last event published
  lossy,     \* history: an event found the watcher's channel full
  published, \* counter for MaxPower
  handle,    \* SyncEngineHandle: "held", "joining", "gone" (shut down) or "dropped"
  extra,     \* history: syncs begun since the stop signal was sent
  stuck      \* adapters whose probe never returns (a property of the adapter)

loopVars == <<pc, spent, interval, extra>>
powerVars == <<battery, inbox, power, lossy, published>>
vars == <<loopVars, unseen, powerVars, watcher, handle, stuck>>

\* effective_interval
EffectiveInterval(b) ==
  IF b /\ Multiplier > 1 THEN PollInterval * Multiplier ELSE PollInterval

Intervals == {EffectiveInterval(b) : b \in BOOLEAN}

TypeOK ==
  /\ pc \in [Adapter -> {"probe", "sync", "sleep", "done"}]
  /\ spent \in [Adapter -> Nat]
  /\ interval \in [Adapter -> Intervals]
  /\ unseen \subseteq Adapter
  /\ inbox \in Seq(BOOLEAN) /\ Len(inbox) <= Capacity
  /\ {battery, watcher, power, lossy} \subseteq BOOLEAN
  /\ published \in 0..MaxPower
  /\ handle \in {"held", "joining", "gone", "dropped"}
  /\ extra \in [Adapter -> Nat]
  /\ stuck \subseteq Adapter
  /\ \A a \in Adapter : pc[a] = "sync" => spent[a] <= Timeout
  /\ \A a \in Adapter : pc[a] = "sleep" => spent[a] <= interval[a]

Init ==
  /\ pc = [a \in Adapter |-> "probe"]
  /\ spent = [a \in Adapter |-> 0]
  /\ interval = [a \in Adapter |-> PollInterval]
  /\ unseen = {}
  /\ battery \in BOOLEAN  \* initial_on_battery
  /\ inbox = <<>>
  /\ watcher = TRUE
  /\ power = battery
  /\ lossy = FALSE
  /\ published = 0
  /\ handle = "held"
  /\ extra = [a \in Adapter |-> 0]
  /\ stuck \in SUBSET Adapter

-----------------------------------------------------------------------------
\* The battery module publishes PowerStateChanged, perhaps without a change.
PublishPower ==
  /\ published < MaxPower
  /\ published' = published + 1
  /\ power' \in BOOLEAN
  /\ IF watcher /\ Len(inbox) < Capacity
       THEN inbox' = Append(inbox, power') /\ UNCHANGED lossy
       ELSE lossy' = TRUE /\ UNCHANGED inbox
  /\ UNCHANGED <<loopVars, unseen, battery, watcher, handle, stuck>>

\* send_if_modified: receivers are notified of a change only.
WatchPower ==
  /\ watcher
  /\ inbox # <<>>
  /\ inbox' = Tail(inbox)
  /\ battery' = Head(inbox)
  /\ unseen' = IF battery' # battery THEN Adapter ELSE unseen
  /\ UNCHANGED <<loopVars, power, lossy, published, watcher, handle, stuck>>

-----------------------------------------------------------------------------
(***************************************************************************)
(* adapter_loop                                                            *)
(***************************************************************************)
\* The probe says anything but Unavailable: a sync begins.
BeginSync(a) ==
  /\ pc[a] = "probe"
  /\ a \notin stuck
  /\ pc' = [pc EXCEPT ![a] = "sync"]
  /\ spent' = [spent EXCEPT ![a] = 0]
  /\ extra' = IF handle = "held" THEN extra ELSE [extra EXCEPT ![a] = @ + 1]
  /\ UNCHANGED <<interval, unseen, powerVars, watcher, handle, stuck>>

\* What interruptible_sleep does first and on every turn of its loop.
EnterSleep(a) ==
  /\ pc' = [pc EXCEPT ![a] = "sleep"]
  /\ spent' = [spent EXCEPT ![a] = 0]
  /\ interval' = [interval EXCEPT ![a] = EffectiveInterval(battery)]

Unavailable(a) ==
  /\ pc[a] = "probe"
  /\ a \notin stuck
  /\ EnterSleep(a)
  /\ UNCHANGED <<extra, unseen, powerVars, watcher, handle, stuck>>

\* sync() returns, with a report or an error, or its timeout elapses; the
\* outcome is published.
EndSync(a) ==
  /\ pc[a] = "sync"
  /\ EnterSleep(a)
  /\ UNCHANGED <<extra, unseen, powerVars, watcher, handle, stuck>>

\* Mutant: one task serves all adapters, each round waiting for every one.
SleepDoneTogether(a) ==
  /\ pc[a] = "sleep"
  /\ spent[a] = interval[a]
  /\ \A b \in Adapter : pc[b] \in {"sleep", "done"}
  /\ pc' = [pc EXCEPT ![a] = "probe"]
  /\ spent' = [spent EXCEPT ![a] = 0]
  /\ UNCHANGED <<interval, extra, unseen, powerVars, watcher, handle, stuck>>

SleepDone(a) ==
  /\ pc[a] = "sleep"
  /\ spent[a] = interval[a]
  /\ pc' = [pc EXCEPT ![a] = "probe"]
  /\ spent' = [spent EXCEPT ![a] = 0]
  /\ UNCHANGED <<interval, extra, unseen, powerVars, watcher, handle, stuck>>

\* Mutant: the sleep goes on with the interval it has.
SleepKept(a) ==
  /\ pc[a] = "sleep"
  /\ a \in unseen
  /\ unseen' = unseen \ {a}
  /\ UNCHANGED <<loopVars, powerVars, watcher, handle, stuck>>

\* battery_rx.changed(): the sleep starts over.
SleepChanged(a) ==
  /\ pc[a] = "sleep"
  /\ a \in unseen
  /\ unseen' = unseen \ {a}
  /\ EnterSleep(a)
  /\ UNCHANGED <<extra, powerVars, watcher, handle, stuck>>

\* Mutant: the stop signal is only looked at when a battery change ends the sleep.
SleepStoppedLate(a) ==
  /\ pc[a] = "sleep"
  /\ handle # "held"
  /\ a \in unseen
  /\ pc' = [pc EXCEPT ![a] = "done"]
  /\ UNCHANGED <<spent, interval, extra, unseen, powerVars, watcher, handle, stuck>>

\* The stop signal ends the sleep and the loop.
SleepStopped(a) ==
  /\ pc[a] = "sleep"
  /\ handle # "held"
  /\ pc' = [pc EXCEPT ![a] = "done"]
  /\ UNCHANGED <<spent, interval, extra, unseen, powerVars, watcher, handle, stuck>>

\* No sync outlasts its timeout, and a sleep ends when one of its branches is
\* ready.
MayWait(a) ==
  /\ pc[a] = "sync" => spent[a] < Timeout
  /\ pc[a] = "sleep" => spent[a] < interval[a] /\ a \notin unseen /\ handle = "held"

Elapse ==
  /\ \A a \in Adapter : MayWait(a)
  /\ \E a \in Adapter : pc[a] \in {"sync", "sleep"}
  /\ spent' = [a \in Adapter |-> IF pc[a] \in {"sync", "sleep"} THEN spent[a] + 1 ELSE spent[a]]
  /\ UNCHANGED <<pc, interval, extra, unseen, powerVars, watcher, handle, stuck>>

-----------------------------------------------------------------------------
\* SyncEngineHandle::shutdown: signal every loop at once, then join them, and
\* only then abort the watcher.
Shutdown ==
  /\ handle = "held"
  /\ handle' = "joining"
  /\ UNCHANGED <<loopVars, unseen, powerVars, watcher, stuck>>

ShutdownReturns ==
  /\ handle = "joining"
  /\ \A a \in Adapter : pc[a] = "done"
  /\ handle' = "gone"
  /\ watcher' = FALSE
  /\ UNCHANGED <<loopVars, unseen, powerVars, stuck>>

\* The handle is dropped: its senders go, which every loop sees as the signal;
\* the tasks and the watcher are detached.
DropHandle ==
  /\ handle = "held"
  /\ handle' = "dropped"
  /\ UNCHANGED <<loopVars, unseen, powerVars, watcher, stuck>>

LoopStep(a) ==
  BeginSync(a) \/ Unavailable(a) \/ EndSync(a) \/ SleepDone(a) \/ SleepChanged(a) \/ SleepStopped(a)

Next ==
  \/ PublishPower \/ WatchPower
  \/ \E a \in Adapter : LoopStep(a)
  \/ Elapse \/ Shutdown \/ ShutdownReturns \/ DropHandle

Spec == Init /\ [][Next]_vars

\* Tasks are polled, time passes, a probe that is not stuck returns and a sync
\* ends by its timeout at the latest.  Nobody has to shut down.
FairSpec ==
  /\ Spec
  /\ WF_vars(WatchPower) /\ WF_vars(Elapse) /\ WF_vars(ShutdownReturns)
  /\ \A a \in Adapter :
       /\ WF_vars(BeginSync(a) \/ Unavailable(a))
       /\ WF_vars(spent[a] = Timeout /\ EndSync(a))
       /\ WF_vars(SleepDone(a) \/ SleepChanged(a) \/ SleepStopped(a))

-----------------------------------------------------------------------------
(***************************************************************************)
(* Properties                                                              *)
(***************************************************************************)
\* "every in-flight sleep is woken so the new multiplier takes effect
\* immediately": a sleep that has no change to see runs with the interval of
\* the present flag, also when the flip came during a sync.
SleepsMatch ==
  \A a \in Adapter : pc[a] = "sleep" /\ a \notin unseen => interval[a] = EffectiveInterval(battery)

\* Every sleep has the interval of the present mode, and the flag comes to agree
\* with the last event published, unless one was lost.  (The variables keep their
\* types: no sync outlasts its timeout, no sleep its interval.)
ModeInEffect ==
  /\ [](TypeOK /\ SleepsMatch)
  /\ <>[](lossy \/ ~watcher \/ battery = power)

\* When shutdown() has returned, neither a loop nor the watcher runs.
NothingRuns == handle = "gone" => ~watcher /\ \A a \in Adapter : pc[a] = "done"

\* After the stop signal an adapter begins at most one more sync: the one its
\* probe had been asked for, or one whose timer won the race with the signal.
OneMoreSync == \A a \in Adapter : extra[a] <= 1

\* shutdown() returns if the probes do, and nothing of the engine runs when it
\* has; dropping the handle ends the loops too, as its doc comment says.  No
\* adapter begins more than one sync after the signal.
EngineStops ==
  /\ (handle = "joining" /\ stuck = {}) ~> handle = "gone"
  /\ []NothingRuns
  /\ \A a \in Adapter : (handle = "dropped" /\ a \notin stuck) ~> pc[a] = "done"
  /\ []OneMoreSync

\* An adapter is probed again and again, whatever the others' probes and syncs
\* do, if the flag flips finitely often.
KeepsPolling == \A a \in Adapter : []<>(pc[a] \in {"probe", "done"})
=============================================================================
