------------------------------ MODULE ModuleLoop ------------------------------
(***************************************************************************)
(* module_loop() of levshell-core's ModuleRunner (runner.rs): one task per *)
(* module that selects, in a fixed order of preference, between the stop   *)
(* signal, the tick timer and the module's event channel, and runs one     *)
(* handler at a time under a timeout.  Time is discrete; the event channel *)
(* is the bounded lossy FIFO that EventBus implements.                     *)
(*                                                                         *)
(* The timer is tokio's Interval with MissedTickBehavior::Skip: it fires   *)
(* at time 0, then at multiples of the period; a late tick fires as soon   *)
(* as it is polled, and the deadline after it is the next multiple.        *)
(***************************************************************************)
EXTENDS Integers, Sequences

CONSTANTS
  Period,      \* tick_interval, in time units
  EventLimit,  \* HARD_EVENT_TIMEOUT
  SlowTick,    \* a tick() that is not cut off returns within this time
  SlowEvent,   \* the same for on_event()
  Capacity,    \* channel_capacity
  MaxEvents    \* bound on the events published to the module

\* tokio's interval() panics on a zero period, as its channel() does on no slots;
\* a timeout is at least a unit of time, and so is what a handler may take.
ASSUME LoopAssumption ==
  /\ Period \in Nat \ {0} /\ EventLimit \in Nat \ {0}
  /\ SlowTick \in Nat \ {0} /\ SlowEvent \in Nat \ {0}
  /\ Capacity \in Nat \ {0}
  /\ MaxEvents \in Nat

VARIABLES
  pc,       \* "select", "tick", "event" (a handler runs), "stop", "done"
  ran,      \* time the running handler has taken so far
  due,      \* time to the next tick deadline, negative when it has passed
  health,   \* HealthState
  rx,       \* event_rx is Some
  sender,   \* the bus still holds the sending half
  stop,     \* the stop signal was sent
  age,      \* history: time since the stop signal
  phase, queue, got, dropped, seen  \* the event channel, see LossyFifo

chanVars == <<phase, queue, got, dropped, seen>>
vars == <<pc, ran, due, health, rx, sender, stop, age, chanVars>>

Chan == INSTANCE LossyFifo

\* tick_timeout
TickLimit == 2 * Period

Least(a, b) == IF a < b THEN a ELSE b
Greatest(a, b) == IF a < b THEN b ELSE a

\* The channel never holds more than its slots, and the next deadline is never
\* more than a period away nor further in the past than the longest handler.
TypeOK ==
  /\ pc \in {"select", "tick", "event", "stop", "done"}
  /\ ran \in 0..Greatest(TickLimit, EventLimit)
  /\ due \in (-Greatest(TickLimit, EventLimit))..Period
  /\ health \in {"normal", "stale", "error", "unavailable"}
  /\ {rx, sender, stop} \subseteq BOOLEAN
  /\ age \in 0..Greatest(TickLimit, EventLimit) + 1
  /\ phase \in {"open", "closed"}
  /\ {queue, got} \subseteq Seq(1..MaxEvents) /\ Len(queue) <= Capacity
  /\ seen \in 0..MaxEvents
  /\ dropped \in Nat

Init ==
  /\ pc = "select"
  /\ ran = 0
  /\ due = 0
  /\ health \in {"normal", "error"}  \* Ok or Failed from start()
  /\ rx = TRUE
  /\ sender = TRUE
  /\ stop = FALSE
  /\ age = 0
  /\ phase = "open"
  /\ queue = <<>>
  /\ got = <<>>
  /\ dropped = 0
  /\ seen = 0

-----------------------------------------------------------------------------
(***************************************************************************)
(* The environment                                                         *)
(***************************************************************************)
\* A matching event is published: it enters the channel or is dropped.
Publish ==
  /\ sender
  /\ seen < MaxEvents
  /\ seen' = seen + 1
  /\ Chan!Offer
  /\ UNCHANGED <<pc, ran, due, health, rx, sender, stop, age>>

\* The last clone of the bus goes away.
DropBus ==
  /\ sender
  /\ sender' = FALSE
  /\ UNCHANGED <<pc, ran, due, health, rx, stop, age, chanVars>>

\* ModuleRunner::shutdown sends the stop signal.
Signal ==
  /\ ~stop
  /\ stop' = TRUE
  /\ UNCHANGED <<pc, ran, due, health, rx, sender, age, chanVars>>

-----------------------------------------------------------------------------
(***************************************************************************)
(* select!, biased: stop, then tick, then event                            *)
(***************************************************************************)
StopReady == stop
TickReady == due <= 0
EventReady == rx /\ (queue # <<>> \/ ~sender)

SelectStop ==
  /\ pc = "select"
  /\ StopReady
  /\ pc' = "stop"
  /\ UNCHANGED <<ran, due, health, rx, sender, stop, age, chanVars>>

\* Mutant: select! without "biased" may prefer a tick to the stop signal.
TickUnbiased ==
  /\ pc = "select"
  /\ TickReady
  /\ pc' = "tick"
  /\ ran' = 0
  /\ due' = Period - ((-due) % Period)
  /\ UNCHANGED <<health, rx, sender, stop, age, chanVars>>

SelectTick ==
  /\ pc = "select"
  /\ ~StopReady
  /\ TickReady
  /\ pc' = "tick"
  /\ ran' = 0
  /\ due' = Period - ((-due) % Period)
  /\ UNCHANGED <<health, rx, sender, stop, age, chanVars>>

SelectEvent ==
  /\ pc = "select"
  /\ ~StopReady
  /\ ~TickReady
  /\ rx
  /\ Chan!Take
  /\ pc' = "event"
  /\ ran' = 0
  /\ UNCHANGED <<due, health, rx, sender, stop, age>>

\* Mutant: the branch is disabled as soon as the bus is gone, with events left.
SelectNoneEarly ==
  /\ pc = "select"
  /\ ~StopReady
  /\ ~TickReady
  /\ rx /\ ~sender
  /\ rx' = FALSE
  /\ UNCHANGED <<pc, ran, due, health, sender, stop, age, chanVars>>

\* recv() returns None: the event branch is disabled, ticks go on.
SelectNone ==
  /\ pc = "select"
  /\ ~StopReady
  /\ ~TickReady
  /\ rx /\ queue = <<>> /\ ~sender
  /\ rx' = FALSE
  /\ UNCHANGED <<pc, ran, due, health, sender, stop, age, chanVars>>

-----------------------------------------------------------------------------
(***************************************************************************)
(* Handlers and their outcome (update_health_after_tick / _event)          *)
(***************************************************************************)
Outcome == {"normal", "error", "unavailable"}  \* Ok, Failed, Unavailable

HandlerReturns ==
  /\ pc \in {"tick", "event"}
  /\ health' \in Outcome
  /\ pc' = "select"
  /\ UNCHANGED <<ran, due, rx, sender, stop, age, chanVars>>

\* tokio::time::timeout elapsed: the handler is dropped where it stands.
HandlerTimesOut ==
  /\ \/ pc = "tick" /\ ran = TickLimit
     \/ pc = "event" /\ ran = EventLimit
  /\ health' = "stale"
  /\ pc' = "select"
  /\ UNCHANGED <<ran, due, rx, sender, stop, age, chanVars>>

\* module.stop() returned (its error is only logged) and the task ends; the
\* receiver goes with it.
StopReturns ==
  /\ pc = "stop"
  /\ pc' = "done"
  /\ Chan!Close
  /\ UNCHANGED <<ran, due, health, rx, sender, stop, age>>

\* How long the code in control may still hold it: not at all in select with
\* a branch ready, up to its timeout in a handler, any time elsewhere.
MayWait ==
  /\ pc = "select" => ~(StopReady \/ TickReady \/ EventReady)
  /\ pc = "tick" => ran < Least(TickLimit, SlowTick)
  /\ pc = "event" => ran < Least(EventLimit, SlowEvent)

\* One unit of time passes.
Elapse ==
  /\ pc # "done"
  /\ MayWait
  /\ ran' = IF pc \in {"tick", "event"} THEN ran + 1 ELSE ran
  /\ due' = IF pc \in {"select", "tick", "event"} THEN due - 1 ELSE due
  /\ age' = IF stop /\ pc # "stop" THEN age + 1 ELSE age
  /\ UNCHANGED <<pc, health, rx, sender, stop, chanVars>>

Loop ==
  \/ SelectStop \/ SelectTick \/ SelectEvent \/ SelectNone
  \/ HandlerReturns \/ HandlerTimesOut \/ StopReturns

Next == Publish \/ DropBus \/ Signal \/ Loop \/ Elapse

Spec == Init /\ [][Next]_vars

\* The executor keeps polling the task, and time passes while it waits.
\* Handlers need not return on their own: their timeout is part of Loop.
FairSpec ==
  /\ Spec
  /\ WF_vars(SelectStop \/ SelectTick \/ SelectEvent \/ SelectNone)
  /\ WF_vars(HandlerTimesOut)
  /\ WF_vars(pc = "tick" /\ ran = SlowTick /\ HandlerReturns)
  /\ WF_vars(pc = "event" /\ ran = SlowEvent /\ HandlerReturns)
  /\ WF_vars(Elapse)

-----------------------------------------------------------------------------
(***************************************************************************)
(* Properties                                                              *)
(***************************************************************************)
\* Once told to stop, the loop runs at most the handler it is in: it reaches
\* module.stop() within the longer of the two timeouts even if handlers hang.
StopLatency ==
  stop /\ pc \in {"select", "tick", "event"} => age <= Greatest(TickLimit, EventLimit)

\* An event in the channel reaches on_event(), unless the module is stopped or
\* ticks keep taking a period or longer (then the biased select can starve it).
Reaches(n) ==
  (\E i \in 1..Len(queue) : queue[i] = n) ~> (stop \/ \E i \in 1..Len(got) : got[i] = n)

DeliveredIsHandled ==
  []<>(pc = "tick" /\ ran >= Period) \/ \A n \in 1..MaxEvents : Reaches(n)
=============================================================================
