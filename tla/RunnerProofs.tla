----------------------------- MODULE RunnerProofs -----------------------------
(***************************************************************************)
(* Proofs about the module loop, the runner and the sync engine.  The      *)
(* modules are those that MCRunner composes.                               *)
(***************************************************************************)
EXTENDS ModuleLoop, TLAPS

CONSTANTS Module, Eventful, Adapter, PollInterval, Multiplier, Timeout, Inbox, MaxPower

VARIABLES
  runner, starting, handles, loop, handleHealth, subscribed, signalled, joined, hangs,
  task, spent, interval, unseen, battery, inbox, watcher, power, lossy, published, handle, extra, stuck

Runner == INSTANCE ModuleRunner WITH health <- handleHealth

Engine == INSTANCE SyncEngine WITH Capacity <- Inbox, pc <- task

Longest == Greatest(TickLimit, EventLimit)

\* What every reachable state of the loop satisfies and TypeOK does not say: how
\* long the present handler may have run, that a deadline is at most one handler
\* behind, and that no time passes between a stop signal and its answer but that
\* of the handler it found.
Timely ==
  /\ pc = "tick" => ran <= TickLimit
  /\ pc = "event" => ran <= EventLimit
  /\ pc = "select" => due >= -Longest
  /\ pc \in {"tick", "event"} => due + ran >= 0
  /\ ~stop => age = 0
  /\ pc \in {"tick", "event"} => age <= ran
  /\ age <= Longest
  /\ pc = "done" => phase = "closed"

LoopInv == TypeOK /\ Timely

-----------------------------------------------------------------------------
\* Both timeouts are positive and no longer than the longest.
LEMMA LongestBounds ==
  /\ TickLimit \in Nat \ {0} /\ EventLimit \in Nat \ {0} /\ Longest \in Nat \ {0}
  /\ TickLimit <= Longest /\ EventLimit <= Longest
  /\ Period <= Longest
BY LoopAssumption DEF TickLimit, Longest, Greatest

\* The deadline a late tick sets is the next multiple of the period: it lies
\* ahead, and at most a period ahead.
LEMMA NextDeadline ==
  ASSUME NEW d \in Int
  PROVE  Period - ((-d) % Period) \in 1..Period
<1>1. Period \in Nat \ {0} BY LoopAssumption
<1> DEFINE x == -d
<1>2. x \in Int OBVIOUS
<1>3. x % Period \in 0..(Period - 1) BY <1>1, <1>2
<1> QED BY <1>1, <1>3

\* What TypeOK says of the channel, and of the rest.
ChanTypes ==
  /\ phase \in {"open", "closed"}
  /\ {queue, got} \subseteq Seq(1..MaxEvents) /\ Len(queue) <= Capacity
  /\ seen \in 0..MaxEvents
  /\ dropped \in Nat

ClockTypes ==
  /\ pc \in {"select", "tick", "event", "stop", "done"}
  /\ ran \in 0..Longest
  /\ due \in (-Longest)..Period
  /\ health \in {"normal", "stale", "error", "unavailable"}
  /\ {rx, sender, stop} \subseteq BOOLEAN
  /\ age \in 0..Longest + 1

\* TypeOK is about the clock and control of the loop, and about its channel.
LEMMA TypeParts == TypeOK <=> ClockTypes /\ ChanTypes
BY DEF TypeOK, ClockTypes, ChanTypes, Longest

\* The initial states have the types and start in time.
LEMMA LoopInitially == Init => LoopInv
<1> SUFFICES ASSUME Init PROVE LoopInv OBVIOUS
<1> USE LongestBounds DEF Init
<1>1. TypeOK
  <2>1. queue \in Seq(1..MaxEvents) /\ got \in Seq(1..MaxEvents) /\ Len(queue) = 0 OBVIOUS
  <2>2. due \in (-Longest)..Period /\ ran \in 0..Longest /\ age \in 0..Longest + 1
    BY LoopAssumption
  <2>4. {rx, sender, stop} \subseteq BOOLEAN OBVIOUS
  <2>5. ClockTypes BY <2>2, <2>4 DEF ClockTypes
  <2>3. ChanTypes BY <2>1, LoopAssumption DEF ChanTypes
  <2> QED BY <2>3, <2>5, TypeParts
<1>2. Timely BY DEF Timely
<1> QED BY <1>1, <1>2 DEF LoopInv

\* Offering an event to the channel keeps its content and length.
LEMMA OfferTypes ==
  ASSUME TypeOK, seen' \in 0..MaxEvents, Chan!Offer
  PROVE  /\ {queue', got'} \subseteq Seq(1..MaxEvents) /\ Len(queue') <= Capacity
         /\ dropped' \in Nat /\ phase' \in {"open", "closed"}
<1> DEFINE q == queue
<1>1. q \in Seq(1..MaxEvents) /\ seen \in Nat BY DEF TypeOK
<1>2. seen' \in 1..MaxEvents BY <1>1, LoopAssumption DEF Chan!Offer
<1>3. CASE Len(q) < Capacity /\ queue' = Append(q, seen') /\ dropped' = dropped
  <2>1. queue' \in Seq(1..MaxEvents) /\ Len(queue') = Len(q) + 1 BY <1>1, <1>2, <1>3
  <2>2. Len(q) \in Nat BY <1>1
  <2> QED BY <1>3, <2>1, <2>2, LoopAssumption DEF TypeOK, Chan!Offer
<1>4. CASE queue' = q /\ dropped' = dropped + 1
  BY <1>4 DEF TypeOK, Chan!Offer
<1> QED BY <1>3, <1>4 DEF Chan!Offer

\* So does taking one.
LEMMA TakeTypes ==
  ASSUME TypeOK, Chan!Take
  PROVE  {queue', got'} \subseteq Seq(1..MaxEvents) /\ Len(queue') <= Capacity
<1>1. queue \in Seq(1..MaxEvents) /\ queue # <<>> /\ got \in Seq(1..MaxEvents)
  BY DEF TypeOK, Chan!Take
<1> DEFINE E == 1..MaxEvents
<1>0. queue \in Seq(E) /\ queue # <<>> BY <1>1
<1> HIDE DEF E
<1>2. Head(queue) \in E /\ Tail(queue) \in Seq(E)
  BY <1>0
<1> USE DEF E
<1>3. Len(Tail(queue)) = Len(queue) - 1 /\ Len(queue) \in Nat BY <1>1
<1>4. Append(got, Head(queue)) \in Seq(1..MaxEvents) BY <1>1, <1>2
<1>5. Len(queue) <= Capacity BY DEF TypeOK
<1> QED BY <1>2, <1>3, <1>4, <1>5, LoopAssumption DEF Chan!Take

\* Every step keeps the channel's types.
LEMMA ChannelStep ==
  ASSUME LoopInv, [Next]_vars
  PROVE  ChanTypes'
<1>1. TypeOK BY DEF LoopInv
<1>2. CASE chanVars' = chanVars
  BY <1>1, <1>2 DEF TypeOK, ChanTypes, chanVars
<1>3. CASE Publish
  <2>1. seen' \in 0..MaxEvents BY <1>1, <1>3, LoopAssumption DEF Publish, TypeOK
  <2> QED BY <1>1, <1>3, <2>1, OfferTypes DEF ChanTypes, Publish
<1>4. CASE SelectEvent
  <2>1. Chan!Take BY <1>4 DEF SelectEvent
  <2>2. {queue', got'} \subseteq Seq(1..MaxEvents) /\ Len(queue') <= Capacity
    BY <1>1, <2>1, TakeTypes
  <2> QED BY <1>1, <2>1, <2>2 DEF ChanTypes, TypeOK, Chan!Take
<1>5. CASE StopReturns
  <2>1. Chan!Close BY <1>5 DEF StopReturns
  <2> QED BY <1>1, <2>1, LoopAssumption DEF ChanTypes, TypeOK, Chan!Close
<1> QED
  BY <1>2, <1>3, <1>4, <1>5 DEF Next, Loop, DropBus, Signal, SelectStop, SelectTick,
     SelectNone, HandlerReturns, HandlerTimesOut, Elapse, vars

\* Every step keeps the clock's types and the bounds on it.
LEMMA ClockStep ==
  ASSUME LoopInv, [Next]_vars
  PROVE  ClockTypes' /\ Timely'
<1> USE LongestBounds, LoopAssumption
<1>1. ClockTypes /\ Timely BY TypeParts DEF LoopInv
<1>2. CASE Publish
  BY <1>1, <1>2 DEF Publish, Chan!Offer, ClockTypes, Timely
<1>3. CASE DropBus
  BY <1>1, <1>3 DEF DropBus, chanVars, ClockTypes, Timely
<1>4. CASE Signal
  BY <1>1, <1>4 DEF Signal, chanVars, ClockTypes, Timely
<1>5. CASE SelectStop
  BY <1>1, <1>5 DEF SelectStop, chanVars, ClockTypes, Timely
<1>6. CASE SelectTick
  <2>1. due \in Int BY <1>1 DEF ClockTypes
  <2>2. due' \in 1..Period BY <1>6, <2>1, NextDeadline DEF SelectTick
  <2>3. pc' = "tick" /\ ran' = 0 /\ UNCHANGED <<health, rx, sender, stop, age, phase>>
    BY <1>6 DEF SelectTick, chanVars
  <2>4. age = 0 BY <1>1, <1>6 DEF SelectTick, StopReady, Timely
  <2>5. ClockTypes' BY <1>1, <2>2, <2>3 DEF ClockTypes
  <2>6. due' \in Nat /\ ran' \in Nat /\ age' = 0 BY <2>2, <2>3, <2>4
  <2>7. \A d, r \in Nat : d + r >= 0 OBVIOUS
  <2>8. due' + ran' >= 0 BY <2>6, <2>7
  <2>9. age' <= ran' /\ ran' <= TickLimit /\ age' <= Longest BY <2>3, <2>6
  <2>10. ~stop' BY <1>6, <2>3 DEF SelectTick, StopReady
  <2>11. Timely' BY <2>3, <2>6, <2>8, <2>9, <2>10 DEF Timely
  <2> QED BY <2>5, <2>11
<1>7. CASE SelectEvent
  <2>1. pc' = "event" /\ ran' = 0 /\ UNCHANGED <<due, health, rx, sender, stop, age, phase>>
    BY <1>7 DEF SelectEvent, Chan!Take
  <2>2. age = 0 /\ due > 0 /\ due \in Int
    BY <1>1, <1>7 DEF SelectEvent, StopReady, TickReady, Timely, ClockTypes
  <2>3. ClockTypes' BY <1>1, <2>1 DEF ClockTypes
  <2>4. Timely' BY <1>1, <2>1, <2>2 DEF Timely
  <2> QED BY <2>3, <2>4
<1>8. CASE SelectNone
  BY <1>1, <1>8 DEF SelectNone, chanVars, ClockTypes, Timely
<1>9. CASE HandlerReturns
  BY <1>1, <1>9 DEF HandlerReturns, Outcome, chanVars, ClockTypes, Timely
<1>10. CASE HandlerTimesOut
  BY <1>1, <1>10 DEF HandlerTimesOut, chanVars, ClockTypes, Timely
<1>11. CASE StopReturns
  BY <1>1, <1>11 DEF StopReturns, Chan!Close, ClockTypes, Timely
<1>12. CASE Elapse
  <2>1. UNCHANGED <<pc, health, rx, sender, stop, phase>> /\ pc # "done"
    BY <1>12 DEF Elapse, chanVars
  <2>2. ran \in Nat /\ due \in Int /\ age \in Nat BY <1>1 DEF ClockTypes
  <2>3. CASE pc = "select"
    <3>1. ~stop /\ due > 0 /\ ran' = ran /\ due' = due - 1 /\ age' = age
      BY <1>12, <2>2, <2>3 DEF Elapse, MayWait, StopReady, TickReady
    <3> QED BY <1>1, <2>1, <2>2, <2>3, <3>1 DEF ClockTypes, Timely
  <2>4. CASE pc \in {"tick", "event"}
    <3>1. ran' = ran + 1 /\ due' = due - 1 /\ age' \in {age, age + 1} /\ (~stop => age' = age)
      BY <1>12, <2>4 DEF Elapse
    <3>2. /\ pc = "tick" => ran < TickLimit
          /\ pc = "event" => ran < EventLimit
      BY <1>12, <2>2 DEF Elapse, MayWait, Least
    <3>3. ClockTypes' BY <1>1, <2>1, <2>2, <2>4, <3>1, <3>2 DEF ClockTypes, Timely
    <3>4. Timely' BY <1>1, <2>1, <2>2, <2>4, <3>1, <3>2 DEF Timely
    <3> QED BY <3>3, <3>4
  <2>5. CASE pc = "stop"
    <3>1. ran' = ran /\ due' = due /\ age' = age BY <1>12, <2>5 DEF Elapse
    <3> QED BY <1>1, <2>1, <2>5, <3>1 DEF ClockTypes, Timely
  <2> QED BY <1>1, <2>1, <2>3, <2>4, <2>5 DEF ClockTypes
<1>13. CASE UNCHANGED vars
  BY <1>1, <1>13 DEF vars, chanVars, ClockTypes, Timely
<1> QED
  BY <1>2, <1>3, <1>4, <1>5, <1>6, <1>7, <1>8, <1>9, <1>10, <1>11, <1>12, <1>13 DEF Next, Loop

\* The inductive invariant of the loop.
LEMMA LoopAlways == Spec => []LoopInv
<1>1. Init => LoopInv BY LoopInitially
<1>2. LoopInv /\ [Next]_vars => LoopInv'
  <2> SUFFICES ASSUME LoopInv, [Next]_vars PROVE LoopInv' OBVIOUS
  <2>1. ChanTypes' BY ChannelStep
  <2>2. ClockTypes' /\ Timely' BY ClockStep
  <2>3. TypeOK' BY <2>1, <2>2 DEF TypeOK, ClockTypes, ChanTypes, Longest
  <2> QED BY <2>2, <2>3 DEF LoopInv
<1> QED BY <1>1, <1>2, PTL DEF Spec

\* The variables of module_loop() keep their types: its channel its bound, its
\* deadline its distance.
THEOREM LoopTypes == Spec => []TypeOK
BY LoopAlways, PTL DEF LoopInv

\* Once told to stop, module_loop() reaches module.stop() within the longer of
\* the two handler timeouts, whatever the periods and the handlers.
THEOREM StopAnswered == Spec => []StopLatency
<1>1. LoopInv => StopLatency
  BY LongestBounds DEF LoopInv, TypeOK, Timely, StopLatency, Longest
<1> QED BY <1>1, LoopAlways, PTL

-----------------------------------------------------------------------------
(***************************************************************************)
(* ModuleRunner: the two passes of shutdown()                              *)
(***************************************************************************)
\* A receiver belongs to a live task, a live task to a handle; shutdown() begins
\* with no registration under way; and the handles it has joined have no task.
Joins ==
  /\ handles \in Seq(Module)
  /\ loop \in [Module -> {"none", "select", "handler", "stop", "done", "panicked"}]
  /\ joined \in 0..Len(handles)
  /\ subscribed \subseteq {m \in Module : Runner!Alive(m)}
  /\ \A m \in Module : loop[m] # "none" => m \in Runner!Handled
  /\ runner \notin {"open", "signalling", "joining"} => joined = Len(handles)
  /\ runner # "open" => starting = {}
  /\ starting \subseteq Module /\ starting \cap Runner!Handled = {}
  /\ \A i \in 1..joined : ~Runner!Alive(handles[i])

\* A handle appended is handled, and so are those before it.
LEMMA HandledGrows ==
  ASSUME handles \in Seq(Module), NEW m \in Module, handles' = Append(handles, m)
  PROVE  /\ handles' \in Seq(Module) /\ Len(handles') = Len(handles) + 1
         /\ \A i \in 1..Len(handles) : handles'[i] = handles[i]
         /\ \A n : n \in Runner!Handled' <=> n \in Runner!Handled \/ n = m
<1>1. /\ handles' \in Seq(Module) /\ Len(handles') = Len(handles) + 1
      /\ \A i \in 1..Len(handles) : handles'[i] = handles[i]
      /\ handles'[Len(handles) + 1] = m
      /\ Len(handles) \in Nat
  OBVIOUS
<1>2. \A i \in 1..Len(handles') : i \in 1..Len(handles) \/ i = Len(handles) + 1 BY <1>1
<1>3. \A i \in 1..Len(handles) : i \in 1..Len(handles') BY <1>1
<1>4. Len(handles) + 1 \in 1..Len(handles') BY <1>1
<1> QED BY <1>1, <1>2, <1>3, <1>4 DEF Runner!Handled

\* Every step of the runner and of the modules' tasks keeps that.
LEMMA JoinsStep ==
  ASSUME Joins, [Runner!Next]_Runner!vars
  PROVE  Joins'
<1> USE DEF Joins
<1>1. ASSUME NEW m \in Module, Runner!Start(m) PROVE Joins'
  BY <1>1 DEF Runner!Start, Runner!Handled, Runner!Alive
<1>2. ASSUME NEW m \in Module, Runner!Park(m) PROVE Joins'
  <2>1. /\ m \in starting /\ runner = "open" /\ starting' = {}
        /\ handles' = Append(handles, m)
        /\ UNCHANGED <<runner, loop, subscribed, joined>>
    BY <1>2 DEF Runner!Park
  <2>2. /\ handles' \in Seq(Module) /\ Len(handles') = Len(handles) + 1
        /\ \A i \in 1..Len(handles) : handles'[i] = handles[i]
        /\ \A n : n \in Runner!Handled' <=> n \in Runner!Handled \/ n = m
    BY <2>1, HandledGrows
  <2>3. Len(handles) \in Nat OBVIOUS
  <2> QED BY <2>1, <2>2, <2>3 DEF Runner!Alive
<1>3. ASSUME NEW m \in Module, Runner!Spawn(m) PROVE Joins'
  <2>1. /\ m \in starting /\ runner = "open" /\ starting' = {}
        /\ handles' = Append(handles, m)
        /\ loop' = [loop EXCEPT ![m] = "select"]
        /\ subscribed' = subscribed \cup ({m} \cap Eventful)
        /\ UNCHANGED <<runner, joined>>
    BY <1>3 DEF Runner!Spawn
  <2>2. /\ handles' \in Seq(Module) /\ Len(handles') = Len(handles) + 1
        /\ \A i \in 1..Len(handles) : handles'[i] = handles[i]
        /\ \A n : n \in Runner!Handled' <=> n \in Runner!Handled \/ n = m
    BY <2>1, HandledGrows
  <2>3. Len(handles) \in Nat OBVIOUS
  <2>4. m \notin Runner!Handled BY <2>1
  <2>5. \A i \in 1..joined : handles[i] # m
    BY <2>3, <2>4 DEF Runner!Handled
  <2>6. /\ loop' \in [Module -> {"none", "select", "handler", "stop", "done", "panicked"}]
        /\ \A n \in Module : n # m => loop'[n] = loop[n]
        /\ loop'[m] = "select"
    BY <2>1
  <2>7. \A i \in 1..joined : handles'[i] = handles[i] /\ handles[i] \in Module
    BY <2>2, <2>3
  <2> QED BY <2>1, <2>2, <2>3, <2>5, <2>6, <2>7 DEF Runner!Alive
<1>4. ASSUME NEW m \in Module, Runner!LoopStep(m) PROVE Joins'
  <2>1. PICK c \in {"handler", "select", "panicked", "stop", "done"} :
          /\ loop' = [loop EXCEPT ![m] = c]
          /\ loop[m] \in {"select", "handler", "stop"}
          /\ subscribed' = IF c \in {"panicked", "done"} THEN subscribed \ {m} ELSE subscribed
          /\ UNCHANGED <<runner, starting, handles, joined>>
    BY <1>4 DEF Runner!LoopStep, Runner!Enter, Runner!Leave, Runner!Panic, Runner!Stop, Runner!Finish
  <2>2. /\ loop' \in [Module -> {"none", "select", "handler", "stop", "done", "panicked"}]
        /\ \A n \in Module : n # m => loop'[n] = loop[n]
        /\ loop'[m] = c
    BY <2>1
  <2>3. \A n \in Module : Runner!Alive(n)' => Runner!Alive(n)
    BY <2>1, <2>2 DEF Runner!Alive
  <2>4. \A n \in subscribed' : n \in Module /\ Runner!Alive(n)'
    BY <2>1, <2>2 DEF Runner!Alive
  <2>5. \A i \in 1..joined : handles[i] \in Module OBVIOUS
  <2>6. Runner!Handled' = Runner!Handled BY <2>1 DEF Runner!Handled
  <2>7. \A n \in Module : loop'[n] # "none" => loop[n] # "none" BY <2>1, <2>2
  <2>8. \A i \in 1..joined' : ~Runner!Alive(handles[i])' BY <2>1, <2>3, <2>5
  <2> QED BY <2>1, <2>2, <2>4, <2>6, <2>7, <2>8 DEF Runner!Alive
<1>5. CASE Runner!Shutdown
  BY <1>5 DEF Runner!Shutdown, Runner!Handled, Runner!Alive
<1>6. ASSUME NEW m \in Module, Runner!SignalNext(m) PROVE Joins'
  BY <1>6 DEF Runner!SignalNext, Runner!Handled, Runner!Alive
<1>7. CASE Runner!SignalsSent
  BY <1>7 DEF Runner!SignalsSent, Runner!Handled, Runner!Alive
<1>8. CASE Runner!JoinNext
  <2>1. /\ joined' = joined + 1 /\ joined < Len(handles) /\ runner = "joining"
        /\ ~Runner!Alive(handles[joined + 1])
        /\ UNCHANGED <<runner, starting, handles, loop, subscribed>>
    BY <1>8 DEF Runner!JoinNext
  <2>2. Len(handles) \in Nat OBVIOUS
  <2>3. \A i \in 1..(joined + 1) : i \in 1..joined \/ i = joined + 1 BY <2>2
  <2>4. joined + 1 \in 0..Len(handles) BY <2>1, <2>2
  <2> QED BY <2>1, <2>3, <2>4 DEF Runner!Handled, Runner!Alive
<1>9. CASE Runner!ShutdownReturns
  BY <1>9 DEF Runner!ShutdownReturns, Runner!Handled, Runner!Alive
<1>10. CASE UNCHANGED Runner!vars
  BY <1>10 DEF Runner!vars, Runner!Handled, Runner!Alive
<1> QED
  BY <1>1, <1>2, <1>3, <1>4, <1>5, <1>6, <1>7, <1>8, <1>9, <1>10 DEF Runner!Next, Runner!RunnerStep

\* When ModuleRunner::shutdown has returned, no task of a module is left and no
\* receiver is on the bus, however many modules there are and whichever of them
\* were parked or panicked.
THEOREM ShutdownLeavesNoTask == Runner!Spec => []Runner!NoTaskLeft
<1>1. Runner!Init => Joins
  BY DEF Runner!Init, Joins, Runner!Handled, Runner!Alive
<1>2. Joins /\ [Runner!Next]_Runner!vars => Joins'
  BY JoinsStep
<1>3. Joins => Runner!NoTaskLeft
  <2> SUFFICES ASSUME Joins, runner = "down"
               PROVE  subscribed = {} /\ \A m \in Module : ~Runner!Alive(m)
    BY DEF Runner!NoTaskLeft
  <2>1. \A i \in 1..Len(handles) : ~Runner!Alive(handles[i]) BY DEF Joins
  <2>2. \A m \in Module : m \in Runner!Handled => ~Runner!Alive(m)
    BY <2>1 DEF Runner!Handled
  <2>3. \A m \in Module : Runner!Alive(m) => m \in Runner!Handled
    BY DEF Joins, Runner!Alive
  <2> QED BY <2>2, <2>3 DEF Joins
<1> QED BY <1>1, <1>2, <1>3, PTL DEF Runner!Spec

-----------------------------------------------------------------------------
(***************************************************************************)
(* SyncEngine: what the stop signal and the battery flag do to the loops   *)
(***************************************************************************)
\* The intervals are positive (tokio's sleep of zero would make a busy loop), so
\* no timer fires in the instant in which its sleep begins.
IntervalAssumption == PollInterval \in Nat \ {0} /\ Multiplier \in Nat

\* The types of what the loops keep.
LoopsTyped ==
  /\ task \in [Adapter -> {"probe", "sync", "sleep", "done"}]
  /\ spent \in [Adapter -> Nat]
  /\ interval \in [Adapter -> Nat \ {0}]
  /\ extra \in [Adapter -> Nat]

\* Before the signal no sync counts.  After it an adapter that has begun its one
\* sync never gets back to a probe: its sleep cannot run out, as no time passes
\* in a sleep that the signal ends.
Overtime ==
  /\ handle = "held" => \A a \in Adapter : extra[a] = 0
  /\ handle # "held" => \A a \in Adapter :
       \/ extra[a] = 0
       \/ extra[a] = 1 /\ task[a] \in {"sync", "done"}
       \/ extra[a] = 1 /\ task[a] = "sleep" /\ spent[a] = 0

EngineInv == LoopsTyped /\ Engine!SleepsMatch /\ Engine!NothingRuns /\ Overtime

\* Both intervals are positive.
LEMMA IntervalPositive ==
  ASSUME IntervalAssumption, NEW b
  PROVE  Engine!EffectiveInterval(b) \in Nat \ {0}
<1>1. PollInterval \in Nat \ {0} /\ Multiplier \in Nat BY DEF IntervalAssumption
<1>2. CASE Multiplier > 1
  <2>1. PollInterval * Multiplier \in Nat \ {0} BY <1>1, <1>2
  <2> QED BY <1>1, <2>1 DEF Engine!EffectiveInterval
<1> QED BY <1>1, <1>2 DEF Engine!EffectiveInterval

\* An adapter that goes to sleep does so with the interval of the present mode,
\* and with all of it before it.
LEMMA EnterSleepKeeps ==
  ASSUME IntervalAssumption, EngineInv, NEW a \in Adapter, Engine!EnterSleep(a),
         task[a] \in {"probe", "sync", "sleep"}, task[a] = "probe" => extra[a] = 0,
         unseen' \in {unseen, unseen \ {a}},
         UNCHANGED <<extra, battery, watcher, handle>>
  PROVE  EngineInv'
<1> DEFINE e == Engine!EffectiveInterval(battery)
<1>1. e \in Nat \ {0} BY IntervalPositive
<1> HIDE DEF e
<1>2. /\ task' = [task EXCEPT ![a] = "sleep"] /\ spent' = [spent EXCEPT ![a] = 0]
      /\ interval' = [interval EXCEPT ![a] = e]
  BY DEF Engine!EnterSleep, e
<1>3. LoopsTyped BY DEF EngineInv
<1>4. LoopsTyped' BY <1>1, <1>2, <1>3 DEF LoopsTyped
<1>5. /\ task'[a] = "sleep" /\ spent'[a] = 0 /\ interval'[a] = e
      /\ \A b \in Adapter : b # a =>
           task'[b] = task[b] /\ spent'[b] = spent[b] /\ interval'[b] = interval[b]
  BY <1>2, <1>3 DEF LoopsTyped
<1>6. Engine!EffectiveInterval(battery)' = e BY DEF Engine!EffectiveInterval, e
<1>7. Engine!SleepsMatch'
  BY <1>5, <1>6 DEF EngineInv, Engine!SleepsMatch, e
<1>8. Engine!NothingRuns' BY <1>5 DEF EngineInv, Engine!NothingRuns
<1>9. Overtime' BY <1>5 DEF EngineInv, Overtime
<1> QED BY <1>4, <1>7, <1>8, <1>9 DEF EngineInv

\* Every step of an adapter's loop keeps the invariant.
LEMMA AdapterStep ==
  ASSUME IntervalAssumption, EngineInv, NEW a \in Adapter, Engine!LoopStep(a)
  PROVE  EngineInv'
<1> USE DEF Engine!powerVars
<1>0. LoopsTyped /\ Engine!SleepsMatch /\ Engine!NothingRuns /\ Overtime BY DEF EngineInv
<1>1. CASE Engine!BeginSync(a)
  <2>1. /\ task[a] = "probe" /\ task' = [task EXCEPT ![a] = "sync"]
        /\ spent' = [spent EXCEPT ![a] = 0]
        /\ extra' = IF handle = "held" THEN extra ELSE [extra EXCEPT ![a] = @ + 1]
        /\ UNCHANGED <<interval, unseen, battery, watcher, handle>>
    BY <1>1 DEF Engine!BeginSync
  <2>2. LoopsTyped' BY <1>0, <2>1 DEF LoopsTyped
  <2>3. /\ task'[a] = "sync"
        /\ \A b \in Adapter : b # a => task'[b] = task[b] /\ spent'[b] = spent[b] /\ extra'[b] = extra[b]
    BY <1>0, <2>1 DEF LoopsTyped
  <2>4. Engine!SleepsMatch'
    BY <1>0, <2>1, <2>3 DEF Engine!SleepsMatch, Engine!EffectiveInterval
  <2>5. Engine!NothingRuns' BY <1>0, <2>1, <2>3 DEF Engine!NothingRuns
  <2>6. Overtime'
    <3>1. extra[a] = 0 BY <1>0, <2>1 DEF Overtime
    <3>2. handle # "held" => extra'[a] = 1 BY <1>0, <2>1, <3>1 DEF LoopsTyped
    <3> QED BY <1>0, <2>1, <2>3, <3>2 DEF Overtime
  <2> QED BY <2>2, <2>4, <2>5, <2>6 DEF EngineInv
<1>2. CASE Engine!Unavailable(a)
  <2>1. /\ task[a] = "probe" /\ Engine!EnterSleep(a)
        /\ UNCHANGED <<extra, unseen, battery, watcher, handle>>
    BY <1>2 DEF Engine!Unavailable
  <2>2. extra[a] = 0 BY <1>0, <2>1 DEF Overtime
  <2> QED BY <2>1, <2>2, EnterSleepKeeps
<1>3. CASE Engine!EndSync(a)
  <2>1. /\ task[a] = "sync" /\ Engine!EnterSleep(a)
        /\ UNCHANGED <<extra, unseen, battery, watcher, handle>>
    BY <1>3 DEF Engine!EndSync
  <2> QED BY <2>1, EnterSleepKeeps
<1>4. CASE Engine!SleepDone(a)
  <2>1. /\ task[a] = "sleep" /\ spent[a] = interval[a]
        /\ task' = [task EXCEPT ![a] = "probe"] /\ spent' = [spent EXCEPT ![a] = 0]
        /\ UNCHANGED <<interval, extra, unseen, battery, watcher, handle>>
    BY <1>4 DEF Engine!SleepDone
  <2>2. LoopsTyped' BY <1>0, <2>1 DEF LoopsTyped
  <2>3. /\ task'[a] = "probe"
        /\ \A b \in Adapter : b # a => task'[b] = task[b] /\ spent'[b] = spent[b]
    BY <1>0, <2>1 DEF LoopsTyped
  <2>4. Engine!SleepsMatch'
    BY <1>0, <2>1, <2>3 DEF Engine!SleepsMatch, Engine!EffectiveInterval
  <2>5. Engine!NothingRuns' BY <1>0, <2>1, <2>3 DEF Engine!NothingRuns
  <2>6. spent[a] # 0 BY <1>0, <2>1 DEF LoopsTyped
  <2>7. extra[a] = 0 BY <1>0, <2>1, <2>6 DEF Overtime
  <2>8. Overtime' BY <1>0, <2>1, <2>3, <2>7 DEF Overtime
  <2> QED BY <2>2, <2>4, <2>5, <2>8 DEF EngineInv
<1>5. CASE Engine!SleepChanged(a)
  <2>1. /\ task[a] = "sleep" /\ Engine!EnterSleep(a) /\ unseen' = unseen \ {a}
        /\ UNCHANGED <<extra, battery, watcher, handle>>
    BY <1>5 DEF Engine!SleepChanged
  <2> QED BY <2>1, EnterSleepKeeps
<1>6. CASE Engine!SleepStopped(a)
  <2>1. /\ task[a] = "sleep" /\ task' = [task EXCEPT ![a] = "done"]
        /\ UNCHANGED <<spent, interval, extra, unseen, battery, watcher, handle>>
    BY <1>6 DEF Engine!SleepStopped
  <2>2. LoopsTyped' BY <1>0, <2>1 DEF LoopsTyped
  <2>3. task'[a] = "done" /\ \A b \in Adapter : b # a => task'[b] = task[b]
    BY <1>0, <2>1 DEF LoopsTyped
  <2>4. Engine!SleepsMatch'
    BY <1>0, <2>1, <2>3 DEF Engine!SleepsMatch, Engine!EffectiveInterval
  <2>5. Engine!NothingRuns' BY <1>0, <2>1, <2>3 DEF Engine!NothingRuns
  <2>6. Overtime' BY <1>0, <2>1, <2>3 DEF Overtime
  <2> QED BY <2>2, <2>4, <2>5, <2>6 DEF EngineInv
<1> QED BY <1>1, <1>2, <1>3, <1>4, <1>5, <1>6 DEF Engine!LoopStep

\* Every step of the watcher, of time and of the handle's holder keeps it too.
LEMMA EngineStep ==
  ASSUME IntervalAssumption, EngineInv, [Engine!Next]_Engine!vars
  PROVE  EngineInv'
<1> USE DEF Engine!powerVars, Engine!loopVars
<1>0. LoopsTyped /\ Engine!SleepsMatch /\ Engine!NothingRuns /\ Overtime BY DEF EngineInv
<1>1. CASE Engine!PublishPower
  BY <1>0, <1>1 DEF Engine!PublishPower, EngineInv, LoopsTyped, Engine!SleepsMatch,
     Engine!NothingRuns, Overtime, Engine!EffectiveInterval
<1>2. CASE Engine!WatchPower
  <2>1. /\ watcher /\ unseen' = IF battery' # battery THEN Adapter ELSE unseen
        /\ UNCHANGED <<task, spent, interval, extra, watcher, handle>>
    BY <1>2 DEF Engine!WatchPower
  <2>2. LoopsTyped' /\ Engine!NothingRuns' /\ Overtime'
    BY <1>0, <2>1 DEF LoopsTyped, Engine!NothingRuns, Overtime
  <2>3. Engine!SleepsMatch'
    BY <1>0, <2>1 DEF Engine!SleepsMatch, Engine!EffectiveInterval
  <2> QED BY <2>2, <2>3 DEF EngineInv
<1>3. ASSUME NEW a \in Adapter, Engine!LoopStep(a) PROVE EngineInv'
  BY <1>3, AdapterStep
<1>4. CASE Engine!Elapse
  <2>1. /\ \A a \in Adapter : task[a] = "sleep" => handle = "held"
        /\ spent' = [a \in Adapter |-> IF task[a] \in {"sync", "sleep"} THEN spent[a] + 1 ELSE spent[a]]
        /\ UNCHANGED <<task, interval, extra, unseen, battery, watcher, handle>>
    BY <1>4 DEF Engine!Elapse, Engine!MayWait
  <2>2. spent' \in [Adapter -> Nat] BY <1>0, <2>1 DEF LoopsTyped
  <2>3. LoopsTyped' BY <1>0, <2>1, <2>2 DEF LoopsTyped
  <2>4. Engine!SleepsMatch' /\ Engine!NothingRuns'
    BY <1>0, <2>1 DEF Engine!SleepsMatch, Engine!NothingRuns, Engine!EffectiveInterval
  <2>5. Overtime' BY <1>0, <2>1 DEF Overtime
  <2> QED BY <2>3, <2>4, <2>5 DEF EngineInv
<1>5. CASE Engine!Shutdown \/ Engine!DropHandle
  BY <1>0, <1>5 DEF Engine!Shutdown, Engine!DropHandle, EngineInv, LoopsTyped, Engine!SleepsMatch,
     Engine!NothingRuns, Overtime, Engine!EffectiveInterval
<1>6. CASE Engine!ShutdownReturns
  BY <1>0, <1>6 DEF Engine!ShutdownReturns, EngineInv, LoopsTyped, Engine!SleepsMatch,
     Engine!NothingRuns, Overtime, Engine!EffectiveInterval
<1>7. CASE UNCHANGED Engine!vars
  BY <1>0, <1>7 DEF Engine!vars, EngineInv, LoopsTyped, Engine!SleepsMatch,
     Engine!NothingRuns, Overtime, Engine!EffectiveInterval
<1> QED BY <1>1, <1>2, <1>3, <1>4, <1>5, <1>6, <1>7 DEF Engine!Next

\* The inductive invariant of the sync engine.
LEMMA EngineAlways == IntervalAssumption /\ Engine!Spec => []EngineInv
<1>1. IntervalAssumption /\ Engine!Init => EngineInv
  <2> SUFFICES ASSUME IntervalAssumption, Engine!Init PROVE EngineInv OBVIOUS
  <2>1. LoopsTyped
    BY DEF IntervalAssumption, Engine!Init, LoopsTyped
  <2> QED BY <2>1 DEF Engine!Init, EngineInv, Engine!SleepsMatch, Engine!NothingRuns, Overtime
<1>2. IntervalAssumption /\ EngineInv /\ [Engine!Next]_Engine!vars => EngineInv'
  BY EngineStep
<1>3. IntervalAssumption => IntervalAssumption' BY DEF IntervalAssumption
<1> QED BY <1>1, <1>2, <1>3, PTL DEF Engine!Spec

\* A sleep of the sync engine that has no flip of the battery flag to see runs with
\* the interval of the present mode, for every number of adapters and every
\* interval and multiplier.
THEOREM SleepsMatchMode == IntervalAssumption /\ Engine!Spec => []Engine!SleepsMatch
<1>1. EngineInv => Engine!SleepsMatch BY DEF EngineInv
<1> QED BY <1>1, EngineAlways, PTL

\* Nothing of the sync engine runs once SyncEngineHandle::shutdown has returned.
THEOREM EngineDown == IntervalAssumption /\ Engine!Spec => []Engine!NothingRuns
<1>1. EngineInv => Engine!NothingRuns BY DEF EngineInv
<1> QED BY <1>1, EngineAlways, PTL

\* After the stop signal, or the loss of the handle, no adapter begins more than one
\* sync, although a timer may win its race with the signal.
THEOREM AtMostOneMoreSync == IntervalAssumption /\ Engine!Spec => []Engine!OneMoreSync
<1>1. EngineInv => Engine!OneMoreSync
  BY DEF EngineInv, LoopsTyped, Overtime, Engine!OneMoreSync
<1> QED BY <1>1, EngineAlways, PTL
=============================================================================
