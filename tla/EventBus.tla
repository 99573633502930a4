------------------------------- MODULE EventBus -------------------------------
(***************************************************************************)
(* The in-process publish/subscribe bus of levshell-core (bus.rs).         *)
(*                                                                         *)
(* EventBus is a mutex around a vector of subscribers; each subscriber     *)
(* has a set of event kinds, the sender of a bounded channel and a counter *)
(* of dropped events.  publish() holds the mutex while retain_mut visits   *)
(* the vector, one try_send per subscriber; receivers take events or are   *)
(* dropped at any moment, also in the middle of such a pass.  The model    *)
(* has one step per visit, so those interleavings are all there.           *)
(***************************************************************************)
EXTENDS Naturals, Sequences, FiniteSets

CONSTANTS
  Sub,         \* subscriptions (one subscribe() call each)
  Pub,         \* threads that publish
  Kind,        \* EventKind
  KindsOf,     \* the kinds each subscription asked for
  Requested,   \* the channel capacity each subscription asked for
  MaxPublish   \* bound on the number of publish() calls

ASSUME BusAssumption ==
  /\ KindsOf \in [Sub -> SUBSET Kind]
  /\ Requested \in [Sub -> Nat]
  /\ MaxPublish \in Nat

VARIABLES
  registered,  \* Inner.subscribers
  status,      \* per subscription: "new", "open", or "closed" (receiver dropped)
  queue,       \* content of its channel: numbers of events, oldest first
  dropped,     \* its Subscriber.dropped counter
  pass,        \* is the thread inside publish(), holding the mutex?
  cur,         \* number of the event the thread publishes (or last published)
  todo,        \* subscribers that its retain_mut has still to visit
  log,         \* history: kinds of all published events, in mutex order
  got,         \* history: numbers of the events each receiver took
  seen,        \* history: number of the last event offered to an open channel
  since        \* history: Len(log) when the status last changed

busVars == <<registered, status, queue, dropped>>
pubVars == <<pass, cur, todo>>
history == <<log, got, seen, since>>
vars == <<registered, status, queue, dropped, pass, cur, todo, log, got, seen, since>>

\* mpsc::channel(capacity.max(1))
Slots(s) == IF Requested[s] = 0 THEN 1 ELSE Requested[s]

MutexFree == \A p \in Pub : ~pass[p]

Matches(s, e) == log[e] \in KindsOf[s]

\* The types of the variables; no channel ever holds more than its slots.
TypeOK ==
  /\ registered \in SUBSET Sub
  /\ status \in [Sub -> {"new", "open", "closed"}]
  /\ queue \in [Sub -> Seq(Nat)]
  /\ \A s \in Sub : Len(queue[s]) <= Slots(s)
  /\ dropped \in [Sub -> Nat]
  /\ pass \in [Pub -> BOOLEAN]
  /\ cur \in [Pub -> Nat]
  /\ todo \in [Pub -> SUBSET Sub]
  /\ log \in Seq(Kind)
  /\ got \in [Sub -> Seq(Nat)]
  /\ seen \in [Sub -> Nat]
  /\ since \in [Sub -> Nat]

Init ==
  /\ registered = {}
  /\ status = [s \in Sub |-> "new"]
  /\ queue = [s \in Sub |-> <<>>]
  /\ dropped = [s \in Sub |-> 0]
  /\ pass = [p \in Pub |-> FALSE]
  /\ cur = [p \in Pub |-> 0]
  /\ todo = [p \in Pub |-> {}]
  /\ log = <<>>
  /\ got = [s \in Sub |-> <<>>]
  /\ seen = [s \in Sub |-> 0]
  /\ since = [s \in Sub |-> 0]

-----------------------------------------------------------------------------
\* subscribe(): push a new Subscriber under the mutex.
Subscribe(s) ==
  /\ MutexFree
  /\ status[s] = "new"
  /\ status' = [status EXCEPT ![s] = "open"]
  /\ registered' = registered \cup {s}
  /\ since' = [since EXCEPT ![s] = Len(log)]
  /\ UNCHANGED <<queue, dropped, pubVars, log, got, seen>>

\* Mutant: publish() does not take the mutex.
PublishUnlocked(p, k) ==
  /\ ~pass[p]
  /\ Len(log) < MaxPublish
  /\ log' = Append(log, k)
  /\ pass' = [pass EXCEPT ![p] = TRUE]
  /\ cur' = [cur EXCEPT ![p] = Len(log) + 1]
  /\ todo' = [todo EXCEPT ![p] = registered]
  /\ UNCHANGED <<busVars, got, seen, since>>

\* publish(): take the mutex and start the pass over the subscribers.
Publish(p, k) ==
  /\ MutexFree
  /\ Len(log) < MaxPublish
  /\ log' = Append(log, k)
  /\ pass' = [pass EXCEPT ![p] = TRUE]
  /\ cur' = [cur EXCEPT ![p] = Len(log) + 1]
  /\ todo' = [todo EXCEPT ![p] = registered]
  /\ UNCHANGED <<busVars, got, seen, since>>

\* retain_mut reaches subscriber s (the order of the visits is left open).
Visit(p, s) ==
  /\ pass[p]
  /\ s \in todo[p]
  /\ todo' = [todo EXCEPT ![p] = @ \ {s}]
  /\ UNCHANGED <<status, pass, cur, log, got, since>>

\* The subscriber did not ask for this kind: keep it, look no further.
Skip(p, s) ==
  /\ Visit(p, s)
  /\ ~Matches(s, cur[p])
  /\ UNCHANGED <<registered, queue, dropped, seen>>

\* try_send succeeds.
Deliver(p, s) ==
  /\ Visit(p, s)
  /\ Matches(s, cur[p])
  /\ status[s] = "open"
  /\ Len(queue[s]) < Slots(s)
  /\ queue' = [queue EXCEPT ![s] = Append(@, cur[p])]
  /\ seen' = [seen EXCEPT ![s] = cur[p]]
  /\ UNCHANGED <<registered, dropped>>

\* Mutant: the loss is not counted.
DropUncounted(p, s) ==
  /\ Visit(p, s)
  /\ Matches(s, cur[p])
  /\ status[s] = "open"
  /\ Len(queue[s]) >= Slots(s)
  /\ seen' = [seen EXCEPT ![s] = cur[p]]
  /\ UNCHANGED <<registered, queue, dropped>>

\* Mutant: a full channel makes room by losing its oldest event.
DropOldest(p, s) ==
  /\ Visit(p, s)
  /\ Matches(s, cur[p])
  /\ status[s] = "open"
  /\ Len(queue[s]) >= Slots(s)
  /\ queue' = [queue EXCEPT ![s] = Append(Tail(@), cur[p])]
  /\ dropped' = [dropped EXCEPT ![s] = @ + 1]
  /\ seen' = [seen EXCEPT ![s] = cur[p]]
  /\ UNCHANGED registered

\* try_send returns Full: the event is lost for this subscriber and counted
\* (saturating at 2^64 - 1, out of reach here).
Drop(p, s) ==
  /\ Visit(p, s)
  /\ Matches(s, cur[p])
  /\ status[s] = "open"
  /\ Len(queue[s]) >= Slots(s)
  /\ dropped' = [dropped EXCEPT ![s] = @ + 1]
  /\ seen' = [seen EXCEPT ![s] = cur[p]]
  /\ UNCHANGED <<registered, queue>>

\* try_send returns Closed: retain_mut removes the subscriber.
Reap(p, s) ==
  /\ Visit(p, s)
  /\ Matches(s, cur[p])
  /\ status[s] = "closed"
  /\ registered' = registered \ {s}
  /\ UNCHANGED <<queue, dropped, seen>>

\* The pass is over and publish() returns, releasing the mutex.
Return(p) ==
  /\ pass[p]
  /\ todo[p] = {}
  /\ pass' = [pass EXCEPT ![p] = FALSE]
  /\ UNCHANGED <<busVars, cur, todo, history>>

\* The subscriber's loop takes the oldest event; no mutex is involved.
Receive(s) ==
  /\ status[s] = "open"
  /\ queue[s] # <<>>
  /\ got' = [got EXCEPT ![s] = Append(@, Head(queue[s]))]
  /\ queue' = [queue EXCEPT ![s] = Tail(@)]
  /\ UNCHANGED <<registered, status, dropped, pubVars, log, seen, since>>

\* The receiver is dropped, with what its channel holds.
Close(s) ==
  /\ status[s] = "open"
  /\ status' = [status EXCEPT ![s] = "closed"]
  /\ queue' = [queue EXCEPT ![s] = <<>>]
  /\ since' = [since EXCEPT ![s] = Len(log)]
  /\ UNCHANGED <<registered, dropped, pubVars, log, got, seen>>

PassStep(p) ==
  \/ \E s \in Sub : Skip(p, s) \/ Deliver(p, s) \/ Drop(p, s) \/ Reap(p, s)
  \/ Return(p)

Next ==
  \/ \E s \in Sub : Subscribe(s) \/ Receive(s) \/ Close(s)
  \/ \E p \in Pub : PassStep(p) \/ \E k \in Kind : Publish(p, k)

Spec == Init /\ [][Next]_vars

-----------------------------------------------------------------------------
(***************************************************************************)
(* Properties                                                              *)
(***************************************************************************)
Increasing(q) == \A i, j \in 1..Len(q) : i < j => q[i] < q[j]

\* Last event whose pass has dealt with s: the newest one, unless the pass
\* that publishes it has still to visit s.
Visited(s) ==
  IF \E p \in Pub : pass[p] /\ s \in todo[p] THEN Len(log) - 1 ELSE Len(log)

Ordered(s) ==
  /\ Increasing(got[s])
  /\ Increasing(queue[s])
  /\ \A i \in 1..Len(got[s]), j \in 1..Len(queue[s]) : got[s][i] < queue[s][j]
  /\ \A i \in 1..Len(got[s]) : got[s][i] \in 1..Len(log) /\ Matches(s, got[s][i])
  /\ \A j \in 1..Len(queue[s]) :
       /\ queue[s][j] \in since[s] + 1 .. Visited(s)
       /\ Matches(s, queue[s][j])

\* What a subscriber received and what waits for it come in the order in which
\* publish() took the mutex, without repetition, after its subscription, and
\* only of kinds it asked for: whatever the interleaving of several publishers
\* and receivers, two subscribers never see two events in opposite orders.
OrderedDelivery == \A s \in Sub : Ordered(s)

Owed(s) == {e \in since[s] + 1 .. Visited(s) : Matches(s, e)}

\* Every matching event published since an open subscription was made has been
\* received, waits in the channel, or is counted in Subscriber.dropped: no
\* event gets lost without a trace, and none is both delivered and counted.
NoSilentLoss ==
  \A s \in Sub : status[s] = "open" =>
    Len(got[s]) + Len(queue[s]) + dropped[s] = Cardinality(Owed(s))

\* A subscriber whose receiver is gone does not survive the next publication
\* of a kind it subscribed to, so senders do not pile up in the vector.
ReapedOnMatch ==
  \A s \in registered : status[s] = "closed" =>
    \A e \in since[s] + 1 .. Visited(s) : ~Matches(s, e)

\* Each subscription is a bounded lossy FIFO channel.
Channel(s) == INSTANCE LossyFifo
  WITH Capacity <- Slots(s), phase <- status[s], queue <- queue[s],
       got <- got[s], dropped <- dropped[s], seen <- seen[s]

\* The bus refines one lossy FIFO per subscription: a channel loses an event
\* only when it is full itself, never because of another subscriber.  (This is
\* \A s \in Sub : Channel(s)!Spec, with the quantifier moved inside the box.)
ChannelsAreLossyFifos ==
  /\ \A s \in Sub : Channel(s)!Init
  /\ [][\A s \in Sub : [Channel(s)!Next]_(Channel(s)!vars)]_vars
=============================================================================
