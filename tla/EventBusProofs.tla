---------------------------- MODULE EventBusProofs ----------------------------
(***************************************************************************)
(* Theorems about EventBus for every set of subscriptions, publishers and  *)
(* kinds, and every capacity.                                              *)
(***************************************************************************)
EXTENDS EventBus, FiniteSetTheorems, TLAPS

\* One thread at most is inside publish(); it publishes the newest event, to
\* subscribers that are registered.
MutexInv ==
  /\ \A p, q \in Pub : pass[p] /\ pass[q] => p = q
  /\ \A p \in Pub : pass[p] => cur[p] = Len(log) /\ Len(log) > 0
  /\ \A p \in Pub : pass[p] => todo[p] \subseteq registered

\* Subscriptions: which are registered, and when they changed.
SubInv ==
  /\ \A s \in registered : status[s] # "new"
  /\ \A s \in Sub : status[s] = "open" => s \in registered
  /\ \A s \in Sub : since[s] <= Len(log)
  /\ \A s \in Sub : status[s] = "open" => since[s] <= Visited(s)
  /\ \A s \in Sub : status[s] # "open" => queue[s] = <<>>
  /\ \A s \in Sub : status[s] = "new" => got[s] = <<>> /\ dropped[s] = 0 /\ seen[s] = 0

\* Everything offered to s so far is numbered up to seen[s].
SeenInv ==
  \A s \in Sub :
    /\ status[s] = "open" => seen[s] <= Visited(s)
    /\ \A i \in 1..Len(got[s]) : got[s][i] <= seen[s]
    /\ \A j \in 1..Len(queue[s]) : queue[s][j] <= seen[s]

\* The inductive invariant: the bookkeeping above and the three properties.
IInv ==
  /\ TypeOK
  /\ MutexInv
  /\ SubInv
  /\ SeenInv
  /\ OrderedDelivery
  /\ NoSilentLoss
  /\ ReapedOnMatch

-----------------------------------------------------------------------------
\* A bounded channel has at least one slot.
LEMMA SlotsType == ASSUME NEW s \in Sub PROVE Slots(s) \in Nat \ {0}
BY BusAssumption DEF Slots

\* The elements of a sequence after Append and Tail.
LEMMA AppendElems ==
  ASSUME NEW q \in Seq(Nat), NEW x \in Nat
  PROVE  /\ Append(q, x) \in Seq(Nat)
         /\ Len(Append(q, x)) = Len(q) + 1
         /\ \A i \in 1..Len(q) : Append(q, x)[i] = q[i]
         /\ Append(q, x)[Len(q) + 1] = x
OBVIOUS

\* The elements after Tail are among those before.
LEMMA TailElems ==
  ASSUME NEW q \in Seq(Nat), q # <<>>
  PROVE  /\ Head(q) = q[1] /\ Head(q) \in Nat /\ Len(q) \in Nat \ {0}
         /\ Tail(q) \in Seq(Nat)
         /\ Len(Tail(q)) = Len(q) - 1
         /\ \A j \in 1..Len(q) - 1 : Tail(q)[j] = q[j + 1]
OBVIOUS

\* The type invariant is inductive.
LEMMA TypeStep == ASSUME TypeOK, [Next]_vars PROVE TypeOK'
<1> USE BusAssumption, SlotsType
<1>1. ASSUME NEW s \in Sub, Subscribe(s) PROVE TypeOK'
  BY <1>1 DEF TypeOK, Subscribe, pubVars
<1>2. ASSUME NEW s \in Sub, Receive(s) PROVE TypeOK'
  BY SMTT(30), <1>2 DEF TypeOK, Receive, pubVars
<1>3. ASSUME NEW s \in Sub, Close(s) PROVE TypeOK'
  BY <1>3 DEF TypeOK, Close, pubVars
<1>4. ASSUME NEW p \in Pub, NEW k \in Kind, Publish(p, k) PROVE TypeOK'
  BY <1>4 DEF TypeOK, Publish, busVars
<1>5. ASSUME NEW p \in Pub, NEW s \in Sub, Skip(p, s) PROVE TypeOK'
  BY <1>5 DEF TypeOK, Skip, Visit
<1>6. ASSUME NEW p \in Pub, NEW s \in Sub, Deliver(p, s) PROVE TypeOK'
  BY SMTT(30), <1>6 DEF TypeOK, Deliver, Visit
<1>7. ASSUME NEW p \in Pub, NEW s \in Sub, Drop(p, s) PROVE TypeOK'
  BY SMTT(30), <1>7 DEF TypeOK, Drop, Visit
<1>8. ASSUME NEW p \in Pub, NEW s \in Sub, Reap(p, s) PROVE TypeOK'
  BY <1>8 DEF TypeOK, Reap, Visit
<1>9. ASSUME NEW p \in Pub, Return(p) PROVE TypeOK'
  BY <1>9 DEF TypeOK, Return, busVars, history
<1>10. CASE UNCHANGED vars
  BY <1>10 DEF TypeOK, vars
<1> QED
  BY <1>1, <1>2, <1>3, <1>4, <1>5, <1>6, <1>7, <1>8, <1>9, <1>10 DEF Next, PassStep

\* The mutex admits one publisher at a time.
LEMMA MutexStep == ASSUME TypeOK, MutexInv, [Next]_vars PROVE MutexInv'
<1>1. ASSUME NEW s \in Sub, Subscribe(s) PROVE MutexInv'
  BY <1>1 DEF TypeOK, MutexInv, Subscribe, MutexFree, pubVars
<1>2. ASSUME NEW s \in Sub, Receive(s) PROVE MutexInv'
  BY <1>2 DEF TypeOK, MutexInv, Receive, pubVars
<1>3. ASSUME NEW s \in Sub, Close(s) PROVE MutexInv'
  BY <1>3 DEF TypeOK, MutexInv, Close, pubVars
<1>4. ASSUME NEW p \in Pub, NEW k \in Kind, Publish(p, k) PROVE MutexInv'
  BY <1>4 DEF TypeOK, MutexInv, Publish, MutexFree, busVars
<1>5. ASSUME NEW p \in Pub, NEW s \in Sub, Skip(p, s) PROVE MutexInv'
  BY <1>5 DEF TypeOK, MutexInv, Skip, Visit
<1>6. ASSUME NEW p \in Pub, NEW s \in Sub, Deliver(p, s) PROVE MutexInv'
  BY <1>6 DEF TypeOK, MutexInv, Deliver, Visit
<1>7. ASSUME NEW p \in Pub, NEW s \in Sub, Drop(p, s) PROVE MutexInv'
  BY <1>7 DEF TypeOK, MutexInv, Drop, Visit
<1>8. ASSUME NEW p \in Pub, NEW s \in Sub, Reap(p, s) PROVE MutexInv'
  BY <1>8 DEF TypeOK, MutexInv, Reap, Visit
<1>9. ASSUME NEW p \in Pub, Return(p) PROVE MutexInv'
  BY <1>9 DEF TypeOK, MutexInv, Return, busVars, history
<1>10. CASE UNCHANGED vars
  BY <1>10 DEF MutexInv, vars
<1> QED
  BY <1>1, <1>2, <1>3, <1>4, <1>5, <1>6, <1>7, <1>8, <1>9, <1>10 DEF Next, PassStep

-----------------------------------------------------------------------------
(***************************************************************************)
(* How Visited, the last event dealt with for a subscriber, moves.         *)
(***************************************************************************)
\* The newest event a subscriber has been visited for is a natural number.
LEMMA VisitedType ==
  ASSUME TypeOK, MutexInv, NEW s \in Sub
  PROVE  Visited(s) \in Nat /\ Visited(s) <= Len(log)
BY DEF TypeOK, MutexInv, Visited

\* With the mutex free everybody has been visited for the whole log.
LEMMA VisitedFree ==
  ASSUME TypeOK, MutexFree, NEW s \in Sub
  PROVE  Visited(s) = Len(log)
BY DEF TypeOK, MutexFree, Visited

\* A visit settles the newest event for the subscriber visited, and nobody else.
LEMMA VisitedVisit ==
  ASSUME TypeOK, MutexInv, NEW p \in Pub, NEW s \in Sub, Visit(p, s)
  PROVE  /\ cur[p] = Len(log) /\ Len(log) > 0
         /\ Visited(s) = Len(log) - 1
         /\ log' = log => /\ Visited(s)' = Len(log)
                          /\ \A r \in Sub : r # s => Visited(r)' = Visited(r)
<1>1. \A q \in Pub : pass[q] => q = p
  BY DEF MutexInv, Visit
<1>2. pass[p] /\ s \in todo[p] /\ pass' = pass /\ log' = log
  BY DEF Visit
<1>3. todo' = [todo EXCEPT ![p] = @ \ {s}] /\ todo \in [Pub -> SUBSET Sub]
  BY DEF Visit, TypeOK
<1>4. cur[p] = Len(log) /\ Len(log) > 0
  BY <1>2 DEF MutexInv
<1>5. Visited(s) = Len(log) - 1
  BY <1>2 DEF Visited
<1>6. Visited(s)' = Len(log)
  BY <1>1, <1>2, <1>3 DEF Visited
<1>7. ASSUME NEW r \in Sub, r # s PROVE Visited(r)' = Visited(r)
  BY <1>2, <1>3, <1>7 DEF Visited
<1> QED
  BY <1>4, <1>5, <1>6, <1>7

\* A publication leaves everybody visited as far as before it.
LEMMA VisitedPublish ==
  ASSUME TypeOK, NEW p \in Pub, NEW k \in Kind, Publish(p, k), NEW s \in Sub
  PROVE  /\ Len(log') = Len(log) + 1
         /\ Visited(s) = Len(log)
         /\ s \in registered => Visited(s)' = Len(log)
         /\ \A e \in 1..Len(log) : log'[e] = log[e]
<1>1. Len(log') = Len(log) + 1 /\ \A e \in 1..Len(log) : log'[e] = log[e]
  BY DEF TypeOK, Publish
<1>2. Visited(s) = Len(log)
  BY VisitedFree DEF Publish
<1>3. ASSUME s \in registered PROVE Visited(s)' = Len(log)
  <2>1. pass'[p] /\ s \in todo'[p]
    BY <1>3 DEF TypeOK, Publish
  <2> QED
    BY <1>1, <2>1 DEF TypeOK, Visited
<1> QED
  BY <1>1, <1>2, <1>3

\* A pass returns when everybody has been visited for the newest event.
LEMMA VisitedReturn ==
  ASSUME TypeOK, NEW p \in Pub, Return(p), NEW s \in Sub
  PROVE  Visited(s)' = Visited(s)
<1>1. todo' = todo /\ log' = log /\ todo[p] = {}
  BY DEF Return, history
<1>2. \A q \in Pub : q # p => pass'[q] = pass[q]
  BY DEF Return, TypeOK
<1>3. ASSUME NEW q \in Pub PROVE (pass'[q] /\ s \in todo'[q]) <=> (pass[q] /\ s \in todo[q])
  BY <1>1, <1>2
<1> QED
  BY <1>1, <1>3 DEF Visited

\* The other steps leave the passes and the log alone.
LEMMA VisitedOther ==
  ASSUME UNCHANGED <<pass, todo, log>>, NEW s \in Sub
  PROVE  Visited(s)' = Visited(s)
BY DEF Visited

-----------------------------------------------------------------------------
\* Bookkeeping of the subscriptions.
LEMMA SubStep == ASSUME TypeOK, MutexInv, SubInv, [Next]_vars PROVE SubInv'
<1>1. ASSUME NEW s \in Sub, Subscribe(s) PROVE SubInv'
  <2>1. \A r \in Sub : Visited(r) = Len(log)
    BY <1>1, VisitedFree DEF Subscribe
  <2>2. \A r \in Sub : Visited(r)' = Visited(r)
    BY <1>1, VisitedOther DEF Subscribe, pubVars
  <2> QED
    BY <1>1, <2>1, <2>2 DEF TypeOK, SubInv, Subscribe, pubVars
<1>2. ASSUME NEW s \in Sub, Receive(s) PROVE SubInv'
  <2>1. \A r \in Sub : Visited(r)' = Visited(r)
    BY <1>2, VisitedOther DEF Receive, pubVars
  <2> QED
    BY <1>2, <2>1 DEF TypeOK, SubInv, Receive, pubVars
<1>3. ASSUME NEW s \in Sub, Close(s) PROVE SubInv'
  <2>1. \A r \in Sub : Visited(r)' = Visited(r)
    BY <1>3, VisitedOther DEF Close, pubVars
  <2> QED
    BY <1>3, <2>1 DEF TypeOK, SubInv, Close, pubVars
<1>4. ASSUME NEW p \in Pub, NEW k \in Kind, Publish(p, k) PROVE SubInv'
  <2>1. Len(log') = Len(log) + 1
    BY <1>4 DEF Publish, TypeOK
  <2>2. \A r \in Sub : status[r] = "open" => Visited(r)' = Len(log)
    BY <1>4, VisitedPublish DEF SubInv
  <2> QED
    BY <1>4, <2>1, <2>2 DEF TypeOK, SubInv, Publish, busVars
<1>5. ASSUME NEW p \in Pub, NEW s \in Sub, Skip(p, s) \/ Deliver(p, s) \/ Drop(p, s) \/ Reap(p, s)
      PROVE  SubInv'
  <2>1. Visit(p, s) /\ log' = log /\ status' = status /\ got' = got /\ since' = since
    BY <1>5 DEF Skip, Deliver, Drop, Reap, Visit
  <2>2. \A r \in Sub : status[r] = "open" => since[r] <= Visited(r)'
    BY <2>1, VisitedVisit, VisitedType DEF TypeOK, SubInv
  <2>3. \A r \in Sub : status[r] = "open" => r \in registered'
    BY <1>5, <2>1 DEF SubInv, Skip, Deliver, Drop, Reap
  <2>4. \A r \in registered' : r \in registered
    BY <1>5 DEF Skip, Deliver, Drop, Reap
  <2>5. s \in registered
    BY <2>1 DEF Visit, MutexInv
  <2>6. \A r \in Sub : status[r] # "open" => queue'[r] = <<>>
    BY <1>5 DEF TypeOK, SubInv, Skip, Deliver, Drop, Reap
  <2>7. \A r \in Sub : status[r] = "new" => dropped'[r] = 0 /\ seen'[r] = 0
    BY <1>5, <2>5 DEF TypeOK, SubInv, Skip, Deliver, Drop, Reap
  <2> QED
    BY <2>1, <2>2, <2>3, <2>4, <2>6, <2>7 DEF SubInv
<1>6. ASSUME NEW p \in Pub, Return(p) PROVE SubInv'
  <2>1. \A r \in Sub : Visited(r)' = Visited(r)
    BY <1>6, VisitedReturn
  <2> QED
    BY <1>6, <2>1 DEF SubInv, Return, busVars, history
<1>7. CASE UNCHANGED vars
  <2>1. \A r \in Sub : Visited(r)' = Visited(r)
    BY <1>7, VisitedOther DEF vars
  <2> QED
    BY <1>7, <2>1 DEF SubInv, vars
<1> QED
  BY <1>1, <1>2, <1>3, <1>4, <1>5, <1>6, <1>7 DEF Next, PassStep

\* Numbers in a channel never exceed the last one offered.
LEMMA SeenStep == ASSUME TypeOK, MutexInv, SubInv, SeenInv, [Next]_vars PROVE SeenInv'
<1>1. ASSUME NEW s \in Sub, Subscribe(s) PROVE SeenInv'
  <2>1. \A r \in Sub : Visited(r)' = Visited(r) /\ Visited(r) \in Nat
    BY <1>1, VisitedOther, VisitedType DEF Subscribe, pubVars
  <2> QED
    BY <1>1, <2>1 DEF TypeOK, SubInv, SeenInv, Subscribe, pubVars
<1>2. ASSUME NEW s \in Sub, Receive(s) PROVE SeenInv'
  <2>1. \A r \in Sub : Visited(r)' = Visited(r)
    BY <1>2, VisitedOther DEF Receive, pubVars
  <2>2. /\ seen' = seen /\ status' = status
        /\ \A r \in Sub : r # s => got'[r] = got[r] /\ queue'[r] = queue[r]
        /\ got'[s] = Append(got[s], Head(queue[s])) /\ queue'[s] = Tail(queue[s])
        /\ queue[s] # <<>> /\ queue[s] \in Seq(Nat) /\ got[s] \in Seq(Nat)
    BY <1>2 DEF TypeOK, Receive
  <2>3. /\ \A i \in 1..Len(got'[s]) : got'[s][i] <= seen[s]
        /\ \A j \in 1..Len(queue'[s]) : queue'[s][j] <= seen[s]
    <3>1. /\ \A i \in 1..Len(got[s]) : got[s][i] <= seen[s]
          /\ \A j \in 1..Len(queue[s]) : queue[s][j] <= seen[s]
      BY DEF SeenInv
    <3>2. Head(queue[s]) <= seen[s]
      BY <2>2, <3>1, TailElems
    <3>3. \A i \in 1..Len(got'[s]) : got'[s][i] <= seen[s]
      <4>1. Head(queue[s]) \in Nat /\ Len(got[s]) \in Nat
        BY <2>2, TailElems
      <4> QED
        BY <2>2, <3>1, <3>2, <4>1, AppendElems
    <3>4. \A j \in 1..Len(queue'[s]) : queue'[s][j] <= seen[s]
      BY <2>2, <3>1, TailElems
    <3> QED
      BY <3>3, <3>4
  <2> QED
    BY <2>1, <2>2, <2>3 DEF SeenInv
<1>3. ASSUME NEW s \in Sub, Close(s) PROVE SeenInv'
  <2>1. \A r \in Sub : Visited(r)' = Visited(r)
    BY <1>3, VisitedOther DEF Close, pubVars
  <2> QED
    BY <1>3, <2>1 DEF TypeOK, SeenInv, Close, pubVars
<1>4. ASSUME NEW p \in Pub, NEW k \in Kind, Publish(p, k) PROVE SeenInv'
  <2>1. \A r \in Sub : status[r] = "open" => Visited(r)' = Visited(r)
    BY <1>4, VisitedPublish DEF SubInv
  <2> QED
    BY <1>4, <2>1 DEF SeenInv, Publish, busVars
<1>5. ASSUME NEW p \in Pub, NEW s \in Sub, Skip(p, s) \/ Reap(p, s) PROVE SeenInv'
  <2>1. Visit(p, s) /\ log' = log /\ UNCHANGED <<status, got, queue, seen>>
    BY <1>5 DEF Skip, Reap, Visit
  <2>2. \A r \in Sub : Visited(r)' \in Nat /\ Visited(r) \in Nat /\ Visited(r) <= Visited(r)'
    <3>1. Len(log) \in Nat \ {0} /\ Visited(s) = Len(log) - 1 /\ Visited(s)' = Len(log)
      BY <2>1, VisitedVisit DEF TypeOK
    <3>2. \A r \in Sub : r # s => Visited(r)' = Visited(r)
      BY <2>1, VisitedVisit
    <3>3. \A r \in Sub : Visited(r) \in Nat
      BY VisitedType
    <3> QED
      BY <3>1, <3>2, <3>3
  <2> QED
    BY SMTT(30), <2>1, <2>2 DEF TypeOK, SeenInv
<1>6. ASSUME NEW p \in Pub, NEW s \in Sub, Deliver(p, s) \/ Drop(p, s) PROVE SeenInv'
  <2>1. Visit(p, s) /\ log' = log /\ UNCHANGED <<status, got>> /\ status[s] = "open"
    BY <1>6 DEF Deliver, Drop, Visit
  <2>2. /\ cur[p] = Len(log) /\ Visited(s) = Len(log) - 1 /\ Visited(s)' = Len(log)
        /\ \A r \in Sub : r # s => Visited(r)' = Visited(r)
    BY <2>1, VisitedVisit
  <2>3. seen' = [seen EXCEPT ![s] = cur[p]]
    BY <1>6 DEF Deliver, Drop
  <2>4. \/ queue' = queue
        \/ queue' = [queue EXCEPT ![s] = Append(@, cur[p])]
    BY <1>6 DEF Deliver, Drop
  <2>5. seen[s] <= Len(log) /\ seen'[s] = Len(log) /\ Len(log) \in Nat /\ seen[s] \in Nat
    BY <2>1, <2>2, <2>3 DEF TypeOK, SeenInv
  <2>a. got[s] \in Seq(Nat) /\ queue[s] \in Seq(Nat)
    BY DEF TypeOK
  <2>6. \A i \in 1..Len(got[s]) : got[s][i] <= seen'[s]
    <3>1. \A i \in 1..Len(got[s]) : got[s][i] <= seen[s] /\ got[s][i] \in Nat
      BY <2>a DEF SeenInv
    <3> QED
      BY <2>5, <3>1
  <2>7. \A j \in 1..Len(queue'[s]) : queue'[s][j] <= seen'[s]
    <3>1. \A j \in 1..Len(queue[s]) : queue[s][j] <= Len(log)
      <4>1. \A j \in 1..Len(queue[s]) : queue[s][j] <= seen[s] /\ queue[s][j] \in Nat
        BY <2>a DEF SeenInv
      <4> QED
        BY <2>5, <4>1
    <3>2. CASE queue' = queue
      BY <2>5, <3>1, <3>2
    <3>3. CASE queue' = [queue EXCEPT ![s] = Append(@, cur[p])]
      <4>1. queue'[s] = Append(queue[s], Len(log))
        BY <2>2, <3>3 DEF TypeOK
      <4> QED
        BY <2>5, <2>a, <3>1, <4>1, AppendElems
    <3> QED
      BY <2>4, <3>2, <3>3
  <2>8. \A r \in Sub : r # s => queue'[r] = queue[r] /\ seen'[r] = seen[r]
    BY <2>3, <2>4 DEF TypeOK
  <2> QED
    BY <2>1, <2>2, <2>5, <2>6, <2>7, <2>8 DEF SeenInv
<1>7. ASSUME NEW p \in Pub, Return(p) PROVE SeenInv'
  <2>1. \A r \in Sub : Visited(r)' = Visited(r)
    BY <1>7, VisitedReturn
  <2> QED
    BY <1>7, <2>1 DEF SeenInv, Return, busVars, history
<1>8. CASE UNCHANGED vars
  <2>1. \A r \in Sub : Visited(r)' = Visited(r)
    BY <1>8, VisitedOther DEF vars
  <2> QED
    BY <1>8, <2>1 DEF SeenInv, vars
<1> QED
  BY <1>1, <1>2, <1>3, <1>4, <1>5, <1>6, <1>7, <1>8 DEF Next, PassStep

-----------------------------------------------------------------------------
\* A step keeps the order for s if it leaves its channel alone or empties it,
\* and only extends the log.
LEMMA OrderedFrame ==
  ASSUME TypeOK, NEW s \in Sub, Ordered(s),
         got'[s] = got[s],
         Len(log') \in Nat, Len(log') >= Len(log),
         \A e \in 1..Len(log) : log'[e] = log[e],
         \/ queue'[s] = <<>>
         \/ /\ queue'[s] = queue[s] /\ since'[s] = since[s]
            /\ Visited(s) <= Len(log)
            /\ Visited(s) \in Nat /\ Visited(s)' \in Nat /\ Visited(s) <= Visited(s)'
  PROVE  Ordered(s)'
<1>1. got[s] \in Seq(Nat) /\ queue[s] \in Seq(Nat) /\ since[s] \in Nat /\ Len(log) \in Nat
  BY DEF TypeOK
<1>2. /\ \A i, j \in 1..Len(got[s]) : i < j => got[s][i] < got[s][j]
      /\ \A i, j \in 1..Len(queue[s]) : i < j => queue[s][i] < queue[s][j]
      /\ \A i \in 1..Len(got[s]), j \in 1..Len(queue[s]) : got[s][i] < queue[s][j]
      /\ \A i \in 1..Len(got[s]) : got[s][i] \in 1..Len(log) /\ log[got[s][i]] \in KindsOf[s]
      /\ \A j \in 1..Len(queue[s]) :
           queue[s][j] \in since[s] + 1 .. Visited(s) /\ log[queue[s][j]] \in KindsOf[s]
  BY DEF Ordered, Increasing, Matches
<1>3. \A i \in 1..Len(got[s]) :
        got[s][i] \in 1..Len(log') /\ log'[got[s][i]] \in KindsOf[s]
  <2> TAKE i \in 1..Len(got[s])
  <2>1. got[s][i] \in 1..Len(log) /\ log[got[s][i]] \in KindsOf[s]
    BY <1>2
  <2>2. log'[got[s][i]] = log[got[s][i]]
    BY <2>1
  <2> QED
    BY <1>1, <2>1, <2>2
<1>4. CASE queue'[s] = <<>>
  <2>1. Len(queue'[s]) = 0
    BY <1>4
  <2> QED
    BY <1>2, <1>3, <2>1 DEF Ordered, Increasing, Matches
<1>5. CASE /\ queue'[s] = queue[s] /\ since'[s] = since[s]
           /\ Visited(s) <= Len(log)
           /\ Visited(s) \in Nat /\ Visited(s)' \in Nat /\ Visited(s) <= Visited(s)'
  <2>1. ASSUME NEW j \in 1..Len(queue[s])
        PROVE queue[s][j] \in since[s] + 1 .. Visited(s)' /\ log'[queue[s][j]] \in KindsOf[s]
    <3>1. queue[s][j] \in since[s] + 1 .. Visited(s) /\ log[queue[s][j]] \in KindsOf[s]
      BY <1>2
    <3>2. since[s] \in Nat /\ Len(log) \in Nat /\ Visited(s) \in Nat
      BY <1>1, <1>5 DEF TypeOK
    <3>3. queue[s][j] \in 1..Len(log)
      <4>1. Visited(s) <= Len(log)
        BY <1>5
      <4> QED
        BY <3>1, <3>2, <4>1
    <3>4. log'[queue[s][j]] = log[queue[s][j]]
      BY <1>1, <3>3
    <3>5. queue[s][j] \in since[s] + 1 .. Visited(s)'
      <4>1. Visited(s)' \in Nat /\ Visited(s) <= Visited(s)'
        BY <1>5
      <4> QED
        BY <3>1, <3>2, <4>1
    <3> QED
      BY <3>1, <3>4, <3>5
  <2> QED
    BY <1>2, <1>3, <1>5, <2>1 DEF Ordered, Increasing, Matches
<1> QED
  BY <1>4, <1>5

\* Receiving keeps the order: the head of the channel follows all of got.
LEMMA OrderedReceive ==
  ASSUME TypeOK, NEW s \in Sub, Ordered(s), Receive(s), Visited(s)' = Visited(s)
  PROVE  Ordered(s)'
<1>1. /\ got[s] \in Seq(Nat) /\ queue[s] \in Seq(Nat) /\ queue[s] # <<>>
      /\ got'[s] = Append(got[s], Head(queue[s])) /\ queue'[s] = Tail(queue[s])
      /\ log' = log /\ since'[s] = since[s] /\ since[s] \in Nat /\ Len(log) \in Nat
  BY DEF TypeOK, Receive
<1> DEFINE g == got[s]
           q == queue[s]
           h == Head(q)
<1>2. h = q[1] /\ h \in Nat /\ Len(q) \in Nat \ {0} /\ Len(g) \in Nat
  BY <1>1, TailElems
<1>3. /\ Len(Tail(q)) = Len(q) - 1
      /\ \A j \in 1..Len(q) - 1 : Tail(q)[j] = q[j + 1]
  BY <1>1, TailElems
<1>4. /\ Len(Append(g, h)) = Len(g) + 1
      /\ \A i \in 1..Len(g) : Append(g, h)[i] = g[i]
      /\ Append(g, h)[Len(g) + 1] = h
  BY <1>1, <1>2, AppendElems
<1>5. /\ \A i, j \in 1..Len(g) : i < j => g[i] < g[j]
      /\ \A i, j \in 1..Len(q) : i < j => q[i] < q[j]
      /\ \A i \in 1..Len(g), j \in 1..Len(q) : g[i] < q[j]
      /\ \A i \in 1..Len(g) : g[i] \in 1..Len(log) /\ Matches(s, g[i])
      /\ \A j \in 1..Len(q) : q[j] \in since[s] + 1 .. Visited(s) /\ Matches(s, q[j])
  BY DEF Ordered, Increasing
<1>6. h \in 1..Len(log) /\ Matches(s, h)
  <2>1. h \in since[s] + 1 .. Visited(s) /\ Matches(s, h)
    BY <1>2, <1>5
  <2>2. Visited(s) \in {Len(log), Len(log) - 1}
    BY DEF Visited
  <2> QED
    BY <1>1, <2>1, <2>2
<1>7. \A i \in 1..Len(g) : g[i] < h /\ g[i] \in Nat
  <2>1. \A i \in 1..Len(g) : g[i] \in Nat
    BY SMTT(30), <1>1
  <2>2. \A i \in 1..Len(g) : g[i] < h
    BY <1>2, <1>5
  <2> QED
    BY <2>1, <2>2
<1> HIDE DEF g, q, h
<1>8. \A i, j \in 1..Len(Append(g, h)) : i < j => Append(g, h)[i] < Append(g, h)[j]
  <2>1. ASSUME NEW i \in 1..Len(g), NEW j \in 1..Len(g), i < j
        PROVE  Append(g, h)[i] < Append(g, h)[j]
    BY <1>4, <1>5, <2>1
  <2>2. ASSUME NEW i \in 1..Len(g) PROVE Append(g, h)[i] < h
    BY <1>4, <1>7
  <2> QED
    BY <1>2, <1>4, <2>1, <2>2
<1>9. \A i, j \in 1..Len(Tail(q)) : i < j => Tail(q)[i] < Tail(q)[j]
  BY <1>2, <1>3, <1>5
<1>10. \A i \in 1..Len(Append(g, h)), j \in 1..Len(Tail(q)) : Append(g, h)[i] < Tail(q)[j]
  <2>1. ASSUME NEW i \in 1..Len(g), NEW j \in 1..Len(Tail(q)) PROVE Append(g, h)[i] < Tail(q)[j]
    BY <1>2, <1>3, <1>4, <1>5
  <2>2. ASSUME NEW j \in 1..Len(Tail(q)) PROVE h < Tail(q)[j]
    BY <1>2, <1>3, <1>5
  <2> QED
    BY <1>2, <1>4, <2>1, <2>2
<1>11. \A i \in 1..Len(Append(g, h)) :
         Append(g, h)[i] \in 1..Len(log) /\ Matches(s, Append(g, h)[i])
  BY <1>2, <1>4, <1>5, <1>6
<1>12. \A j \in 1..Len(Tail(q)) :
         Tail(q)[j] \in since[s] + 1 .. Visited(s) /\ Matches(s, Tail(q)[j])
  BY <1>2, <1>3, <1>5
<1>13. got'[s] = Append(g, h) /\ queue'[s] = Tail(q)
  BY <1>1 DEF g, q, h
<1> QED
  BY <1>1, <1>8, <1>9, <1>10, <1>11, <1>12, <1>13 DEF Ordered, Increasing, Matches

\* Delivering keeps the order: the newest event follows everything before it.
LEMMA OrderedDeliver ==
  ASSUME TypeOK, MutexInv, SubInv, SeenInv, NEW p \in Pub, NEW s \in Sub, Ordered(s), Deliver(p, s)
  PROVE  Ordered(s)'
<1>1. /\ got[s] \in Seq(Nat) /\ queue[s] \in Seq(Nat) /\ Len(log) \in Nat
      /\ got'[s] = got[s] /\ queue'[s] = Append(queue[s], cur[p])
      /\ log' = log /\ since'[s] = since[s] /\ since[s] \in Nat
      /\ status[s] = "open" /\ Visit(p, s) /\ Matches(s, cur[p])
  BY DEF TypeOK, Deliver, Visit
<1>2. cur[p] = Len(log) /\ Len(log) > 0 /\ Visited(s) = Len(log) - 1 /\ Visited(s)' = Len(log)
  BY <1>1, VisitedVisit
<1> DEFINE g == got[s]
           q == queue[s]
           e == cur[p]
<1>3. /\ Len(Append(q, e)) = Len(q) + 1
      /\ \A i \in 1..Len(q) : Append(q, e)[i] = q[i]
      /\ Append(q, e)[Len(q) + 1] = e
      /\ Len(q) \in Nat /\ e \in Nat
  BY <1>1, <1>2, AppendElems
<1>4. /\ \A i, j \in 1..Len(g) : i < j => g[i] < g[j]
      /\ \A i, j \in 1..Len(q) : i < j => q[i] < q[j]
      /\ \A i \in 1..Len(g), j \in 1..Len(q) : g[i] < q[j]
      /\ \A i \in 1..Len(g) : g[i] \in 1..Len(log) /\ Matches(s, g[i])
      /\ \A j \in 1..Len(q) : q[j] \in since[s] + 1 .. Visited(s) /\ Matches(s, q[j])
  BY DEF Ordered, Increasing
<1>5. /\ since[s] <= Visited(s)
      /\ seen[s] \in Nat /\ seen[s] <= Visited(s)
      /\ \A i \in 1..Len(g) : g[i] <= seen[s]
  BY <1>1 DEF SubInv, SeenInv, TypeOK
<1>6. /\ \A i \in 1..Len(g) : g[i] < e /\ g[i] \in Nat
      /\ \A j \in 1..Len(q) : q[j] < e /\ q[j] \in Nat
      /\ e \in since[s] + 1 .. Len(log)
  <2>1. /\ \A i \in 1..Len(g) : g[i] \in Nat
        /\ \A j \in 1..Len(q) : q[j] \in Nat
    BY SMTT(30), <1>1
  <2>2. \A i \in 1..Len(g) : g[i] < e
    BY SMTT(30), <1>1, <1>2, <1>5, <2>1
  <2>3. \A j \in 1..Len(q) : q[j] < e
    BY SMTT(30), <1>1, <1>2, <1>4, <2>1
  <2>4. e \in since[s] + 1 .. Len(log)
    BY <1>1, <1>2, <1>5
  <2> QED
    BY <2>1, <2>2, <2>3, <2>4
<1>7. queue'[s] = Append(q, e) /\ got'[s] = g
  BY <1>1
<1>8. Matches(s, e) /\ e = Len(log)
  BY <1>1, <1>2
<1> HIDE DEF g, q, e
<1>9. \A i, j \in 1..Len(Append(q, e)) : i < j => Append(q, e)[i] < Append(q, e)[j]
  <2>1. ASSUME NEW i \in 1..Len(q), NEW j \in 1..Len(q), i < j
        PROVE  Append(q, e)[i] < Append(q, e)[j]
    BY <1>3, <1>4, <2>1
  <2>2. ASSUME NEW i \in 1..Len(q) PROVE Append(q, e)[i] < e
    BY <1>3, <1>6
  <2> QED
    BY <1>3, <2>1, <2>2
<1>10. \A i \in 1..Len(g), j \in 1..Len(Append(q, e)) : g[i] < Append(q, e)[j]
  BY <1>3, <1>4, <1>6
<1>11. \A j \in 1..Len(Append(q, e)) :
         Append(q, e)[j] \in since[s] + 1 .. Len(log) /\ Matches(s, Append(q, e)[j])
  <2>1. ASSUME NEW j \in 1..Len(q)
        PROVE  Append(q, e)[j] \in since[s] + 1 .. Len(log) /\ Matches(s, Append(q, e)[j])
    BY <1>1, <1>2, <1>3, <1>4
  <2> QED
    BY <1>3, <1>6, <1>8, <2>1
<1> QED
  BY <1>1, <1>2, <1>4, <1>7, <1>9, <1>10, <1>11 DEF Ordered, Increasing, Matches

\* Every step keeps the order of every channel.
LEMMA OrderStep ==
  ASSUME TypeOK, TypeOK', MutexInv, SubInv, SeenInv, OrderedDelivery, [Next]_vars
  PROVE  OrderedDelivery'
<1> USE DEF OrderedDelivery
<1>0. /\ \A r \in Sub : Visited(r) \in Nat /\ Visited(r) <= Len(log)
      /\ Len(log) \in Nat /\ Len(log') \in Nat
  BY SMTT(30), VisitedType DEF TypeOK
<1>1. ASSUME NEW s \in Sub, Subscribe(s) PROVE OrderedDelivery'
  <2>1. \A r \in Sub : Visited(r)' = Visited(r)
    BY <1>1, VisitedOther DEF Subscribe, pubVars
  <2>2. /\ got' = got /\ queue' = queue /\ log' = log /\ queue[s] = <<>>
        /\ \A r \in Sub : r # s => since'[r] = since[r]
    BY <1>1 DEF Subscribe, TypeOK, SubInv
  <2> QED
    BY <1>0, <2>1, <2>2, OrderedFrame
<1>2. ASSUME NEW s \in Sub, Receive(s) PROVE OrderedDelivery'
  <2>1. \A r \in Sub : Visited(r)' = Visited(r)
    BY <1>2, VisitedOther DEF Receive, pubVars
  <2>2. \A r \in Sub : r # s => got'[r] = got[r] /\ queue'[r] = queue[r]
    BY <1>2 DEF Receive, TypeOK
  <2>3. log' = log /\ since' = since
    BY <1>2 DEF Receive
  <2>4. ASSUME NEW r \in Sub, r # s PROVE Ordered(r)'
    BY <1>0, <2>1, <2>2, <2>3, <2>4, OrderedFrame
  <2>5. Ordered(s)'
    BY <1>2, <2>1, OrderedReceive
  <2> QED
    BY <2>4, <2>5
<1>3. ASSUME NEW s \in Sub, Close(s) PROVE OrderedDelivery'
  <2>1. \A r \in Sub : Visited(r)' = Visited(r)
    BY <1>3, VisitedOther DEF Close, pubVars
  <2>2. /\ got' = got /\ log' = log /\ queue'[s] = <<>>
        /\ \A r \in Sub : r # s => since'[r] = since[r] /\ queue'[r] = queue[r]
    BY <1>3 DEF Close, TypeOK
  <2> QED
    BY <1>0, <2>1, <2>2, OrderedFrame
<1>4. ASSUME NEW p \in Pub, NEW k \in Kind, Publish(p, k) PROVE OrderedDelivery'
  <2>1. Len(log') = Len(log) + 1 /\ \A e \in 1..Len(log) : log'[e] = log[e]
    BY <1>4 DEF Publish, TypeOK
  <2>2. got' = got /\ queue' = queue /\ since' = since
    BY <1>4 DEF Publish, busVars
  <2>3. \A r \in Sub : status[r] = "open" => Visited(r)' = Visited(r)
    BY <1>4, VisitedPublish DEF SubInv
  <2>4. \A r \in Sub : status[r] # "open" => queue'[r] = <<>>
    BY <2>2 DEF SubInv
  <2>5. ASSUME NEW r \in Sub PROVE Ordered(r)'
    <3>1. CASE status[r] = "open"
      BY <1>0, <2>1, <2>2, <2>3, <3>1, OrderedFrame
    <3>2. CASE status[r] # "open"
      BY <1>0, <2>1, <2>2, <2>4, <3>2, OrderedFrame
    <3> QED
      BY <3>1, <3>2
  <2> QED
    BY <2>5
<1>5. ASSUME NEW p \in Pub, NEW s \in Sub, Skip(p, s) \/ Drop(p, s) \/ Reap(p, s)
      PROVE  OrderedDelivery'
  <2>1. Visit(p, s) /\ log' = log /\ got' = got /\ queue' = queue /\ since' = since
    BY <1>5 DEF Skip, Drop, Reap, Visit
  <2>2. Visited(s) = Len(log) - 1 /\ Visited(s)' = Len(log)
    BY <2>1, VisitedVisit
  <2>3. \A r \in Sub : r # s => Visited(r)' = Visited(r)
    BY <2>1, VisitedVisit
  <2>4. \A r \in Sub : Visited(r) <= Visited(r)' /\ Visited(r)' \in Nat
    BY <1>0, <2>2, <2>3
  <2> QED
    BY <1>0, <2>1, <2>4, OrderedFrame
<1>6. ASSUME NEW p \in Pub, NEW s \in Sub, Deliver(p, s) PROVE OrderedDelivery'
  <2>1. Ordered(s)'
    BY <1>6, OrderedDeliver
  <2>2. /\ Visit(p, s) /\ log' = log /\ got' = got /\ since' = since
        /\ \A r \in Sub : r # s => queue'[r] = queue[r]
    BY <1>6 DEF Deliver, Visit, TypeOK
  <2>3. \A r \in Sub : r # s => Visited(r)' = Visited(r)
    BY <2>2, VisitedVisit
  <2>4. ASSUME NEW r \in Sub, r # s PROVE Ordered(r)'
    BY <1>0, <2>2, <2>3, <2>4, OrderedFrame
  <2> QED
    BY <2>1, <2>4
<1>7. ASSUME NEW p \in Pub, Return(p) PROVE OrderedDelivery'
  <2>1. \A r \in Sub : Visited(r)' = Visited(r)
    BY <1>7, VisitedReturn
  <2>2. log' = log /\ got' = got /\ queue' = queue /\ since' = since
    BY <1>7 DEF Return, busVars, history
  <2> QED
    BY <1>0, <2>1, <2>2, OrderedFrame
<1>8. CASE UNCHANGED vars
  <2>1. \A r \in Sub : Visited(r)' = Visited(r)
    BY <1>8, VisitedOther DEF vars
  <2>2. log' = log /\ got' = got /\ queue' = queue /\ since' = since
    BY <1>8 DEF vars
  <2> QED
    BY <1>0, <2>1, <2>2, OrderedFrame
<1> QED
  BY <1>1, <1>2, <1>3, <1>4, <1>5, <1>6, <1>7, <1>8 DEF Next, PassStep

-----------------------------------------------------------------------------
\* A closed subscriber that stays registered has matched nothing since.
LEMMA ReapStep ==
  ASSUME TypeOK, MutexInv, SubInv, ReapedOnMatch, [Next]_vars
  PROVE  ReapedOnMatch'
<1>0. \A r \in Sub : Visited(r) \in Nat /\ Visited(r) <= Len(log)
  BY VisitedType
<1>1. ASSUME NEW s \in Sub, Subscribe(s) PROVE ReapedOnMatch'
  <2>1. \A r \in Sub : Visited(r)' = Visited(r)
    BY <1>1, VisitedOther DEF Subscribe, pubVars
  <2> QED
    BY <1>1, <2>1 DEF TypeOK, ReapedOnMatch, Subscribe, Matches
<1>2. ASSUME NEW s \in Sub, Receive(s) PROVE ReapedOnMatch'
  <2>1. \A r \in Sub : Visited(r)' = Visited(r)
    BY <1>2, VisitedOther DEF Receive, pubVars
  <2> QED
    BY <1>2, <2>1 DEF TypeOK, ReapedOnMatch, Receive, Matches
<1>3. ASSUME NEW s \in Sub, Close(s) PROVE ReapedOnMatch'
  <2>1. \A r \in Sub : Visited(r)' = Visited(r)
    BY <1>3, VisitedOther DEF Close, pubVars
  <2>2. since'[s] = Len(log) /\ Len(log) \in Nat /\ log' = log /\ registered' = registered
    BY <1>3 DEF Close, TypeOK
  <2>3. since'[s] + 1 .. Visited(s)' = {}
    BY <1>0, <2>1, <2>2
  <2>4. \A r \in Sub : r # s => status'[r] = status[r] /\ since'[r] = since[r]
    BY <1>3 DEF Close, TypeOK
  <2> QED
    BY <2>1, <2>2, <2>3, <2>4 DEF ReapedOnMatch, Matches, TypeOK
<1>4. ASSUME NEW p \in Pub, NEW k \in Kind, Publish(p, k) PROVE ReapedOnMatch'
  <2>1. \A r \in registered : Visited(r)' = Visited(r) /\ Visited(r) = Len(log)
    BY <1>4, VisitedPublish DEF TypeOK
  <2>2. \A e \in 1..Len(log) : log'[e] = log[e]
    BY <1>4 DEF Publish, TypeOK
  <2>3. registered' = registered /\ status' = status /\ since' = since
    BY <1>4 DEF Publish, busVars
  <2>4. ASSUME NEW r \in registered, status[r] = "closed", NEW e \in since[r] + 1 .. Visited(r)
        PROVE  log'[e] \notin KindsOf[r]
    <3>1. e \in 1..Len(log)
      BY <2>1, <2>4 DEF TypeOK
    <3> QED
      BY <2>2, <2>4, <3>1 DEF ReapedOnMatch, Matches
  <2> QED
    BY <2>1, <2>3, <2>4 DEF ReapedOnMatch, Matches
<1>5. ASSUME NEW p \in Pub, NEW s \in Sub, Skip(p, s) \/ Deliver(p, s) \/ Drop(p, s) \/ Reap(p, s)
      PROVE  ReapedOnMatch'
  <2>1. Visit(p, s) /\ log' = log /\ status' = status /\ since' = since
    BY <1>5 DEF Skip, Deliver, Drop, Reap, Visit
  <2>2. cur[p] = Len(log) /\ Visited(s) = Len(log) - 1 /\ Visited(s)' = Len(log) /\ Len(log) \in Nat
    BY <2>1, VisitedVisit DEF TypeOK
  <2>3. \A r \in Sub : r # s => Visited(r)' = Visited(r)
    BY <2>1, VisitedVisit
  <2>4. \A r \in registered' : r \in registered /\ r \in Sub
    BY <1>5 DEF Skip, Deliver, Drop, Reap, TypeOK
  <2>5. s \in registered' /\ status[s] = "closed" => ~Matches(s, Len(log))
    BY <1>5, <2>2 DEF Skip, Deliver, Drop, Reap
  <2>6. ASSUME NEW r \in registered', status[r] = "closed", NEW e \in since[r] + 1 .. Visited(r)'
        PROVE  log[e] \notin KindsOf[r]
    <3>1. CASE r # s
      BY <2>3, <2>4, <2>6, <3>1 DEF ReapedOnMatch, Matches
    <3>2. CASE r = s /\ e = Len(log)
      BY <2>5, <2>6, <3>2 DEF Matches
    <3>3. CASE r = s /\ e # Len(log)
      <4>1. e \in since[s] + 1 .. Visited(s)
        BY <2>2, <2>4, <2>6, <3>3 DEF TypeOK
      <4> QED
        BY <2>4, <2>6, <3>3, <4>1 DEF ReapedOnMatch, Matches
    <3> QED
      BY <3>1, <3>2, <3>3
  <2> QED
    BY <2>1, <2>6 DEF ReapedOnMatch, Matches
<1>6. ASSUME NEW p \in Pub, Return(p) PROVE ReapedOnMatch'
  <2>1. \A r \in Sub : Visited(r)' = Visited(r)
    BY <1>6, VisitedReturn
  <2> QED
    BY <1>6, <2>1 DEF ReapedOnMatch, Matches, Return, busVars, history, TypeOK
<1>7. CASE UNCHANGED vars
  <2>1. \A r \in Sub : Visited(r)' = Visited(r)
    BY <1>7, VisitedOther DEF vars
  <2> QED
    BY <1>7, <2>1 DEF ReapedOnMatch, Matches, vars, TypeOK
<1> QED
  BY <1>1, <1>2, <1>3, <1>4, <1>5, <1>6, <1>7 DEF Next, PassStep

-----------------------------------------------------------------------------
\* What a subscription is owed is a finite set.
LEMMA OwedFinite ==
  ASSUME TypeOK, MutexInv, NEW s \in Sub
  PROVE  IsFiniteSet(Owed(s)) /\ Cardinality(Owed(s)) \in Nat
<1>1. since[s] + 1 \in Int /\ Visited(s) \in Int
  BY VisitedType DEF TypeOK
<1>2. IsFiniteSet(since[s] + 1 .. Visited(s))
  BY <1>1, FS_Interval
<1>3. IsFiniteSet(Owed(s))
  BY <1>2, FS_Subset DEF Owed
<1> QED
  BY <1>3, FS_CardinalityType

\* Nothing owed to s changes if its status, Visited(s) and the old log stay.
LEMMA OwedFrame ==
  ASSUME TypeOK, NEW s \in Sub, since'[s] = since[s], Visited(s)' = Visited(s),
         Visited(s) \in Nat, Visited(s) <= Len(log),
         \A e \in 1..Len(log) : log'[e] = log[e]
  PROVE  Owed(s)' = Owed(s)
<1>1. \A e \in since[s] + 1 .. Visited(s) : log'[e] = log[e]
  BY DEF TypeOK
<1> QED
  BY <1>1 DEF Owed, Matches

\* What a subscription is owed is received, waiting or counted as dropped.
LEMMA LossStep ==
  ASSUME TypeOK, MutexInv, SubInv, NoSilentLoss, [Next]_vars
  PROVE  NoSilentLoss'
<1>0. /\ \A r \in Sub : Visited(r) \in Nat /\ Visited(r) <= Len(log)
      /\ Len(log) \in Nat
  BY VisitedType DEF TypeOK
<1>1. ASSUME NEW s \in Sub, Subscribe(s) PROVE NoSilentLoss'
  <2>1. \A r \in Sub : Visited(r)' = Visited(r) /\ Visited(r) = Len(log)
    BY <1>1, VisitedOther, VisitedFree DEF Subscribe, pubVars
  <2>2. /\ log' = log /\ got' = got /\ queue' = queue /\ dropped' = dropped
        /\ \A r \in Sub : r # s => status'[r] = status[r] /\ since'[r] = since[r]
        /\ since'[s] = Len(log) /\ status[s] = "new"
    BY <1>1 DEF Subscribe, TypeOK
  <2>3. \A r \in Sub : r # s => Owed(r)' = Owed(r)
    BY <1>0, <2>1, <2>2, OwedFrame
  <2>4. Cardinality(Owed(s)') = 0
    <3>1. Owed(s)' = {}
      BY <1>0, <2>1, <2>2 DEF Owed
    <3> QED
      BY <3>1, FS_EmptySet
  <2>5. Len(got[s]) = 0 /\ Len(queue[s]) = 0 /\ dropped[s] = 0
    <3>1. got[s] = <<>> /\ queue[s] = <<>> /\ dropped[s] = 0
      BY <2>2 DEF SubInv
    <3> QED
      BY <3>1
  <2>6. Len(got'[s]) + Len(queue'[s]) + dropped'[s] = Cardinality(Owed(s)')
    BY <2>2, <2>4, <2>5
  <2> QED
    BY <2>2, <2>3, <2>6 DEF NoSilentLoss
<1>2. ASSUME NEW s \in Sub, Receive(s) PROVE NoSilentLoss'
  <2>1. \A r \in Sub : Visited(r)' = Visited(r)
    BY <1>2, VisitedOther DEF Receive, pubVars
  <2>2. log' = log /\ status' = status /\ since' = since /\ dropped' = dropped
    BY <1>2 DEF Receive
  <2>3. \A r \in Sub : Owed(r)' = Owed(r)
    BY <1>0, <2>1, <2>2, OwedFrame
  <2>4. Len(got'[s]) + Len(queue'[s]) = Len(got[s]) + Len(queue[s])
    <3>1. /\ got'[s] = Append(got[s], Head(queue[s])) /\ queue'[s] = Tail(queue[s])
          /\ got[s] \in Seq(Nat) /\ queue[s] \in Seq(Nat) /\ queue[s] # <<>>
      BY <1>2 DEF Receive, TypeOK
    <3>2. Head(queue[s]) \in Nat /\ Len(queue'[s]) = Len(queue[s]) - 1 /\ Len(queue[s]) \in Nat
      BY <3>1, TailElems
    <3>3. Len(got'[s]) = Len(got[s]) + 1 /\ Len(got[s]) \in Nat
      BY <3>1, <3>2 DEF TypeOK
    <3> DEFINE a == Len(got[s])
               b == Len(queue[s])
    <3>4. a \in Nat /\ b \in Nat /\ Len(got'[s]) = a + 1 /\ Len(queue'[s]) = b - 1
      BY <3>2, <3>3
    <3> HIDE DEF a, b
    <3>5. Len(got'[s]) + Len(queue'[s]) = a + b
      BY <3>4
    <3> QED
      BY <3>5 DEF a, b
  <2>5. \A r \in Sub : r # s => got'[r] = got[r] /\ queue'[r] = queue[r]
    BY <1>2 DEF Receive, TypeOK
  <2> QED
    BY <2>2, <2>3, <2>4, <2>5 DEF NoSilentLoss
<1>3. ASSUME NEW s \in Sub, Close(s) PROVE NoSilentLoss'
  <2>1. \A r \in Sub : Visited(r)' = Visited(r)
    BY <1>3, VisitedOther DEF Close, pubVars
  <2>2. /\ log' = log /\ got' = got /\ dropped' = dropped /\ status'[s] = "closed"
        /\ \A r \in Sub : r # s => /\ status'[r] = status[r] /\ since'[r] = since[r]
                                   /\ queue'[r] = queue[r]
    BY <1>3 DEF Close, TypeOK
  <2>3. \A r \in Sub : r # s => Owed(r)' = Owed(r)
    BY <1>0, <2>1, <2>2, OwedFrame
  <2> QED
    BY <2>2, <2>3 DEF NoSilentLoss
<1>4. ASSUME NEW p \in Pub, NEW k \in Kind, Publish(p, k) PROVE NoSilentLoss'
  <2>1. \A e \in 1..Len(log) : log'[e] = log[e]
    BY <1>4 DEF Publish, TypeOK
  <2>2. UNCHANGED <<status, since, got, queue, dropped>>
    BY <1>4 DEF Publish, busVars
  <2>3. \A r \in Sub : status[r] = "open" => Visited(r)' = Visited(r)
    BY <1>4, VisitedPublish DEF SubInv
  <2>4. \A r \in Sub : status[r] = "open" => Owed(r)' = Owed(r)
    BY <1>0, <2>1, <2>2, <2>3, OwedFrame
  <2> QED
    BY <2>2, <2>4 DEF NoSilentLoss
<1>5. ASSUME NEW p \in Pub, NEW s \in Sub, Skip(p, s) \/ Deliver(p, s) \/ Drop(p, s) \/ Reap(p, s)
      PROVE  NoSilentLoss'
  <2>1. Visit(p, s) /\ UNCHANGED <<log, status, got, since>>
    BY <1>5 DEF Skip, Deliver, Drop, Reap, Visit
  <2>2. cur[p] = Len(log) /\ Visited(s) = Len(log) - 1 /\ Visited(s)' = Len(log)
    BY <2>1, VisitedVisit
  <2>3. \A r \in Sub : r # s => Visited(r)' = Visited(r)
    BY <2>1, VisitedVisit
  <2>4. \A r \in Sub : r # s => Owed(r)' = Owed(r)
    BY <1>0, <2>1, <2>3, OwedFrame
  <2>5. \A r \in Sub : r # s => queue'[r] = queue[r] /\ dropped'[r] = dropped[r]
    BY <1>5 DEF Skip, Deliver, Drop, Reap, TypeOK
  <2>6. ASSUME Skip(p, s), status[s] = "open"
        PROVE  Owed(s)' = Owed(s) /\ UNCHANGED <<queue, dropped>>
    <3>1. UNCHANGED <<queue, dropped>> /\ log[Len(log)] \notin KindsOf[s]
      BY <2>2, <2>6 DEF Skip, Matches
    <3>2. ASSUME NEW e PROVE e \in Owed(s)' <=> e \in Owed(s)
      BY <1>0, <2>1, <2>2, <3>1 DEF Owed, Matches, TypeOK
    <3>3. Owed(s)' = Owed(s)
      BY <3>2
    <3> QED
      BY <3>1, <3>3
  <2>7. ASSUME Deliver(p, s) \/ Drop(p, s)
        PROVE  Cardinality(Owed(s)') = Cardinality(Owed(s)) + 1
    <3>1. log[Len(log)] \in KindsOf[s] /\ status[s] = "open"
      BY <2>2, <2>7 DEF Deliver, Drop, Matches
    <3>2. since[s] \in Nat /\ since[s] <= Len(log) - 1
      BY <2>2, <3>1 DEF SubInv, TypeOK
    <3>3. ASSUME NEW e PROVE e \in Owed(s)' <=> e \in Owed(s) \cup {Len(log)}
      BY <1>0, <2>1, <2>2, <3>1, <3>2 DEF Owed, Matches
    <3>4. Owed(s)' = Owed(s) \cup {Len(log)}
      BY <3>3
    <3>5. Len(log) \notin Owed(s)
      BY <1>0, <2>2 DEF Owed
    <3> QED
      BY <3>4, <3>5, OwedFinite, FS_AddElement
  <2>8. ASSUME Deliver(p, s)
        PROVE  Len(queue'[s]) = Len(queue[s]) + 1 /\ dropped'[s] = dropped[s]
    BY <2>8 DEF Deliver, TypeOK
  <2>9. ASSUME Drop(p, s)
        PROVE  queue'[s] = queue[s] /\ dropped'[s] = dropped[s] + 1
    BY <2>9 DEF Drop, TypeOK
  <2>10. Len(got[s]) \in Nat /\ Len(queue[s]) \in Nat /\ dropped[s] \in Nat
    BY DEF TypeOK
  <2>11. status[s] = "open" => Len(got[s]) + Len(queue[s]) + dropped[s] = Cardinality(Owed(s))
    BY DEF NoSilentLoss
  <2>12. ~(Reap(p, s) /\ status[s] = "open")
    BY DEF Reap
  <2>13. ASSUME status[s] = "open"
         PROVE  Len(got[s]) + Len(queue'[s]) + dropped'[s] = Cardinality(Owed(s)')
    <3> DEFINE a == Len(got[s])
               b == Len(queue[s])
               c == dropped[s]
               n == Cardinality(Owed(s))
    <3>0. a \in Nat /\ b \in Nat /\ c \in Nat /\ a + b + c = n
      BY <2>10, <2>11, <2>13
    <3> HIDE DEF a, b, c, n
    <3>1. CASE Skip(p, s)
      BY <2>6, <2>11, <2>13, <3>1
    <3>2. CASE Deliver(p, s)
      <4>1. Len(queue'[s]) = b + 1 /\ dropped'[s] = c /\ Cardinality(Owed(s)') = n + 1
        BY <2>7, <2>8, <3>2 DEF b, c, n
      <4>2. a + (b + 1) + c = n + 1
        BY <3>0
      <4> QED
        BY <4>1, <4>2 DEF a
    <3>3. CASE Drop(p, s)
      <4>1. Len(queue'[s]) = b /\ dropped'[s] = c + 1 /\ Cardinality(Owed(s)') = n + 1
        BY <2>7, <2>9, <3>3 DEF b, c, n
      <4>2. a + b + (c + 1) = n + 1
        BY <3>0
      <4> QED
        BY <4>1, <4>2 DEF a
    <3> QED
      BY <1>5, <2>12, <2>13, <3>1, <3>2, <3>3
  <2> QED
    BY <2>1, <2>4, <2>5, <2>13 DEF NoSilentLoss
<1>6. ASSUME NEW p \in Pub, Return(p) PROVE NoSilentLoss'
  <2>1. \A r \in Sub : Visited(r)' = Visited(r)
    BY <1>6, VisitedReturn
  <2>2. UNCHANGED <<log, status, since, got, queue, dropped>>
    BY <1>6 DEF Return, busVars, history
  <2>3. \A r \in Sub : Owed(r)' = Owed(r)
    BY <1>0, <2>1, <2>2, OwedFrame
  <2> QED
    BY <2>2, <2>3 DEF NoSilentLoss
<1>7. CASE UNCHANGED vars
  <2>1. \A r \in Sub : Visited(r)' = Visited(r)
    BY <1>7, VisitedOther DEF vars
  <2>2. UNCHANGED <<log, status, since, got, queue, dropped>>
    BY <1>7 DEF vars
  <2>3. \A r \in Sub : Owed(r)' = Owed(r)
    BY <1>0, <2>1, <2>2, OwedFrame
  <2> QED
    BY <2>2, <2>3 DEF NoSilentLoss
<1> QED
  BY <1>1, <1>2, <1>3, <1>4, <1>5, <1>6, <1>7 DEF Next, PassStep

-----------------------------------------------------------------------------
(***************************************************************************)
(* Theorems                                                                *)
(***************************************************************************)

\* The inductive invariant holds of the bus.
THEOREM Invariance == Spec => []IInv
<1>1. Init => IInv
  <2> SUFFICES ASSUME Init PROVE IInv
    OBVIOUS
  <2>1. TypeOK
    BY SlotsType DEF Init, TypeOK
  <2>2. MutexInv /\ SubInv /\ SeenInv /\ OrderedDelivery /\ ReapedOnMatch
    BY DEF Init, MutexInv, SubInv, SeenInv, OrderedDelivery, Ordered, Increasing, ReapedOnMatch
  <2>3. NoSilentLoss
    BY DEF Init, NoSilentLoss
  <2> QED
    BY <2>1, <2>2, <2>3 DEF IInv
<1>2. IInv /\ [Next]_vars => IInv'
  <2> SUFFICES ASSUME IInv, [Next]_vars PROVE IInv'
    OBVIOUS
  <2> USE DEF IInv
  <2>1. TypeOK'
    BY TypeStep
  <2>2. MutexInv' /\ SubInv' /\ SeenInv'
    BY MutexStep, SubStep, SeenStep
  <2>3. OrderedDelivery'
    BY <2>1, OrderStep
  <2>4. NoSilentLoss' /\ ReapedOnMatch'
    BY LossStep, ReapStep
  <2> QED
    BY <2>1, <2>2, <2>3, <2>4
<1> QED
  BY <1>1, <1>2, PTL DEF Spec

\* No channel ever holds more than its slots, and the variables keep their types.
THEOREM TypeCorrect == Spec => []TypeOK
BY Invariance, PTL DEF IInv

\* Every subscriber sees what it asked for in the order of publication, once.
THEOREM DeliveryInOrder == Spec => []OrderedDelivery
BY Invariance, PTL DEF IInv

\* Dropped events are counted, all others are delivered.
THEOREM LossIsCounted == Spec => []NoSilentLoss
BY Invariance, PTL DEF IInv

\* Closed subscribers leave the vector on the next matching publication.
THEOREM ClosedAreReaped == Spec => []ReapedOnMatch
BY Invariance, PTL DEF IInv

\* Every subscription implements a lossy FIFO of its own.
THEOREM BusImplementsChannels == Spec => ChannelsAreLossyFifos
<1> DEFINE Chan(s) == [Channel(s)!Next]_(Channel(s)!vars)
<1>1. Init => \A s \in Sub : Channel(s)!Init
  BY DEF Init, Channel!Init
<1>2. IInv /\ [Next]_vars => \A s \in Sub : Chan(s)
  <2> SUFFICES ASSUME IInv, [Next]_vars, NEW s \in Sub PROVE Chan(s)
    OBVIOUS
  <2> USE DEF Channel!vars, Channel!Next
  <2>0. TypeOK /\ MutexInv /\ SubInv /\ SeenInv
    BY DEF IInv
  <2>1. ASSUME NEW r \in Sub, Subscribe(r) PROVE Chan(s)
    <3>1. CASE r = s
      BY <2>0, <2>1, <3>1 DEF TypeOK, Subscribe, Channel!Open
    <3>2. CASE r # s
      BY <2>0, <2>1, <3>2 DEF TypeOK, Subscribe
    <3> QED
      BY <3>1, <3>2
  <2>2. ASSUME NEW r \in Sub, Receive(r) PROVE Chan(s)
    <3>1. CASE r = s
      BY <2>0, <2>2, <3>1 DEF TypeOK, Receive, Channel!Take
    <3>2. CASE r # s
      BY <2>0, <2>2, <3>2 DEF TypeOK, Receive
    <3> QED
      BY <3>1, <3>2
  <2>3. ASSUME NEW r \in Sub, Close(r) PROVE Chan(s)
    <3>1. CASE r = s
      BY <2>0, <2>3, <3>1 DEF TypeOK, Close, Channel!Close
    <3>2. CASE r # s
      BY <2>0, <2>3, <3>2 DEF TypeOK, Close
    <3> QED
      BY <3>1, <3>2
  <2>4. ASSUME NEW p \in Pub, NEW k \in Kind, Publish(p, k) PROVE Chan(s)
    BY <2>4 DEF Publish, busVars
  <2>5. ASSUME NEW p \in Pub, NEW r \in Sub, Skip(p, r) \/ Reap(p, r) PROVE Chan(s)
    BY <2>5 DEF Skip, Reap, Visit
  <2>6. ASSUME NEW p \in Pub, NEW r \in Sub, r # s, Deliver(p, r) \/ Drop(p, r) PROVE Chan(s)
    BY <2>0, <2>6 DEF Deliver, Drop, Visit, TypeOK
  <2>7. ASSUME NEW p \in Pub, Deliver(p, s) \/ Drop(p, s) PROVE Chan(s)
    <3>1. Visit(p, s) /\ status[s] = "open" /\ status' = status /\ got' = got
      BY <2>7 DEF Deliver, Drop, Visit
    <3>2. cur[p] = Len(log) /\ Visited(s) = Len(log) - 1 /\ Len(log) \in Nat
      BY <2>0, <3>1, VisitedVisit DEF TypeOK
    <3>3. seen'[s] = cur[p]
      BY <2>0, <2>7 DEF Deliver, Drop, TypeOK
    <3>4. seen'[s] > seen[s]
      BY <2>0, <3>1, <3>2, <3>3 DEF SeenInv, TypeOK
    <3>5. Slots(s) \in Nat /\ Len(queue[s]) \in Nat /\ Len(queue[s]) <= Slots(s)
      BY <2>0, SlotsType DEF TypeOK
    <3>6. \/ /\ Len(queue[s]) < Slots(s)
             /\ queue'[s] = Append(queue[s], seen'[s])
             /\ dropped'[s] = dropped[s]
          \/ /\ Len(queue[s]) = Slots(s)
             /\ dropped'[s] = dropped[s] + 1
             /\ queue'[s] = queue[s]
      BY <2>0, <2>7, <3>3, <3>5 DEF Deliver, Drop, TypeOK
    <3> QED
      BY <3>1, <3>4, <3>6 DEF Channel!Offer
  <2>8. ASSUME NEW p \in Pub, Return(p) PROVE Chan(s)
    BY <2>8 DEF Return, busVars, history
  <2>9. CASE UNCHANGED vars
    BY <2>9 DEF vars
  <2> HIDE DEF Chan
  <2> QED
    BY <2>1, <2>2, <2>3, <2>4, <2>5, <2>6, <2>7, <2>8, <2>9 DEF Next, PassStep
<1> QED
  BY <1>1, <1>2, Invariance, PTL DEF Spec, ChannelsAreLossyFifos
=============================================================================
