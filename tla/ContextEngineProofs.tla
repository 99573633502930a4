-------------------------- MODULE ContextEngineProofs --------------------------
(***************************************************************************)
(* ContextEngine, for all widgets, rules, profiles, widths and delays.     *)
(*                                                                         *)
(* The debounce: a prominence commits exactly when it was asked for during *)
(* the whole delay, and no later than a tick after it.  The invariant ties *)
(* the time left of a pending change to the time the cascade has asked for *)
(* it: they add up to the delay while time is left, and once none is, at   *)
(* most the time since the last tick has gone by.                          *)
(*                                                                         *)
(* The cascade: what it decides fits the bar, because the widget that is   *)
(* placed last does.                                                       *)
(*                                                                         *)
(* The deltas: the newest message about each topic that is on its way, or  *)
(* else the shell itself, says what was published last.                    *)
(***************************************************************************)
EXTENDS ContextEngine, FoldLemmas

\* A pending change and the time the cascade has asked for it.
OnTime(w) ==
  LET delay == Delay(committed[w], cascade[w]) IN
    /\ pending[w].left + steady[w] >= delay
    /\ pending[w].left > 0 => pending[w].left + steady[w] <= delay
    /\ steady[w] + tickIn <= delay + TickEvery

WInv(w) ==
  /\ pending[w] # None => committed[w] # None /\ OnTime(w)
  /\ committed[w] # None /\ pending[w] = None => committed[w] = cascade[w]

IInv == TypeOK /\ \A w \in Widget : WInv(w)

\* A delay is a number of time units below every bound in use.
LEMMA DelayType ==
  ASSUME NEW p \in Prominence, NEW q \in Prominence
  PROVE  Delay(p, q) \in 0..Activation + Deactivation
BY ContextAssumption DEF Delay

\* While time is left at a tick, the change has been asked for less than the delay.
LEMMA NextTick ==
  ASSUME NEW d \in Nat, NEW s \in Nat, NEW left \in Nat, NEW k \in Nat, NEW n \in Nat, NEW every \in Nat,
         left > 0, left + s <= d, s + k <= d + every, n <= every, n <= k \/ k = 0
  PROVE  s + n <= d + every
OBVIOUS

\* A change that begins to wait.
LEMMA FreshWait ==
  ASSUME NEW d \in Nat, NEW every \in Nat, NEW n \in 0..every
  PROVE  d + 0 >= d /\ d + 0 <= d /\ 0 + n <= d + every
OBVIOUS

\* The invariant holds at first.
THEOREM Initially == Init => IInv
<1> SUFFICES ASSUME Init PROVE IInv
  OBVIOUS
<1>1. TypeOK
  <2>1. 0 \in 0..Longest /\ 0 \in 0..TickEvery
    BY ContextAssumption DEF Longest
  <2> QED
    BY <2>1, ContextAssumption DEF Init, TypeOK
<1>2. \A w \in Widget : WInv(w)
  BY DEF Init, WInv
<1> QED
  BY <1>1, <1>2 DEF IInv

\* One widget under observe(): t is what the cascade asks for now.
LEMMA ObserveWidget ==
  ASSUME IInv, NEW w \in Widget, NEW t \in [Widget -> Prominence], Observe(t), cascade' = t,
         steady' = [v \in Widget |-> IF t[v] = cascade[v] THEN steady[v] ELSE 0],
         tickIn' \in 0..TickEvery,
         tickIn' <= tickIn \/ tickIn = 0
  PROVE  /\ committed'[w] \in Prominence
         /\ pending'[w] \in Transition \cup {None}
         /\ steady'[w] \in 0..Longest
         /\ pending'[w] # None => pending'[w].target = t[w] /\ t[w] # committed'[w]
         /\ WInv(w)'
         /\ committed[w] # None /\ committed'[w] # committed[w] =>
              committed'[w] = cascade[w] /\ steady[w] >= Delay(committed[w], cascade[w])
<1> DEFINE c == committed[w]  p == pending[w]
<1>1. /\ committed'[w] = Commit(w, t)
      /\ pending'[w] = Pend(w, t)
      /\ steady'[w] = IF t[w] = cascade[w] THEN steady[w] ELSE 0
      /\ cascade'[w] = t[w]
  BY DEF Observe
<1>2. /\ t[w] \in Prominence /\ t[w] # None
      /\ c \in Prominence \cup {None}
      /\ cascade[w] \in Prominence
      /\ p \in Transition \cup {None}
      /\ steady[w] \in 0..Longest
      /\ p # None => p.target = cascade[w] /\ cascade[w] # c
      /\ p # None => c # None /\ OnTime(w)
      /\ c # None /\ p = None => c = cascade[w]
      /\ tickIn \in 0..TickEvery
  BY ContextAssumption DEF IInv, TypeOK, WInv
<1>3. steady'[w] \in 0..Longest
  BY <1>1, <1>2, ContextAssumption DEF Longest
<1>4. CASE c = None \/ Ripe(w, t)
  <2>1. committed'[w] = t[w] /\ pending'[w] = None
    BY <1>1, <1>4 DEF Commit, Pend
  <2>2. c # None => t[w] = cascade[w] /\ steady[w] >= Delay(c, cascade[w])
    <3> SUFFICES ASSUME c # None
                 PROVE  t[w] = cascade[w] /\ steady[w] >= Delay(c, cascade[w])
      OBVIOUS
    <3>1. p # None /\ p.left = 0 /\ p.target = t[w]
      BY <1>4 DEF Ripe
    <3>2. p.left + steady[w] >= Delay(c, cascade[w])
      BY <3>1, <1>2 DEF OnTime
    <3> QED
      BY <3>1, <3>2, <1>2
  <2> QED
    BY <2>1, <2>2, <1>1, <1>2, <1>3 DEF WInv
<1>5. CASE c # None /\ ~Ripe(w, t) /\ c = t[w]
  <2>1. committed'[w] = t[w] /\ pending'[w] = None
    BY <1>1, <1>5 DEF Commit, Pend
  <2> QED
    BY <2>1, <1>1, <1>2, <1>3, <1>5 DEF WInv
<1>6. CASE c # None /\ ~Ripe(w, t) /\ c # t[w] /\ p # None /\ p.target = t[w]
  <2>1. committed'[w] = c /\ pending'[w] = p /\ cascade'[w] = cascade[w] /\ steady'[w] = steady[w]
    BY <1>1, <1>2, <1>6 DEF Commit, Pend
  <2>2. p.left \in Nat /\ p.left > 0
    BY <1>2, <1>6 DEF Ripe, Transition
  <2>3. Delay(c, cascade[w]) \in Nat
    BY <1>2, <1>6, DelayType, ContextAssumption
  <2>4. Delay(c, cascade[w])' = Delay(committed'[w], cascade'[w])
    BY DEF Delay
  <2>5. steady[w] + tickIn' <= Delay(c, cascade[w]) + TickEvery
    <3>1. /\ p.left + steady[w] <= Delay(c, cascade[w])
          /\ steady[w] + tickIn <= Delay(c, cascade[w]) + TickEvery
      BY <1>2, <1>6, <2>2 DEF OnTime
    <3>2. steady[w] \in Nat /\ tickIn \in Nat /\ tickIn' \in Nat /\ TickEvery \in Nat /\ tickIn' <= TickEvery
      BY <1>2, ContextAssumption DEF Longest
    <3> QED
      BY <3>1, <3>2, <2>2, <2>3, NextTick
  <2>6. OnTime(w)'
    BY <1>2, <1>6, <2>1, <2>5 DEF OnTime, Delay
  <2> QED
    BY <2>1, <2>6, <1>2, <1>3, <1>6 DEF WInv
<1>7. CASE c # None /\ ~Ripe(w, t) /\ c # t[w] /\ ~(p # None /\ p.target = t[w])
  <2>1. /\ committed'[w] = c
        /\ pending'[w] = [target |-> t[w], left |-> Delay(c, t[w])]
    BY <1>1, <1>7 DEF Commit, Pend
  <2>2. t[w] # cascade[w]
    BY <1>2, <1>7
  <2>3. steady'[w] = 0
    BY <1>1, <2>2
  <2>4. c \in Prominence /\ Delay(c, t[w]) \in 0..Activation + Deactivation
    BY <1>2, <1>7, DelayType
  <2>5. pending'[w] \in Transition
    BY <2>1, <2>4, <1>2 DEF Transition
  <2>6. OnTime(w)'
    <3>1. pending'[w].left = Delay(c, t[w]) /\ Delay(committed'[w], cascade'[w]) = Delay(c, t[w])
      BY <2>1, <1>1
    <3>2. Delay(c, t[w]) \in Nat /\ TickEvery \in Nat
      BY <2>4, ContextAssumption
    <3>3. /\ Delay(c, t[w]) + 0 >= Delay(c, t[w]) /\ Delay(c, t[w]) + 0 <= Delay(c, t[w])
          /\ 0 + tickIn' <= Delay(c, t[w]) + TickEvery
      BY <3>2, FreshWait
    <3>4. Delay(committed[w], cascade[w])' = Delay(c, t[w])
      BY <3>1 DEF Delay
    <3> QED
      BY <3>1, <3>3, <3>4, <2>3 DEF OnTime
  <2> QED
    BY <2>1, <2>5, <2>6, <1>2, <1>3, <1>7, ContextAssumption DEF WInv
<1> QED
  BY <1>4, <1>5, <1>6, <1>7

\* What a handler that recomputes does to the debounce.
LEMMA Resolving ==
  ASSUME IInv, NEW first, ResolveAndPublish(first), active' \in Profile \cup {None},
         profiles' \subseteq Profile, UNCHANGED lost,
         tickIn' \in 0..TickEvery, tickIn' <= tickIn \/ tickIn = 0
  PROVE  /\ IInv'
         /\ \A w \in Widget : committed[w] # None /\ committed'[w] # committed[w] =>
              committed'[w] = cascade[w] /\ steady[w] >= Delay(committed[w], cascade[w])
<1>1. PICK t \in [Widget -> Prominence] :
        /\ cascade' = t
        /\ steady' = [w \in Widget |-> IF t[w] = cascade[w] THEN steady[w] ELSE 0]
        /\ Observe(t)
  BY DEF ResolveAndPublish
<1>2. ASSUME NEW w \in Widget
      PROVE /\ committed'[w] \in Prominence
            /\ pending'[w] \in Transition \cup {None}
            /\ steady'[w] \in 0..Longest
            /\ pending'[w] # None => pending'[w].target = t[w] /\ t[w] # committed'[w]
            /\ WInv(w)'
            /\ committed[w] # None /\ committed'[w] # committed[w] =>
                 committed'[w] = cascade[w] /\ steady[w] >= Delay(committed[w], cascade[w])
  BY <1>1, ObserveWidget
<1>3. /\ committed' = [w \in Widget |-> committed'[w]]
      /\ pending' = [w \in Widget |-> pending'[w]]
      /\ steady' = [w \in Widget |-> steady'[w]]
  BY <1>1 DEF Observe
<1>4. /\ committed' \in [Widget -> Prominence \cup {None}]
      /\ pending' \in [Widget -> Transition \cup {None}]
      /\ steady' \in [Widget -> 0..Longest]
  <2> DEFINE C == committed'  P == pending'  S == steady'
  <2>1. \A w \in Widget : C[w] \in Prominence /\ P[w] \in Transition \cup {None} /\ S[w] \in 0..Longest
    BY <1>2
  <2>2. C = [w \in Widget |-> C[w]] /\ P = [w \in Widget |-> P[w]] /\ S = [w \in Widget |-> S[w]]
    BY <1>3
  <2> HIDE DEF C, P, S
  <2>3. /\ C \in [Widget -> Prominence \cup {None}]
        /\ P \in [Widget -> Transition \cup {None}]
        /\ S \in [Widget -> 0..Longest]
    BY <2>1, <2>2
  <2> QED
    BY <2>3 DEF C, P, S
<1>5. TypeOK'
  BY <1>1, <1>2, <1>4 DEF TypeOK, IInv
<1> QED
  BY <1>2, <1>5 DEF IInv

\* A unit of time takes from the time left what it adds to the time asked for.
LEMMA Waiting ==
  ASSUME IInv, Elapse, NEW w \in Widget
  PROVE  /\ pending'[w] \in Transition \cup {None}
         /\ steady'[w] \in 0..Longest
         /\ pending'[w] # None => pending[w] # None /\ pending'[w].target = pending[w].target
         /\ WInv(w)'
<1> DEFINE p == pending[w]  d == Delay(committed[w], cascade[w])
<1>1. /\ pending'[w] = IF p # None /\ p.left > 0 THEN [p EXCEPT !.left = @ - 1] ELSE p
      /\ steady'[w] = IF steady[w] < Longest THEN steady[w] + 1 ELSE steady[w]
      /\ committed' = committed /\ cascade' = cascade
      /\ tickIn > 0 /\ tickIn' = tickIn - 1
  BY DEF Elapse, debounceVars
<1>2. /\ p \in Transition \cup {None}
      /\ steady[w] \in 0..Longest /\ tickIn \in 0..TickEvery
      /\ Longest \in Nat /\ TickEvery \in Nat /\ Activation \in Nat /\ Deactivation \in Nat
      /\ p # None => committed[w] # None /\ OnTime(w)
      /\ committed[w] # None /\ p = None => committed[w] = cascade[w]
      /\ cascade[w] \in Prominence /\ committed[w] \in Prominence \cup {None}
  BY ContextAssumption DEF IInv, TypeOK, WInv, Longest
<1>3. steady'[w] \in 0..Longest
  BY <1>1, <1>2
<1>4. d' = d
  BY <1>1 DEF Delay
<1>5. CASE p = None
  BY <1>1, <1>2, <1>3, <1>5 DEF WInv
<1>6. CASE p # None
  <2>1. d \in 0..Activation + Deactivation
    BY <1>2, <1>6, DelayType
  <2>2. p.left \in 0..Activation + Deactivation
    BY <1>2, <1>6 DEF Transition
  <2>3. /\ p.left + steady[w] >= d
        /\ p.left > 0 => p.left + steady[w] <= d
        /\ steady[w] + tickIn <= d + TickEvery
    BY <1>2, <1>6 DEF OnTime
  <2>4. d <= Longest - TickEvery
    BY <2>1, <1>2 DEF Longest
  <2>5. CASE p.left > 0
    <3>1. pending'[w] = [target |-> p.target, left |-> p.left - 1]
      BY <1>1, <1>2, <1>6, <2>5 DEF Transition
    <3>2. pending'[w] \in Transition /\ pending'[w].left = p.left - 1 /\ pending'[w].target = p.target
      BY <3>1, <1>2, <1>6, <2>2, <2>5 DEF Transition
    <3>3. steady[w] < Longest /\ steady'[w] = steady[w] + 1
      BY <1>1, <1>2, <2>1, <2>2, <2>3, <2>4, <2>5, ContextAssumption
    <3>4. /\ (p.left - 1) + (steady[w] + 1) >= d
          /\ (p.left - 1) + (steady[w] + 1) <= d
          /\ (steady[w] + 1) + (tickIn - 1) <= d + TickEvery
      BY <1>2, <2>1, <2>2, <2>3, <2>5
    <3>5. OnTime(w)'
      BY <3>2, <3>3, <3>4, <1>1, <1>4 DEF OnTime
    <3> QED
      BY <3>2, <3>5, <1>1, <1>2, <1>3, <1>6, ContextAssumption DEF WInv
  <2>6. CASE p.left = 0
    <3>1. pending'[w] = p
      BY <1>1, <2>6
    <3>2. /\ steady'[w] >= steady[w]
          /\ steady'[w] + (tickIn - 1) <= d + TickEvery
      BY <1>1, <1>2, <2>1, <2>3
    <3>3. 0 + steady'[w] >= d
      BY <3>2, <1>2, <1>3, <2>1, <2>3, <2>6
    <3>4. OnTime(w)'
      BY <3>1, <3>2, <3>3, <1>1, <1>4, <2>6 DEF OnTime
    <3> QED
      BY <3>1, <3>4, <1>1, <1>2, <1>3, <1>6 DEF WInv
  <2> QED
    BY <2>2, <2>5, <2>6
<1> QED
  BY <1>5, <1>6

\* The same for all widgets.
LEMMA Elapsing ==
  ASSUME IInv, Elapse
  PROVE  IInv'
<1>1. /\ pending' = [w \in Widget |-> pending'[w]]
      /\ steady' = [w \in Widget |-> steady'[w]]
      /\ UNCHANGED <<active, profiles, cascade, committed, lost>>
      /\ tickIn' = tickIn - 1 /\ tickIn > 0
  BY DEF Elapse, inputVars, wireVars
<1>2. \A w \in Widget : pending'[w] \in Transition \cup {None} /\ steady'[w] \in 0..Longest
  BY Waiting
<1>3. /\ pending' \in [Widget -> Transition \cup {None}]
      /\ steady' \in [Widget -> 0..Longest]
  <2> DEFINE P == pending'  S == steady'
  <2>1. /\ \A w \in Widget : P[w] \in Transition \cup {None} /\ S[w] \in 0..Longest
        /\ P = [w \in Widget |-> P[w]] /\ S = [w \in Widget |-> S[w]]
    BY <1>1, <1>2
  <2> HIDE DEF P, S
  <2>2. P \in [Widget -> Transition \cup {None}] /\ S \in [Widget -> 0..Longest]
    BY <2>1
  <2> QED
    BY <2>2 DEF P, S
<1>4. tickIn' \in 0..TickEvery
  BY <1>1, ContextAssumption DEF IInv, TypeOK
<1>5. \A w \in Widget : pending'[w] # None =>
        pending'[w].target = cascade'[w] /\ cascade'[w] # committed'[w]
  BY <1>1, Waiting DEF IInv, TypeOK
<1>6. TypeOK'
  BY <1>1, <1>3, <1>4, <1>5 DEF IInv, TypeOK
<1> QED
  BY <1>6, Waiting DEF IInv

\* No step commits what was not asked for during the whole delay.
Honest ==
  \A w \in Widget : committed[w] # None /\ committed'[w] # committed[w] =>
    committed'[w] = cascade[w] /\ steady[w] >= Delay(committed[w], cascade[w])

\* Steps that leave the debounce and the inputs' types alone.
LEMMA Untouched ==
  ASSUME IInv, UNCHANGED <<debounceVars, tickIn>>, active' \in Profile \cup {None},
         profiles' \subseteq Profile, lost' \in BOOLEAN
  PROVE  IInv' /\ Honest
<1>1. UNCHANGED <<cascade, committed, pending, steady, tickIn>>
  BY DEF debounceVars
<1> QED
  BY <1>1 DEF IInv, TypeOK, WInv, OnTime, Delay, Honest

\* Every step of the module keeps the invariant and commits honestly.
LEMMA Step == IInv /\ [Next]_vars => IInv' /\ Honest
<1> SUFFICES ASSUME IInv, [Next]_vars PROVE IInv' /\ Honest
  OBVIOUS
<1>a. /\ active \in Profile \cup {None} /\ profiles \subseteq Profile /\ lost \in BOOLEAN
      /\ tickIn \in 0..TickEvery /\ 0 \in 0..TickEvery /\ TickEvery \in 0..TickEvery
      /\ tickIn <= tickIn /\ 0 <= tickIn
  BY ContextAssumption DEF IInv, TypeOK
<1>1. CASE Start
  BY <1>1, <1>a, Resolving DEF Start, Honest, inputVars, wireVars
<1>2. CASE Tick
  BY <1>2, <1>a, Resolving DEF Tick, Honest, inputVars, wireVars
<1>3. CASE Elapse
  <2>1. committed' = committed
    BY <1>3 DEF Elapse
  <2> QED
    BY <1>3, <2>1, Elapsing DEF Honest
<1>4. ASSUME NEW e \in Event, SetSignal(e) PROVE IInv' /\ Honest
  BY <1>4, <1>a, Resolving DEF SetSignal, Handle, Honest, wireVars
<1>5. ASSUME NEW d \in Dial, TurnDial(d) PROVE IInv' /\ Honest
  <2>1. PICK v : ResolveAndPublish({DialMsg(d, v)}) /\ UNCHANGED <<profiles, active>>
    BY <1>5 DEF TurnDial
  <2> QED
    BY <2>1, <1>5, <1>a, Resolving DEF TurnDial, Handle, Honest, wireVars
<1>6. CASE ActOnProfile
  <2>1. active' \in Profile \cup {None}
    BY <1>6, <1>a DEF ActOnProfile, NextProfile
  <2> QED
    BY <2>1, <1>6, <1>a, Resolving DEF ActOnProfile, Handle, Honest, wireVars
<1>7. CASE ReloadProfiles
  BY <1>7, <1>a, Untouched DEF ReloadProfiles, wireVars
<1>8. ASSUME NEW m \in outbox, Send(m) PROVE IInv' /\ Honest
  <2>1. lost' \in BOOLEAN /\ UNCHANGED <<debounceVars, tickIn, active, profiles>>
    BY <1>8, <1>a DEF Send, inputVars
  <2> QED
    BY <2>1, <1>a, Untouched
<1>9. CASE Write
  BY <1>9, <1>a, Untouched DEF Write, inputVars
<1>10. CASE UNCHANGED vars
  BY <1>10, <1>a, Untouched DEF vars, inputVars, wireVars
<1> QED
  BY <1>1, <1>2, <1>3, <1>4, <1>5, <1>6, <1>7, <1>8, <1>9, <1>10 DEF Next

\* It holds throughout.
THEOREM Invariance == Spec => []IInv
<1>1. IInv /\ [Next]_vars => IInv'
  BY Step
<1> QED
  BY Initially, <1>1, PTL DEF Spec

\* The variables of the context engine keep their types.
THEOREM TypeCorrect == Spec => []TypeOK
<1>1. IInv => TypeOK
  BY DEF IInv
<1> QED
  BY <1>1, Invariance, PTL

\* A prominence changes only to what the cascade has asked for, at every look,
\* for the whole of the delay (Hysteresis::observe).
THEOREM CommitsAreHeld == Spec => HeldSteady
<1>1. IInv /\ [Next]_vars =>
        [\A w \in Widget : committed[w] # None /\ committed'[w] # committed[w] =>
           /\ committed'[w] = cascade[w]
           /\ steady[w] >= Delay(committed[w], cascade[w])]_vars
  BY Step DEF Honest
<1> QED
  BY <1>1, Invariance, PTL DEF Spec, HeldSteady

\* And it does change to it, at the latest with the first tick after the delay.
THEOREM CommitsArePrompt == Spec => []CommitsInTime
<1>1. IInv => CommitsInTime
  <2> SUFFICES ASSUME IInv, NEW w \in Widget, committed[w] \notin {None, cascade[w]}
               PROVE  steady[w] <= Delay(committed[w], cascade[w]) + TickEvery
    BY DEF CommitsInTime
  <2>1. OnTime(w)
    BY DEF IInv, WInv
  <2>2. Delay(committed[w], cascade[w]) \in Nat /\ steady[w] \in Nat /\ tickIn \in Nat
    BY DelayType, ContextAssumption DEF IInv, TypeOK, Longest
  <2> QED
    BY <2>1, <2>2, ContextAssumption DEF OnTime
<1> QED
  BY <1>1, Invariance, PTL

-----------------------------------------------------------------------------
(* The room on the bar. *)

\* What the widgets of a layout take, each with a gap behind it, and without.
Spaced(t) == [v \in Widget |-> Width[t[v]] + Gap]
Bare(t) == [v \in Widget |-> Width[t[v]]]

\* Fits() and Extent() are totals.
LEMMA FitsTotal ==
  ASSUME NEW t \in [Widget -> Prominence], NEW w \in Widget, NEW p \in Prominence, Fits(t, w, p)
  PROVE  Total(Spaced(t), Width[p], Before(t, w)) <= available
<1> DEFINE S == Before(t, w)
           b == Width[p]
           G == CHOOSE g : g = [s \in SUBSET S |->
                  IF s = {} THEN b ELSE LET x == CHOOSE x \in s : TRUE IN Width[t[x]] + Gap + g[s \ {x}]]
<1>1. G[S] <= available
  BY DEF Fits, FoldSet, MapThenFoldSet
<1>2. S \subseteq Widget /\ IsFiniteSet(S)
  BY ContextAssumption, FS_Subset DEF Before, Layout
<1>3. IsSum(G, Spaced(t), b, S)
  <2>0. PICK h : IsSum(h, Spaced(t), b, S)
    BY <1>2, SumExists
  <2> HIDE DEF S, b
  <2>1. \A s \in SUBSET S : s # {} => Spaced(t)[CHOOSE x \in s : TRUE] = Width[t[CHOOSE x \in s : TRUE]] + Gap
    BY <1>2 DEF Spaced
  <2>2. h = [s \in SUBSET S |-> IF s = {} THEN b ELSE LET x == CHOOSE x \in s : TRUE IN Width[t[x]] + Gap + h[s \ {x}]]
    BY <2>0, <2>1 DEF IsSum
  <2>3. G = [s \in SUBSET S |-> IF s = {} THEN b ELSE LET x == CHOOSE x \in s : TRUE IN Width[t[x]] + Gap + G[s \ {x}]]
    BY <2>2
  <2> HIDE DEF G
  <2> QED
    BY <2>1, <2>3 DEF IsSum
<1> HIDE DEF G, S, b
<1>4. G[S] = Total(Spaced(t), b, S)
  BY <1>2, <1>3, TotalIs
<1> QED
  BY <1>1, <1>4 DEF S, b

Span(t) == Total(Bare(t), Gap * (Cardinality(Layout(t)) - 1), Layout(t))

\* The width of a layout is that sum: its bare widgets and the gaps between them.
LEMMA ExtentTotal ==
  ASSUME NEW t \in [Widget -> Prominence]
  PROVE  Extent(t) = Span(t)
<1> DEFINE S == Layout(t)
           b == Gap * (Cardinality(Layout(t)) - 1)
           G == CHOOSE g : g = [s \in SUBSET S |->
                  IF s = {} THEN b ELSE LET x == CHOOSE x \in s : TRUE IN Width[t[x]] + g[s \ {x}]]
<1>1. Extent(t) = G[S]
  BY DEF Extent, FoldSet, MapThenFoldSet
<1>2. S \subseteq Widget /\ IsFiniteSet(S)
  BY ContextAssumption, FS_Subset DEF Layout
<1>3. IsSum(G, Bare(t), b, S)
  <2>0. PICK h : IsSum(h, Bare(t), b, S)
    BY <1>2, SumExists
  <2> HIDE DEF S, b
  <2>1. \A s \in SUBSET S : s # {} => Bare(t)[CHOOSE x \in s : TRUE] = Width[t[CHOOSE x \in s : TRUE]]
    BY <1>2 DEF Bare
  <2>2. h = [s \in SUBSET S |-> IF s = {} THEN b ELSE LET x == CHOOSE x \in s : TRUE IN Width[t[x]] + h[s \ {x}]]
    BY <2>0, <2>1 DEF IsSum
  <2>3. G = [s \in SUBSET S |-> IF s = {} THEN b ELSE LET x == CHOOSE x \in s : TRUE IN Width[t[x]] + G[s \ {x}]]
    BY <2>2
  <2> HIDE DEF G
  <2> QED
    BY <2>1, <2>3 DEF IsSum
<1> HIDE DEF G, S, b
<1>4. G[S] = Total(Bare(t), b, S)
  BY <1>2, <1>3, TotalIs
<1> QED
  BY <1>1, <1>4 DEF S, b, Span

\* The widget of a layout that is given its place last.
LEMMA LastPlaced ==
  ASSUME NEW t \in [Widget -> Prominence], Layout(t) # {}
  PROVE  \E w \in Layout(t) : Before(t, w) = Layout(t) \ {w}
<1> DEFINE T == {Priority[v] : v \in Layout(t)}
<1>1. ASSUME NEW v \in Layout(t) PROVE v \in Widget /\ Priority[v] \in Nat
  <2>1. v \in Widget
    BY DEF Layout
  <2> QED
    BY <2>1, ContextAssumption
<1>2. PICK n \in T : \A m \in T : n <= m
  <2>1. T \in SUBSET Nat /\ T # {}
    BY <1>1
  <2> HIDE DEF T
  <2> QED
    BY <2>1, LeastNumber
<1>3. PICK w \in Layout(t) : n = Priority[w]
  OBVIOUS
<1>4. ASSUME NEW v \in Layout(t), v # w PROVE Priority[v] > Priority[w]
  <2>1. Priority[v] \in T
    OBVIOUS
  <2>2. Priority[w] <= Priority[v]
    BY <1>2, <1>3, <2>1
  <2>3. Priority[v] # Priority[w]
    BY <1>1, <1>4, ContextAssumption
  <2> QED
    BY <1>1, <2>2, <2>3
<1>5. ~(Priority[w] > Priority[w])
  BY <1>1
<1> QED
  BY <1>4, <1>5 DEF Before

\* If each widget fits behind those before it, then they all fit.
LEMMA AllFit ==
  ASSUME NEW t \in [Widget -> Prominence], \A w \in Widget : t[w] # Hidden => Fits(t, w, t[w])
  PROVE  Layout(t) = {} \/ Span(t) <= available
<1> SUFFICES ASSUME Layout(t) # {} PROVE Span(t) <= available
  OBVIOUS
<1>1. PICK w \in Layout(t) : Before(t, w) = Layout(t) \ {w}
  BY LastPlaced
<1>2. PICK L, R : L = Layout(t) /\ R = L \ {w}
  OBVIOUS
<1>3. w \in Widget /\ L \subseteq Widget /\ R \subseteq Widget /\ t[w] # Hidden /\ w \in L
  BY <1>2 DEF Layout
<1>4. PICK a \in Nat : a = Width[t[w]]
  BY <1>3, ContextAssumption
<1>5. /\ IsFiniteSet(L) /\ IsFiniteSet(R)
      /\ Cardinality(R) = Cardinality(L) - 1 /\ Cardinality(R) \in Nat /\ Cardinality(L) \in Nat
  BY <1>2, <1>3, ContextAssumption, FS_Subset, FS_RemoveElement, FS_CardinalityType
<1>6. \A v \in Widget : Bare(t)[v] \in Nat /\ Spaced(t)[v] = Bare(t)[v] + Gap
  BY ContextAssumption DEF Bare, Spaced
<1>7. Total(Spaced(t), a, R) <= available
  BY <1>1, <1>2, <1>3, <1>4, FitsTotal
<1>8. Total(Spaced(t), a, R) = Total(Bare(t), a, R) + Gap * Cardinality(R)
  <2>1. \A v \in R : Bare(t)[v] \in Int /\ Spaced(t)[v] = Bare(t)[v] + Gap
    BY <1>3, <1>6
  <2>2. a \in Int /\ Gap \in Int
    BY ContextAssumption
  <2> QED
    BY <1>5, <2>1, <2>2, TotalPlus
<1>9. PICK g \in Int : g = Gap * (Cardinality(L) - 1) /\ g = Gap * Cardinality(R)
  BY <1>5, ContextAssumption
<1>10. Span(t) = Bare(t)[w] + Total(Bare(t), g, R)
  <2>1. \A v \in L : Bare(t)[v] \in Int
    BY <1>3, <1>6
  <2>2. Total(Bare(t), g, L) = Bare(t)[w] + Total(Bare(t), g, L \ {w})
    BY <1>3, <1>5, <2>1, TotalSplit
  <2> QED
    BY <1>2, <1>9, <2>2 DEF Span
<1>11. /\ Total(Bare(t), a, R) = Total(Bare(t), 0, R) + a
       /\ Total(Bare(t), g, R) = Total(Bare(t), 0, R) + g
       /\ Total(Bare(t), 0, R) \in Int
  <2>1. \A v \in R : Bare(t)[v] \in Int
    BY <1>3, <1>6
  <2>2. 0 + a = a /\ 0 + g = g /\ 0 \in Int /\ a \in Int
    OBVIOUS
  <2>3. Total(Bare(t), 0 + a, R) = Total(Bare(t), 0, R) + a
    BY <1>5, <2>1, <2>2, TotalBase
  <2>4. Total(Bare(t), 0 + g, R) = Total(Bare(t), 0, R) + g
    BY <1>5, <2>1, <2>2, TotalBase
  <2>5. Total(Bare(t), 0, R) \in Int
    BY <1>5, <2>1, <2>2, TotalInt
  <2> QED
    BY <2>2, <2>3, <2>4, <2>5
<1>12. Bare(t)[w] = a
  BY <1>3, <1>4 DEF Bare
<1> QED
  BY <1>7, <1>8, <1>9, <1>10, <1>11, <1>12

\* What was committed and published, and what the cascade decided, hang together
\* from the first look on.
SettledInv ==
  /\ available \in Widths
  /\ last \in Publication \cup {None}
  /\ Started =>
       /\ last.prominence = committed /\ last.layout = Layout(cascade)
       /\ \A w \in Widget : committed[w] # None
       /\ Layout(cascade) = {} \/ Span(cascade) <= available

\* What a handler that recomputes publishes.
LEMMA Publishing ==
  ASSUME IInv, NEW first, ResolveAndPublish(first), tickIn' \in 0..TickEvery, tickIn' <= tickIn \/ tickIn = 0
  PROVE  \E t \in [Widget -> Prominence], c \in [Widget -> Prominence] :
           /\ cascade' = t /\ committed' = c
           /\ last' = [layout |-> Layout(t), prominence |-> c]
           /\ last' \in Publication /\ Started'
           /\ outbox' = first \cup Deltas(t, c)
           /\ Layout(t) = {} \/ Span(t) <= available
<1>1. PICK t \in [Widget -> Prominence] :
        /\ Resolved(t, signals', IF active' \in profiles' THEN Override[active'] ELSE <<>>)
        /\ cascade' = t
        /\ steady' = [w \in Widget |-> IF t[w] = cascade[w] THEN steady[w] ELSE 0]
        /\ Observe(t)
        /\ outbox' = first \cup Deltas(t, committed')
        /\ last' = [layout |-> Layout(t), prominence |-> committed']
  BY DEF ResolveAndPublish
<1>2. PICK c : c = committed'
  OBVIOUS
<1>3. c \in [Widget -> Prominence]
  <2>1. \A w \in Widget : c[w] \in Prominence
    BY <1>1, <1>2, ObserveWidget
  <2>2. c = [w \in Widget |-> c[w]]
    BY <1>1, <1>2 DEF Observe
  <2> QED
    BY <2>1, <2>2
<1>4. Layout(t) = {} \/ Span(t) <= available
  <2>1. \A w \in Widget : t[w] # Hidden => Fits(t, w, t[w])
    BY <1>1 DEF Resolved
  <2> QED
    BY <2>1, AllFit
<1>5. last' \in Publication /\ Started'
  <2>1. Layout(t) \in SUBSET Widget
    BY DEF Layout
  <2>2. last' \in Publication
    BY <1>1, <1>2, <1>3, <2>1 DEF Publication
  <2> QED
    BY <2>2, ContextAssumption DEF Started
<1> QED
  BY <1>1, <1>2, <1>3, <1>4, <1>5

\* So it keeps them together.
LEMMA PublishingSettles ==
  ASSUME IInv, SettledInv, NEW first, ResolveAndPublish(first), UNCHANGED available,
         tickIn' \in 0..TickEvery, tickIn' <= tickIn \/ tickIn = 0
  PROVE  SettledInv'
<1>1. PICK t \in [Widget -> Prominence], c \in [Widget -> Prominence] :
        /\ cascade' = t /\ committed' = c
        /\ last' = [layout |-> Layout(t), prominence |-> c]
        /\ last' \in Publication
        /\ Layout(t) = {} \/ Span(t) <= available
  BY Publishing
<1>2. \A w \in Widget : c[w] # None
  BY ContextAssumption
<1>3. last'.prominence = committed' /\ last'.layout = Layout(cascade')
  BY <1>1
<1>4. Layout(cascade') = {} \/ Span(cascade') <= available'
  BY <1>1
<1>5. available' \in Widths
  BY DEF SettledInv
<1> QED
  BY <1>1, <1>2, <1>3, <1>4, <1>5 DEF SettledInv, Layout, Span, Bare

\* Every step keeps them together.
LEMMA SettledStep == IInv /\ SettledInv /\ [Next]_vars => SettledInv'
<1> SUFFICES ASSUME IInv, SettledInv, [Next]_vars PROVE SettledInv'
  OBVIOUS
<1>a. /\ tickIn \in 0..TickEvery /\ 0 \in 0..TickEvery /\ TickEvery \in 0..TickEvery
      /\ tickIn <= tickIn /\ 0 <= tickIn
  BY ContextAssumption DEF IInv, TypeOK
<1>b. UNCHANGED <<cascade, committed, last, available>> => SettledInv'
  BY DEF SettledInv, Started, Layout, Span, Bare
<1>1. CASE Start
  BY <1>1, <1>a, PublishingSettles DEF Start, inputVars
<1>2. CASE Tick
  BY <1>2, <1>a, PublishingSettles DEF Tick, inputVars
<1>3. ASSUME NEW e \in Event, SetSignal(e) PROVE SettledInv'
  BY <1>3, <1>a, PublishingSettles DEF SetSignal, Handle
<1>4. ASSUME NEW d \in Dial, TurnDial(d) PROVE SettledInv'
  <2>1. PICK v : ResolveAndPublish({DialMsg(d, v)})
    BY <1>4 DEF TurnDial
  <2> QED
    BY <2>1, <1>4, <1>a, PublishingSettles DEF TurnDial, Handle
<1>5. CASE ActOnProfile
  BY <1>5, <1>a, PublishingSettles DEF ActOnProfile, Handle
<1>6. CASE Elapse
  BY <1>6, <1>b DEF Elapse, inputVars
<1>7. CASE ReloadProfiles
  BY <1>7, <1>b DEF ReloadProfiles, debounceVars
<1>8. ASSUME NEW m \in outbox, Send(m) PROVE SettledInv'
  BY <1>8, <1>b DEF Send, inputVars, debounceVars
<1>9. CASE Write
  BY <1>9, <1>b DEF Write, inputVars, debounceVars
<1>10. CASE UNCHANGED vars
  BY <1>10, <1>b DEF vars, inputVars, debounceVars
<1> QED
  BY <1>1, <1>2, <1>3, <1>4, <1>5, <1>6, <1>7, <1>8, <1>9, <1>10 DEF Next

\* The settling of the layout is kept by every step of the engine.
LEMMA SettledThroughout == Spec => []SettledInv
<1>1. Init => SettledInv
  BY DEF Init, SettledInv, Started
<1> QED
  BY <1>1, Invariance, SettledStep, PTL DEF Spec

\* What the cascade decides fits the bar, and so does what was committed once
\* nothing is pending (resolve_layout and Hysteresis::observe together).
THEOREM SettledBarFits == Spec => []SettledFits
<1>1. IInv /\ SettledInv => SettledFits
  <2> SUFFICES ASSUME IInv, SettledInv, Started PROVE SettledFits
    BY DEF SettledFits
  <2>1. cascade \in [Widget -> Prominence] /\ committed \in [Widget -> Prominence \cup {None}]
    BY DEF IInv, TypeOK
  <2>2. Layout(cascade) = {} \/ Extent(cascade) <= available
    BY <2>1, ExtentTotal DEF SettledInv
  <2>3. ASSUME \A w \in Widget : pending[w] = None PROVE committed = cascade
    <3>1. \A w \in Widget : committed[w] = cascade[w]
      BY <2>3 DEF IInv, WInv, SettledInv
    <3> QED
      BY <2>1, <3>1
  <2> QED
    BY <2>2, <2>3 DEF SettledFits, SettledInv
<1> QED
  BY <1>1, Invariance, SettledThroughout, PTL

-----------------------------------------------------------------------------
(* The deltas to the shell. *)

Position == UNION {Positions(d) : d \in Dial}

\* What the shell and the messages to it are about.
Topic ==
  [kind : {"layout"}] \cup [kind : {"visibility"}, widget : Widget] \cup [kind : {"dial"}, dial : Dial]

Message ==
  [kind : {"layout"}, widgets : SUBSET Widget]
  \cup [kind : {"visibility"}, widget : Widget, prominence : Prominence]
  \cup [kind : {"dial"}, dial : Dial, position : Position]

About(m, k) ==
  /\ m.kind = k.kind
  /\ k.kind = "visibility" => m.widget = k.widget
  /\ k.kind = "dial" => m.dial = k.dial

\* The message about k that is true.
Goal(k) ==
  CASE k.kind = "layout" -> [kind |-> "layout", widgets |-> last.layout]
    [] k.kind = "visibility" -> VisibilityMsg(k.widget, last.prominence[k.widget])
    [] k.kind = "dial" -> DialMsg(k.dial, dials[k.dial])

\* The message about k that would leave the shell as it is.
Told(k) ==
  CASE k.kind = "layout" -> [kind |-> "layout", widgets |-> shell.layout]
    [] k.kind = "visibility" -> VisibilityMsg(k.widget, shell.prominence[k.widget])
    [] k.kind = "dial" -> DialMsg(k.dial, shell.dials[k.dial])

\* Nothing about k in q after position i.
SilentAfter(q, i, k) == \A j \in i + 1 .. Len(q) : ~About(q[j], k)

\* The truth about k is still to be sent, or is the last word on k of the queue,
\* or is what the shell shows.
Newest(q, g, told, k) ==
  \/ \E i \in 1 .. Len(q) : q[i] = g /\ SilentAfter(q, i, k)
  \/ told = g /\ SilentAfter(q, 0, k)
WillKnow(k) == Goal(k) \in outbox \/ Newest(queue, Goal(k), Told(k), k)

WireTypes ==
  /\ dials \in [Dial -> Position]
  /\ outbox \subseteq Message /\ queue \in Seq(Message)
  /\ shell \in [layout : (SUBSET Widget) \cup {None}, prominence : [Widget -> Prominence \cup {None}],
                dials : [Dial -> Position]]

AgreeInv ==
  /\ ~Started => outbox = {} /\ queue = <<>> /\ shell.dials = dials
  /\ Started /\ ~lost => \A k \in Topic : WillKnow(k) /\ \A m \in outbox : About(m, k) => m = Goal(k)

\* The three kinds of topic.
LEMMA TopicForm ==
  ASSUME NEW k \in Topic
  PROVE  \/ k.kind = "layout"
         \/ k.kind = "visibility" /\ k.widget \in Widget
         \/ k.kind = "dial" /\ k.dial \in Dial
BY DEF Topic

\* The three kinds of message, each as the code builds it.
LEMMA MessageForm ==
  ASSUME NEW m \in Message
  PROVE  \/ m.kind = "layout" /\ m.widgets \in SUBSET Widget /\ m = [kind |-> "layout", widgets |-> m.widgets]
         \/ /\ m.kind = "visibility" /\ m.widget \in Widget /\ m.prominence \in Prominence
            /\ m = VisibilityMsg(m.widget, m.prominence)
         \/ /\ m.kind = "dial" /\ m.dial \in Dial /\ m.position \in Position
            /\ m = DialMsg(m.dial, m.position)
BY DEF Message, VisibilityMsg, DialMsg

\* What is true about k is about k.
LEMMA GoalAbout ==
  ASSUME NEW k \in Topic
  PROVE  About(Goal(k), k)
<1>1. CASE k.kind = "layout"
  BY <1>1 DEF About, Goal
<1>2. CASE k.kind = "visibility"
  BY <1>2 DEF About, Goal, VisibilityMsg
<1>3. CASE k.kind = "dial"
  BY <1>3 DEF About, Goal, DialMsg
<1> QED
  BY <1>1, <1>2, <1>3, TopicForm

\* The newest word on k, when a message joins the queue.
LEMMA NewestSent ==
  ASSUME NEW q \in Seq(Message), NEW m \in Message, NEW k, NEW g, NEW told,
         m = g \/ (~About(m, k) /\ Newest(q, g, told, k))
  PROVE  Newest(Append(q, m), g, told, k)
<1>1. PICK c : c = Append(q, m)
  OBVIOUS
<1>2. /\ Len(c) = Len(q) + 1 /\ Len(q) \in Nat /\ c[Len(c)] = m
      /\ \A i \in 1 .. Len(q) : c[i] = q[i]
  BY <1>1, AppendProperties
<1>3. CASE m = g
  <2>1. SilentAfter(c, Len(c), k)
    BY <1>2 DEF SilentAfter
  <2>2. Len(c) \in 1 .. Len(c) /\ c[Len(c)] = g
    BY <1>2, <1>3
  <2> QED
    BY <1>1, <2>1, <2>2 DEF Newest
<1>4. CASE ~About(m, k) /\ Newest(q, g, told, k)
  <2>1. ASSUME NEW i \in 0 .. Len(q), SilentAfter(q, i, k) PROVE SilentAfter(c, i, k)
    <3> SUFFICES ASSUME NEW j \in i + 1 .. Len(c) PROVE ~About(c[j], k)
      BY DEF SilentAfter
    <3>1. CASE j = Len(c)
      BY <1>2, <1>4, <3>1
    <3>2. CASE j # Len(c)
      <4>1. j \in i + 1 .. Len(q) /\ j \in 1 .. Len(q)
        BY <1>2, <3>2
      <4> QED
        BY <1>2, <2>1, <4>1 DEF SilentAfter
    <3> QED
      BY <3>1, <3>2
  <2>2. ASSUME NEW i \in 1 .. Len(q), q[i] = g, SilentAfter(q, i, k) PROVE Newest(c, g, told, k)
    <3>1. i \in 1 .. Len(c) /\ c[i] = g /\ SilentAfter(c, i, k)
      BY <1>2, <2>1, <2>2
    <3> QED
      BY <3>1 DEF Newest
  <2>3. ASSUME told = g, SilentAfter(q, 0, k) PROVE Newest(c, g, told, k)
    <3>1. SilentAfter(c, 0, k)
      BY <1>2, <2>1, <2>3
    <3> QED
      BY <2>3, <3>1 DEF Newest
  <2> QED
    BY <1>1, <1>4, <2>2, <2>3 DEF Newest
<1> QED
  BY <1>3, <1>4

\* And when the first of the queue is read.
LEMMA NewestRead ==
  ASSUME NEW q \in Seq(Message), q # <<>>, NEW k, NEW g, NEW told, NEW now, About(g, k), Newest(q, g, told, k),
         About(Head(q), k) => now = Head(q), ~About(Head(q), k) => now = told
  PROVE  Newest(Tail(q), g, now, k)
<1>1. PICK c : c = Tail(q)
  OBVIOUS
<1>2. /\ Len(q) \in Nat /\ Len(q) >= 1 /\ Len(c) = Len(q) - 1 /\ Head(q) = q[1]
      /\ \A i \in 1 .. Len(c) : c[i] = q[i + 1]
  BY <1>1, HeadTailProperties, EmptySeq
<1>3. ASSUME NEW i \in 1 .. Len(q), SilentAfter(q, i, k) PROVE SilentAfter(c, i - 1, k)
  <2> SUFFICES ASSUME NEW j \in i .. Len(c) PROVE ~About(c[j], k)
    BY <1>2 DEF SilentAfter
  <2>1. j \in 1 .. Len(c) /\ j + 1 \in i + 1 .. Len(q)
    BY <1>2
  <2> QED
    BY <1>2, <1>3, <2>1 DEF SilentAfter
<1>4. CASE told = g /\ SilentAfter(q, 0, k)
  <2>1. ~About(Head(q), k) /\ SilentAfter(q, 1, k)
    BY <1>2, <1>4 DEF SilentAfter
  <2>2. SilentAfter(c, 0, k)
    BY <1>2, <1>3, <2>1
  <2> QED
    BY <1>1, <1>4, <2>1, <2>2 DEF Newest
<1>5. ASSUME NEW i \in 1 .. Len(q), q[i] = g, SilentAfter(q, i, k) PROVE Newest(c, g, now, k)
  <2>1. CASE i = 1
    <3>1. SilentAfter(c, 0, k)
      BY <1>2, <1>3, <1>5, <2>1
    <3>2. About(Head(q), k)
      BY <1>2, <1>5, <2>1
    <3> QED
      BY <1>2, <1>5, <2>1, <3>1, <3>2 DEF Newest
  <2>2. CASE i # 1
    <3>1. i - 1 \in 1 .. Len(c) /\ c[i - 1] = g /\ SilentAfter(c, i - 1, k)
      BY <1>2, <1>3, <1>5, <2>2
    <3> QED
      BY <3>1 DEF Newest
  <2> QED
    BY <2>1, <2>2
<1> QED
  BY <1>1, <1>4, <1>5 DEF Newest

\* A handler that recomputes sends what has become true, and nothing else.
LEMMA ResolvingTells ==
  ASSUME IInv, WireTypes, AgreeInv, Idle, NEW first, first \subseteq Message, ResolveAndPublish(first),
         tickIn' \in 0..TickEvery, tickIn' <= tickIn \/ tickIn = 0, UNCHANGED wireVars,
         dials' \in [Dial -> Position],
         \A m \in first : \E d \in Dial : m = DialMsg(d, dials'[d]),
         \A d \in Dial : dials'[d] = dials[d] \/ DialMsg(d, dials'[d]) \in first
  PROVE  WireTypes' /\ AgreeInv'
<1>1. PICK t \in [Widget -> Prominence], c \in [Widget -> Prominence] :
        /\ last' = [layout |-> Layout(t), prominence |-> c]
        /\ Started'
        /\ outbox' = first \cup Deltas(t, c)
  BY Publishing
<1>2. ASSUME NEW m \in Deltas(t, c)
      PROVE  m = LayoutMsg(t) \/ \E w \in Widget : m = VisibilityMsg(w, c[w])
  BY DEF Deltas
<1>3. outbox' \subseteq Message
  <2>1. LayoutMsg(t) \in Message
    BY DEF LayoutMsg, Layout, Message
  <2>2. \A w \in Widget : VisibilityMsg(w, c[w]) \in Message
    BY DEF VisibilityMsg, Message
  <2> QED
    BY <1>1, <1>2, <2>1, <2>2
<1>4. WireTypes'
  BY <1>3 DEF WireTypes, wireVars
<1>5. /\ last'.layout = Layout(t) /\ last'.prominence = c
      /\ queue' = queue /\ shell' = shell /\ lost' = lost /\ outbox = {}
  BY <1>1 DEF wireVars, Idle
<1>6. ASSUME NEW k \in Topic
      PROVE  Goal(k)' = IF k.kind = "layout" THEN LayoutMsg(t)
                        ELSE IF k.kind = "visibility" THEN VisibilityMsg(k.widget, c[k.widget])
                        ELSE DialMsg(k.dial, dials'[k.dial])
  <2>1. CASE k.kind = "layout"
    BY <1>5, <2>1 DEF Goal, LayoutMsg
  <2>2. CASE k.kind = "visibility"
    BY <1>5, <2>2 DEF Goal, VisibilityMsg
  <2>3. CASE k.kind = "dial"
    BY <1>5, <2>3 DEF Goal, DialMsg
  <2> QED
    BY <2>1, <2>2, <2>3, TopicForm
<1>7. ASSUME NEW k \in Topic, NEW m \in outbox', About(m, k) PROVE m = Goal(k)'
  <2>1. CASE m \in first
    <3>1. PICK d \in Dial : m = DialMsg(d, dials'[d])
      BY <2>1
    <3>2. k.kind = "dial" /\ k.dial = d
      BY <1>7, <3>1 DEF About, DialMsg
    <3> QED
      BY <1>6, <3>1, <3>2
  <2>2. CASE m = LayoutMsg(t)
    <3>1. k.kind = "layout"
      BY <1>7, <2>2 DEF About, LayoutMsg
    <3> QED
      BY <1>6, <2>2, <3>1
  <2>3. ASSUME NEW w \in Widget, m = VisibilityMsg(w, c[w]) PROVE m = Goal(k)'
    <3>1. k.kind = "visibility" /\ k.widget = w
      BY <1>7, <2>3 DEF About, VisibilityMsg
    <3> QED
      BY <1>6, <2>3, <3>1
  <2> QED
    BY <1>1, <1>2, <2>1, <2>2, <2>3
<1>8. ASSUME NEW k \in Topic, ~lost PROVE WillKnow(k)'
  <2>0. Told(k)' = Told(k) /\ (Newest(queue, Goal(k)', Told(k), k) => WillKnow(k)')
    <3>1. Told(k)' = Told(k)
      BY <1>5 DEF Told
    <3> QED
      BY <1>5, <3>1 DEF WillKnow
  <2>1. ASSUME Started, Goal(k)' = Goal(k) PROVE WillKnow(k)'
    <3>1. Newest(queue, Goal(k), Told(k), k)
      BY <1>5, <1>8, <2>1 DEF AgreeInv, WillKnow
    <3> QED
      BY <2>0, <2>1, <3>1
  <2>2. CASE k.kind = "layout"
    <3>1. CASE last = None \/ last.layout # Layout(t)
      <4>1. LayoutMsg(t) \in outbox'
        BY <1>1, <3>1 DEF Deltas
      <4> QED
        BY <1>6, <2>2, <4>1 DEF WillKnow
    <3>2. CASE ~(last = None \/ last.layout # Layout(t))
      <4>1. Started /\ Goal(k) = LayoutMsg(t)
        BY <2>2, <3>2 DEF Started, Goal, LayoutMsg
      <4> QED
        BY <1>6, <2>1, <2>2, <4>1
    <3> QED
      BY <3>1, <3>2
  <2>3. CASE k.kind = "visibility"
    <3>0. k.widget \in Widget
      BY <2>3, TopicForm
    <3>1. CASE last = None \/ last.prominence[k.widget] # c[k.widget]
      <4>1. VisibilityMsg(k.widget, c[k.widget]) \in outbox'
        BY <1>1, <3>0, <3>1 DEF Deltas
      <4> QED
        BY <1>6, <2>3, <4>1 DEF WillKnow
    <3>2. CASE ~(last = None \/ last.prominence[k.widget] # c[k.widget])
      <4>1. Started /\ Goal(k) = VisibilityMsg(k.widget, c[k.widget])
        BY <2>3, <3>2 DEF Started, Goal
      <4> QED
        BY <1>6, <2>1, <2>3, <4>1
    <3> QED
      BY <3>1, <3>2
  <2>4. CASE k.kind = "dial"
    <3>0. k.dial \in Dial /\ Goal(k)' = DialMsg(k.dial, dials'[k.dial])
      BY <1>6, <2>4, TopicForm
    <3>1. CASE DialMsg(k.dial, dials'[k.dial]) \in first
      BY <1>1, <3>0, <3>1 DEF WillKnow
    <3>2. CASE dials'[k.dial] = dials[k.dial] /\ Started
      <4>1. Goal(k) = DialMsg(k.dial, dials[k.dial])
        BY <2>4 DEF Goal
      <4> QED
        BY <2>1, <3>0, <3>2, <4>1
    <3>3. CASE dials'[k.dial] = dials[k.dial] /\ ~Started
      <4>1. queue = <<>> /\ shell.dials = dials
        BY <1>8, <3>3 DEF AgreeInv
      <4>2. Told(k) = DialMsg(k.dial, dials[k.dial])
        BY <2>4, <4>1 DEF Told
      <4>3. SilentAfter(queue, 0, k)
        BY <4>1 DEF SilentAfter
      <4>4. Newest(queue, Goal(k)', Told(k), k)
        BY <3>0, <3>3, <4>2, <4>3 DEF Newest
      <4> QED
        BY <2>0, <4>4
    <3> QED
      BY <3>0, <3>1, <3>2, <3>3
  <2> QED
    BY <2>2, <2>3, <2>4, TopicForm
<1>9. AgreeInv'
  BY <1>1, <1>5, <1>7, <1>8 DEF AgreeInv
<1> QED
  BY <1>4, <1>9

\* A message that is sent, unless it is lost, is the last word of the queue.
LEMMA SendingTells ==
  ASSUME WireTypes, AgreeInv, NEW m \in outbox, Send(m)
  PROVE  WireTypes' /\ AgreeInv'
<1>1. /\ outbox' = outbox \ {m} /\ UNCHANGED <<last, dials, shell>>
      /\ \/ queue' = Append(queue, m) /\ lost' = lost
         \/ queue' = queue /\ lost'
  BY DEF Send, inputVars, debounceVars
<1>2. PICK q \in Seq(Message) : q = queue
  BY DEF WireTypes
<1>3. m \in Message
  BY DEF WireTypes
<1>4. WireTypes'
  <2>1. queue' \in Seq(Message)
    BY <1>1, <1>2, <1>3, AppendProperties
  <2> QED
    BY <1>1, <2>1 DEF WireTypes
<1>5. AgreeInv'
  <2> SUFFICES Started' /\ (~lost' => \A k \in Topic : WillKnow(k)' /\ \A n \in outbox' : About(n, k) => n = Goal(k)')
    BY DEF AgreeInv
  <2>1. Started
    BY DEF AgreeInv
  <2>2. ASSUME ~lost', NEW k \in Topic
        PROVE  WillKnow(k)' /\ \A n \in outbox' : About(n, k) => n = Goal(k)'
    <3>0. ~lost /\ queue' = Append(q, m)
      BY <1>1, <1>2, <2>2
    <3>1. Goal(k)' = Goal(k) /\ Told(k)' = Told(k)
      BY <1>1 DEF Goal, Told
    <3>2. WillKnow(k) /\ \A n \in outbox : About(n, k) => n = Goal(k)
      BY <2>1, <3>0 DEF AgreeInv
    <3>3. PICK g, told : g = Goal(k) /\ told = Told(k)
      OBVIOUS
    <3>4. g \in outbox' \/ m = g \/ (~About(m, k) /\ Newest(q, g, told, k))
      BY <1>1, <1>2, <3>2, <3>3 DEF WillKnow
    <3>5. g \in outbox' \/ Newest(Append(q, m), g, told, k)
      BY <1>3, <3>4, NewestSent
    <3>6. WillKnow(k)'
      BY <3>0, <3>1, <3>3, <3>5 DEF WillKnow
    <3> QED
      BY <1>1, <3>1, <3>2, <3>6
  <2> QED
    BY <1>1, <2>1, <2>2 DEF Started
<1> QED
  BY <1>4, <1>5

\* The shell is left showing the first word of the queue.
LEMMA WritingTells ==
  ASSUME WireTypes, AgreeInv, Write
  PROVE  WireTypes' /\ AgreeInv'
<1>1. PICK q \in Seq(Message) : q = queue /\ q # <<>> /\ queue' = Tail(q)
  BY DEF WireTypes, Write
<1>2. PICK m \in Message : m = Head(q)
  BY <1>1, HeadTailProperties
<1>3. /\ UNCHANGED <<last, dials, outbox, lost>>
      /\ shell' = CASE m.kind = "layout" -> [shell EXCEPT !.layout = m.widgets]
                    [] m.kind = "visibility" -> [shell EXCEPT !.prominence[m.widget] = m.prominence]
                    [] m.kind = "dial" -> [shell EXCEPT !.dials[m.dial] = m.position]
  BY <1>1, <1>2 DEF Write, inputVars, debounceVars
<1>4. PICK s \in [layout : (SUBSET Widget) \cup {None}, prominence : [Widget -> Prominence \cup {None}],
                  dials : [Dial -> Position]] : s = shell
  BY DEF WireTypes
<1> DEFINE Shells == [layout : (SUBSET Widget) \cup {None}, prominence : [Widget -> Prominence \cup {None}],
                      dials : [Dial -> Position]]
           Learnt(u) == /\ u \in Shells
                        /\ u.layout = IF m.kind = "layout" THEN m.widgets ELSE s.layout
                        /\ \A w \in Widget : u.prominence[w] = IF m.kind = "visibility" /\ m.widget = w
                                                               THEN m.prominence ELSE s.prominence[w]
                        /\ \A d \in Dial : u.dials[d] = IF m.kind = "dial" /\ m.dial = d
                                                        THEN m.position ELSE s.dials[d]
<1>5. PICK u : u = shell'
  OBVIOUS
<1>6. Learnt(u)
  <2>1. CASE m.kind = "layout"
    <3>1. u = [s EXCEPT !.layout = m.widgets] /\ m.widgets \in SUBSET Widget
      BY <1>3, <1>4, <1>5, <2>1, MessageForm
    <3> QED
      BY <2>1, <3>1
  <2>2. CASE m.kind = "visibility"
    <3>1. u = [s EXCEPT !.prominence = [@ EXCEPT ![m.widget] = m.prominence]]
          /\ m.prominence \in Prominence /\ m.widget \in Widget
      BY <1>3, <1>4, <1>5, <2>2, MessageForm
    <3> QED
      BY <2>2, <3>1
  <2>3. CASE m.kind = "dial"
    <3>1. u = [s EXCEPT !.dials = [@ EXCEPT ![m.dial] = m.position]]
          /\ m.position \in Position /\ m.dial \in Dial
      BY <1>3, <1>4, <1>5, <2>3, MessageForm
    <3> QED
      BY <2>3, <3>1
  <2> QED
    BY <2>1, <2>2, <2>3, MessageForm
<1>7. WireTypes'
  <2>1. queue' \in Seq(Message)
    BY <1>1, HeadTailProperties
  <2> QED
    BY <1>3, <1>5, <1>6, <2>1 DEF WireTypes
<1>8. ASSUME NEW k \in Topic
      PROVE  /\ About(m, k) => Told(k)' = m
             /\ ~About(m, k) => Told(k)' = Told(k)
  <2>1. CASE k.kind = "layout"
    <3>1. Told(k)' = [kind |-> "layout", widgets |-> u.layout] /\ Told(k) = [kind |-> "layout", widgets |-> s.layout]
      BY <1>4, <1>5, <2>1 DEF Told
    <3>2. About(m, k) <=> m.kind = "layout"
      BY <2>1 DEF About
    <3> QED
      BY <1>6, <3>1, <3>2, MessageForm
  <2>2. CASE k.kind = "visibility"
    <3>0. k.widget \in Widget
      BY <2>2, TopicForm
    <3>1. /\ Told(k)' = VisibilityMsg(k.widget, u.prominence[k.widget])
          /\ Told(k) = VisibilityMsg(k.widget, s.prominence[k.widget])
      BY <1>4, <1>5, <2>2 DEF Told
    <3>2. About(m, k) <=> m.kind = "visibility" /\ m.widget = k.widget
      BY <2>2 DEF About
    <3>3. u.prominence[k.widget] = IF About(m, k) THEN m.prominence ELSE s.prominence[k.widget]
      BY <1>6, <3>0, <3>2
    <3> QED
      BY <3>1, <3>2, <3>3, MessageForm
  <2>3. CASE k.kind = "dial"
    <3>0. k.dial \in Dial
      BY <2>3, TopicForm
    <3>1. /\ Told(k)' = DialMsg(k.dial, u.dials[k.dial])
          /\ Told(k) = DialMsg(k.dial, s.dials[k.dial])
      BY <1>4, <1>5, <2>3 DEF Told
    <3>2. About(m, k) <=> m.kind = "dial" /\ m.dial = k.dial
      BY <2>3 DEF About
    <3>3. u.dials[k.dial] = IF About(m, k) THEN m.position ELSE s.dials[k.dial]
      BY <1>6, <3>0, <3>2
    <3> QED
      BY <3>1, <3>2, <3>3, MessageForm
  <2> QED
    BY <2>1, <2>2, <2>3, TopicForm
<1>9. AgreeInv'
  <2> SUFFICES Started' /\ (~lost' => \A k \in Topic : WillKnow(k)' /\ \A n \in outbox' : About(n, k) => n = Goal(k)')
    BY DEF AgreeInv
  <2>1. Started
    BY <1>1 DEF AgreeInv
  <2>2. ASSUME ~lost', NEW k \in Topic
        PROVE  WillKnow(k)' /\ \A n \in outbox' : About(n, k) => n = Goal(k)'
    <3>1. Goal(k)' = Goal(k)
      BY <1>3 DEF Goal
    <3>2. WillKnow(k) /\ \A n \in outbox : About(n, k) => n = Goal(k)
      BY <1>3, <2>1, <2>2 DEF AgreeInv
    <3>3. PICK g, told, now : g = Goal(k) /\ told = Told(k) /\ now = Told(k)' /\ About(g, k)
      BY GoalAbout
    <3>4. g \in outbox \/ Newest(q, g, told, k)
      BY <1>1, <3>2, <3>3 DEF WillKnow
    <3>5. g \in outbox \/ Newest(Tail(q), g, now, k)
      BY <1>1, <1>2, <1>8, <3>3, <3>4, NewestRead
    <3>6. WillKnow(k)'
      BY <1>1, <1>3, <3>1, <3>3, <3>5 DEF WillKnow
    <3> QED
      BY <1>3, <3>1, <3>2, <3>6
  <2> QED
    BY <1>3, <2>1, <2>2 DEF Started
<1> QED
  BY <1>7, <1>9

\* Every step keeps the newest word on every topic true.
LEMMA AgreeStep == IInv /\ WireTypes /\ AgreeInv /\ [Next]_vars => WireTypes' /\ AgreeInv'
<1> SUFFICES ASSUME IInv, WireTypes, AgreeInv, [Next]_vars PROVE WireTypes' /\ AgreeInv'
  OBVIOUS
<1>a. /\ tickIn \in 0..TickEvery /\ 0 \in 0..TickEvery /\ TickEvery \in 0..TickEvery
      /\ tickIn <= tickIn /\ 0 <= tickIn
      /\ dials \in [Dial -> Position] /\ {} \subseteq Message
  BY ContextAssumption DEF IInv, TypeOK, WireTypes
<1>b. UNCHANGED <<last, dials, outbox, queue, shell, lost>> => WireTypes' /\ AgreeInv'
  <2> SUFFICES ASSUME UNCHANGED <<last, dials, outbox, queue, shell, lost>> PROVE WireTypes' /\ AgreeInv'
    OBVIOUS
  <2>1. WireTypes'
    BY DEF WireTypes
  <2>2. \A k \in Topic : Goal(k)' = Goal(k) /\ Told(k)' = Told(k)
    BY DEF Goal, Told
  <2>3. \A k \in Topic : WillKnow(k)' = WillKnow(k)
    BY <2>2 DEF WillKnow
  <2> QED
    BY <2>1, <2>2, <2>3 DEF AgreeInv, Started
<1>1. CASE Start
  <2>1. Idle
    BY <1>1 DEF Start, AgreeInv, Idle
  <2> QED
    BY <1>1, <1>a, <2>1, ResolvingTells DEF Start, inputVars
<1>2. CASE Tick
  BY <1>2, <1>a, ResolvingTells DEF Tick, inputVars
<1>3. ASSUME NEW e \in Event, SetSignal(e) PROVE WireTypes' /\ AgreeInv'
  BY <1>3, <1>a, ResolvingTells DEF SetSignal, Handle
<1>4. ASSUME NEW d \in Dial, TurnDial(d) PROVE WireTypes' /\ AgreeInv'
  <2>1. PICK v \in Positions(d) \cup {After(dials[d], Steps[d])} :
          dials' = [dials EXCEPT ![d] = v] /\ ResolveAndPublish({DialMsg(d, v)})
    BY <1>4 DEF TurnDial
  <2>2. v \in Position
    <3>1. After(dials[d], Steps[d]) \in Positions(d)
      <4>1. Steps[d] \in Seq(Positions(d)) /\ Steps[d] # <<>>
        BY ContextAssumption
      <4>2. PICK s, x : s = Steps[d] /\ x = dials[d]
        OBVIOUS
      <4>3. Len(s) \in Nat /\ Len(s) >= 1 /\ \A i \in 1..Len(s) : s[i] \in Positions(d)
        BY <4>1, <4>2, EmptySeq, ElementOfSeq
      <4>4. CASE \E i \in 1..Len(s) - 1 : s[i] = x
        <5>1. PICK i \in 1..Len(s) - 1 : s[i] = x
          BY <4>4
        <5>2. i + 1 \in 2..Len(s) /\ s[(i + 1) - 1] = x
          BY <4>3, <5>1
        <5>3. PICK j : j = CHOOSE n \in 2..Len(s) : s[n - 1] = x
          OBVIOUS
        <5>4. j \in 2..Len(s)
          BY <5>2, <5>3
        <5>5. After(x, s) = s[j]
          BY <4>4, <5>3 DEF After
        <5> QED
          BY <4>2, <4>3, <5>4, <5>5
      <4>5. CASE ~\E i \in 1..Len(s) - 1 : s[i] = x
        <5>1. After(x, s) = s[1]
          BY <4>5 DEF After
        <5> QED
          BY <4>2, <4>3, <5>1
      <4> QED
        BY <4>4, <4>5
    <3> QED
      BY <2>1, <3>1 DEF Position
  <2>3. /\ dials' \in [Dial -> Position] /\ dials'[d] = v
        /\ \A e \in Dial : e # d => dials'[e] = dials[e]
    BY <1>a, <2>1, <2>2
  <2>4. {DialMsg(d, v)} \subseteq Message
    BY <2>2 DEF Message, DialMsg
  <2>5. /\ \A m \in {DialMsg(d, v)} : \E e \in Dial : m = DialMsg(e, dials'[e])
        /\ \A e \in Dial : dials'[e] = dials[e] \/ DialMsg(e, dials'[e]) \in {DialMsg(d, v)}
    BY <2>3
  <2>6. Idle /\ tickIn' = tickIn /\ UNCHANGED wireVars
    BY <1>4 DEF TurnDial, Handle
  <2> QED
    BY <1>a, <2>1, <2>3, <2>4, <2>5, <2>6, ResolvingTells
<1>5. CASE ActOnProfile
  BY <1>5, <1>a, ResolvingTells DEF ActOnProfile, Handle
<1>6. CASE Elapse
  BY <1>6, <1>b DEF Elapse, inputVars, wireVars
<1>7. CASE ReloadProfiles
  BY <1>7, <1>b DEF ReloadProfiles, debounceVars, wireVars
<1>8. ASSUME NEW m \in outbox, Send(m) PROVE WireTypes' /\ AgreeInv'
  BY <1>8, SendingTells
<1>9. CASE Write
  BY <1>9, WritingTells
<1>10. CASE UNCHANGED vars
  BY <1>10, <1>b DEF vars, inputVars, debounceVars, wireVars
<1> QED
  BY <1>1, <1>2, <1>3, <1>4, <1>5, <1>6, <1>7, <1>8, <1>9, <1>10 DEF Next

\* Differences suffice: a shell that has read everything shows what was published
\* last, unless a try_send failed (resolve_and_publish).
THEOREM DeltasSuffice == Spec => []ShellAgrees
<1>1. Init => WireTypes /\ AgreeInv
  <2> SUFFICES ASSUME Init PROVE WireTypes /\ AgreeInv
    OBVIOUS
  <2>1. \A d \in Dial : Steps[d][1] \in Position
    <3>1. \A d \in Dial : Len(Steps[d]) \in Nat /\ Len(Steps[d]) >= 1
      BY ContextAssumption, EmptySeq
    <3> QED
      BY <3>1 DEF Position, Positions
  <2>2. dials \in [Dial -> Position]
    BY <2>1 DEF Init
  <2>3. queue \in Seq(Message)
    BY DEF Init
  <2>4. shell = [layout |-> None, prominence |-> [w \in Widget |-> None], dials |-> dials]
    BY DEF Init
  <2>5. WireTypes
    BY <2>2, <2>3, <2>4 DEF Init, WireTypes
  <2> QED
    BY <2>4, <2>5 DEF Init, AgreeInv, Started
<1>2. SettledInv /\ WireTypes /\ AgreeInv => ShellAgrees
  <2> SUFFICES ASSUME SettledInv, WireTypes, AgreeInv, Started, ~lost, Idle, queue = <<>>
               PROVE  shell = [layout |-> last.layout, prominence |-> last.prominence, dials |-> dials]
    BY DEF ShellAgrees
  <2>1. ASSUME NEW k \in Topic PROVE Told(k) = Goal(k)
    <3>1. WillKnow(k) /\ outbox = {} /\ Len(queue) = 0
      BY DEF AgreeInv, Idle
    <3> QED
      BY <3>1 DEF WillKnow, Newest
  <2>2. shell.layout = last.layout
    <3>1. [kind |-> "layout"] \in Topic
      BY DEF Topic
    <3>2. [kind |-> "layout", widgets |-> shell.layout] = [kind |-> "layout", widgets |-> last.layout]
      BY <2>1, <3>1 DEF Told, Goal
    <3> QED
      BY <3>2
  <2>3. ASSUME NEW w \in Widget PROVE shell.prominence[w] = last.prominence[w]
    <3>1. PICK k \in Topic : k.kind = "visibility" /\ k.widget = w
      <4>1. [kind |-> "visibility", widget |-> w] \in Topic
        BY DEF Topic
      <4> QED
        BY <4>1
    <3>2. Told(k) = VisibilityMsg(w, shell.prominence[w]) /\ Goal(k) = VisibilityMsg(w, last.prominence[w])
      BY <3>1 DEF Told, Goal
    <3> QED
      BY <2>1, <3>2 DEF VisibilityMsg
  <2>4. ASSUME NEW d \in Dial PROVE shell.dials[d] = dials[d]
    <3>1. PICK k \in Topic : k.kind = "dial" /\ k.dial = d
      <4>1. [kind |-> "dial", dial |-> d] \in Topic
        BY DEF Topic
      <4> QED
        BY <4>1
    <3>2. Told(k) = DialMsg(d, shell.dials[d]) /\ Goal(k) = DialMsg(d, dials[d])
      BY <3>1 DEF Told, Goal
    <3> QED
      BY <2>1, <3>2 DEF DialMsg
  <2>5. shell.prominence = last.prominence
    <3>1. shell.prominence \in [Widget -> Prominence \cup {None}] /\ last.prominence \in [Widget -> Prominence]
      BY DEF WireTypes, SettledInv, Started, Publication
    <3> QED
      BY <2>3, <3>1
  <2>6. shell.dials = dials
    <3>1. shell.dials \in [Dial -> Position] /\ dials \in [Dial -> Position]
      BY DEF WireTypes
    <3> QED
      BY <2>4, <3>1
  <2>7. shell = [layout |-> shell.layout, prominence |-> shell.prominence, dials |-> shell.dials]
    BY DEF WireTypes
  <2> QED
    BY <2>2, <2>5, <2>6, <2>7
<1> QED
  BY <1>1, <1>2, Invariance, SettledThroughout, AgreeStep, PTL DEF Spec
=============================================================================
