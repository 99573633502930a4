---------------------------- MODULE ContextEngine ----------------------------
(***************************************************************************)
(* The context engine: the cascade that decides how prominent each widget  *)
(* should be (levshell-context, cascade.rs), the debounce in front of it   *)
(* (hysteresis.rs), and the module that drives both from events and ticks  *)
(* and pushes what changed to the shell through a bounded queue whose      *)
(* try_send may fail (levshell-modules, context_engine.rs).                *)
(*                                                                         *)
(* An event is the signal it sets; a rule is a signal value that votes for *)
(* a prominence.  Zones and the order inside them follow from constants,   *)
(* so a layout is its set of widgets.  User overrides are always empty in  *)
(* the running program and are left out.  Time is discrete.                *)
(***************************************************************************)
EXTENDS Integers, FiniteSets, Sequences, FiniteSetsExt

CONSTANTS
  Widget,
  Priority,    \* [Widget -> Nat], distinct
  Default,     \* [Widget -> Prominence]
  Signal,
  Event,       \* assignments [signal, value] that bus events make
  Rule,        \* records [signal, value, target, prominence]
  Profile,     \* profile names, as numbers in alphabetical order
  Override,    \* Override[p]: a function from some widgets to prominences
  Steps,       \* Steps[d]: what the dial d (bar density, UI scale) cycles through
  Width,       \* heuristic_width: [Prominence -> Nat]
  Gap,         \* inter_widget_gap
  Widths,      \* values available_width may have
  Activation,  \* activation_delay, in time units
  Deactivation,
  TickEvery,   \* tick_interval()
  Capacity,    \* of the publisher's queue
  None,
  MaxEvents    \* bound on events, requests and reloads

\* Hidden, Badge, IconOnly, Compact, Visible, Expanded
Prominence == 0..5
Hidden == 0

Dial == DOMAIN Steps

\* Where the dial d may stand.
Positions(d) == {Steps[d][i] : i \in 1..Len(Steps[d])}

Transition == [target : Prominence, left : 0..Activation + Deactivation]
Publication == [layout : SUBSET Widget, prominence : [Widget -> Prominence]]

ASSUME ContextAssumption ==
  /\ IsFiniteSet(Widget)
  /\ Priority \in [Widget -> Nat]
  /\ \A v, w \in Widget : Priority[v] = Priority[w] => v = w
  /\ Default \in [Widget -> Prominence]
  /\ \A d \in Dial : Steps[d] \in Seq(Positions(d)) \ {<<>>}
  /\ Width \in [Prominence -> Nat] /\ Gap \in Nat /\ Widths \subseteq Nat
  /\ Activation \in Nat /\ Deactivation \in Nat
  /\ TickEvery \in Nat \ {0}
  /\ Profile \subseteq Nat
  /\ None \notin Prominence \cup Transition \cup Profile \cup Publication

VARIABLES
  signals,    \* [Signal -> value or None]
  dials,      \* [Dial -> position]: bar.density, ui.scale
  profiles,   \* names in the shared profile set
  active,     \* active_profile: a name or None
  available,  \* available_width
  cascade,    \* the last outcome of resolve_layout
  committed,  \* Hysteresis::committed
  pending,    \* Hysteresis::pending, with the time left to commit_at
  last,       \* last_published
  outbox,     \* messages of the handler that are still to be sent
  queue,      \* the publisher's queue
  shell,      \* what the shell was told: layout, prominence per widget, dials
  tickIn,     \* time to the next tick
  steady,     \* history: time since the outcome of the cascade changed, per widget
  lost,       \* history: a try_send failed
  events      \* counter for MaxEvents

inputVars == <<signals, dials, profiles, active, available>>
debounceVars == <<cascade, committed, pending, last, steady>>
wireVars == <<queue, shell, lost>>
vars == <<inputVars, debounceVars, outbox, wireVars, tickIn, events>>

Layout(m) == {w \in Widget : m[w] # Hidden}

LayoutMsg(m) == [kind |-> "layout", widgets |-> Layout(m)]
VisibilityMsg(w, p) == [kind |-> "visibility", widget |-> w, prominence |-> p]
DialMsg(d, v) == [kind |-> "dial", dial |-> d, position |-> v]

Longest == Activation + Deactivation + TickEvery

\* Time to commit a change from prominence p to q.
Delay(p, q) == IF q > p THEN Activation ELSE Deactivation

\* What is pending is what the cascade asked for last and is not committed.
TypeOK ==
  /\ active \in Profile \cup {None} /\ profiles \subseteq Profile
  /\ cascade \in [Widget -> Prominence]
  /\ committed \in [Widget -> Prominence \cup {None}]
  /\ pending \in [Widget -> Transition \cup {None}]
  /\ steady \in [Widget -> 0..Longest]
  /\ tickIn \in 0..TickEvery
  /\ lost \in BOOLEAN
  /\ \A w \in Widget : pending[w] # None =>
       pending[w].target = cascade[w] /\ cascade[w] # committed[w]

Init ==
  /\ signals = [s \in Signal |-> None]
  /\ dials = [d \in Dial |-> Steps[d][1]]
  /\ profiles = Profile
  /\ active = None
  /\ available \in Widths
  /\ cascade = Default
  /\ committed = [w \in Widget |-> None]
  /\ pending = [w \in Widget |-> None]
  /\ last = None
  /\ outbox = {}
  /\ queue = <<>>
  /\ shell = [layout |-> None, prominence |-> [w \in Widget |-> None], dials |-> dials]
  /\ tickIn = 0
  /\ steady = [w \in Widget |-> 0]
  /\ lost = FALSE
  /\ events = 0

-----------------------------------------------------------------------------
(***************************************************************************)
(* resolve_layout, with the signals s and the overrides o in force         *)
(***************************************************************************)
\* Steps 1 and 2: the default, or the most insistent rule that holds.
Voted(w, s) ==
  Max({Default[w]} \cup
      {r.prominence : r \in {x \in Rule : x.target = w /\ s[x.signal] = x.value}})

\* Step 3: the active profile's word, if it has one.
Wanted(w, s, o) == IF w \in DOMAIN o THEN o[w] ELSE Voted(w, s)

\* The widgets that are given their place before w.
Before(t, w) == {v \in Layout(t) : Priority[v] > Priority[w]}

\* Mutant: the gaps are forgotten.
FitsNoGap(t, w, p) == FoldSet(LAMBDA v, n : Width[t[v]] + n, Width[p], Before(t, w)) <= available

\* Step 4: is there room left for w at p?
Fits(t, w, p) == FoldSet(LAMBDA v, n : Width[t[v]] + Gap + n, Width[p], Before(t, w)) <= available

\* Every widget is as prominent as wanted, or as the room left allows.
Resolved(t, s, o) ==
  \A w \in Widget :
    /\ t[w] <= Wanted(w, s, o)
    /\ t[w] # Hidden => Fits(t, w, t[w])
    /\ \A p \in t[w] + 1 .. Wanted(w, s, o) : ~Fits(t, w, p)

-----------------------------------------------------------------------------
(***************************************************************************)
(* Hysteresis::observe of the outcome t                                    *)
(***************************************************************************)
\* A change that has waited its time and that the cascade still asks for.
Ripe(w, t) == pending[w] # None /\ pending[w].left = 0 /\ pending[w].target = t[w]

Commit(w, t) == IF committed[w] = None \/ Ripe(w, t) THEN t[w] ELSE committed[w]

\* Mutant: a change of mind does not restart the wait.
PendSticky(w, t) ==
  IF Commit(w, t) = t[w] THEN None
  ELSE [target |-> t[w],
        left |-> IF pending[w] # None THEN pending[w].left ELSE Delay(committed[w], t[w])]

\* Mutant: every look at the cascade restarts the wait.
PendAnew(w, t) ==
  IF Commit(w, t) = t[w] THEN None ELSE [target |-> t[w], left |-> Delay(committed[w], t[w])]

Pend(w, t) ==
  IF Commit(w, t) = t[w] THEN None
  ELSE IF pending[w] # None /\ pending[w].target = t[w] THEN pending[w]
  ELSE [target |-> t[w], left |-> Delay(committed[w], t[w])]

Observe(t) ==
  /\ committed' = [w \in Widget |-> Commit(w, t)]
  /\ pending' = [w \in Widget |-> Pend(w, t)]

-----------------------------------------------------------------------------
(***************************************************************************)
(* resolve_and_publish                                                     *)
(***************************************************************************)
\* Mutant: a widget that is not visible is left for the layout to drop.
DeltasVisible(t, c) ==
  (IF last = None \/ last.layout # Layout(t) THEN {LayoutMsg(t)} ELSE {}) \cup
  {VisibilityMsg(w, c[w]) : w \in {v \in Layout(c) : last = None \/ last.prominence[v] # c[v]}}

\* What differs from last_published.
Deltas(t, c) ==
  (IF last = None \/ last.layout # Layout(t) THEN {LayoutMsg(t)} ELSE {}) \cup
  {VisibilityMsg(w, c[w]) : w \in {v \in Widget : last = None \/ last.prominence[v] # c[v]}}

\* Recompute, debounce, and have "first" and then the differences sent.
ResolveAndPublish(first) ==
  \E t \in [Widget -> Prominence] :
    /\ Resolved(t, signals', IF active' \in profiles' THEN Override[active'] ELSE <<>>)
    /\ cascade' = t
    /\ steady' = [w \in Widget |-> IF t[w] = cascade[w] THEN steady[w] ELSE 0]
    /\ Observe(t)
    /\ outbox' = first \cup Deltas(t, committed')
    /\ last' = [layout |-> Layout(t), prominence |-> committed']

Started == last # None
Idle == outbox = {}

\* start(): the first look at the cascade is committed as it is.
Start ==
  /\ ~Started
  /\ tickIn' = 0
  /\ UNCHANGED <<inputVars, wireVars, events>>
  /\ ResolveAndPublish({})

\* Handlers run one at a time, and a tick does not wait.
Handle ==
  /\ Started /\ Idle /\ tickIn > 0
  /\ events < MaxEvents
  /\ events' = events + 1
  /\ UNCHANGED <<available, wireVars, tickIn>>

\* WorkspaceChanged, WindowFocused, PowerStateChanged, FocusSessionStarted, -Ended.
SetSignal(e) ==
  /\ Handle
  /\ signals' = [signals EXCEPT ![e.signal] = e.value]
  /\ UNCHANGED <<dials, profiles, active>>
  /\ ResolveAndPublish({})

\* The value after v; a value that is not a step is followed by the first.
After(v, steps) ==
  IF \E i \in 1..Len(steps) - 1 : steps[i] = v
    THEN steps[CHOOSE j \in 2..Len(steps) : steps[j - 1] = v]
    ELSE steps[1]

\* BarDensityRequested and UiScaleRequested; "cycle" goes to the next step.
TurnDial(d) ==
  /\ Handle
  /\ \E v \in Positions(d) \cup {After(dials[d], Steps[d])} :
       /\ dials' = [dials EXCEPT ![d] = v]
       /\ UNCHANGED <<signals, profiles, active>>
       /\ ResolveAndPublish({DialMsg(d, v)})

\* n follows the active profile; the first one follows the last, and no profile.
NextProfile(n) ==
  /\ n \in profiles
  /\ IF active \in profiles /\ \E m \in profiles : m > active
       THEN n > active /\ \A m \in profiles : m > active => n <= m
       ELSE \A m \in profiles : n <= m

\* ProfileActionRequested: activate, deactivate (by name or whatever it is), cycle.
ActOnProfile ==
  /\ Handle
  /\ \/ active' \in profiles
     \/ active' = None
     \/ NextProfile(active')
  /\ UNCHANGED <<signals, dials, profiles>>
  /\ ResolveAndPublish({})

\* The profile watcher replaces the shared set; nothing is recomputed yet.
ReloadProfiles ==
  /\ Started /\ events < MaxEvents
  /\ events' = events + 1
  /\ profiles' \in SUBSET Profile
  /\ UNCHANGED <<signals, dials, active, available, debounceVars, outbox, wireVars, tickIn>>

Tick ==
  /\ Started /\ Idle
  /\ tickIn = 0
  /\ tickIn' = TickEvery
  /\ UNCHANGED <<inputVars, wireVars, events>>
  /\ ResolveAndPublish({})

-----------------------------------------------------------------------------
(***************************************************************************)
(* The queue to the shell                                                  *)
(***************************************************************************)
\* try_send, the dial first and the layout second.
Send(m) ==
  /\ m \in outbox
  /\ m.kind # "dial" => \A n \in outbox : n.kind # "dial"
  /\ m.kind = "visibility" => \A n \in outbox : n.kind # "layout"
  /\ outbox' = outbox \ {m}
  /\ IF Len(queue) < Capacity
       THEN queue' = Append(queue, m) /\ UNCHANGED lost
       ELSE lost' = TRUE /\ UNCHANGED queue
  /\ UNCHANGED <<inputVars, debounceVars, shell, tickIn, events>>

\* The writer task passes a message on, and the shell keeps what it is told.
Write ==
  /\ queue # <<>>
  /\ queue' = Tail(queue)
  /\ LET m == Head(queue) IN
       shell' = CASE m.kind = "layout" -> [shell EXCEPT !.layout = m.widgets]
                  [] m.kind = "visibility" -> [shell EXCEPT !.prominence[m.widget] = m.prominence]
                  [] m.kind = "dial" -> [shell EXCEPT !.dials[m.dial] = m.position]
  /\ UNCHANGED <<inputVars, debounceVars, outbox, lost, tickIn, events>>

Elapse ==
  /\ Started /\ Idle /\ tickIn > 0
  /\ tickIn' = tickIn - 1
  /\ pending' = [w \in Widget |->
       IF pending[w] # None /\ pending[w].left > 0 THEN [pending[w] EXCEPT !.left = @ - 1]
       ELSE pending[w]]
  /\ steady' = [w \in Widget |-> IF steady[w] < Longest THEN steady[w] + 1 ELSE steady[w]]
  /\ UNCHANGED <<inputVars, cascade, committed, last, outbox, wireVars, events>>

Next ==
  \/ Start \/ Tick \/ Elapse
  \/ (\E e \in Event : SetSignal(e)) \/ (\E d \in Dial : TurnDial(d)) \/ ActOnProfile
  \/ ReloadProfiles
  \/ (\E m \in outbox : Send(m)) \/ Write

Spec == Init /\ [][Next]_vars

-----------------------------------------------------------------------------
(***************************************************************************)
(* Properties                                                              *)
(***************************************************************************)
\* The module comment of hysteresis.rs: "prominence changes only commit after a
\* condition has held steady for a configured delay".  What commits is what the
\* cascade has asked for at every look for that long.
HeldSteady ==
  [][\A w \in Widget : committed[w] # None /\ committed'[w] # committed[w] =>
       /\ committed'[w] = cascade[w]
       /\ steady[w] >= Delay(committed[w], cascade[w])]_vars

\* And it does commit, no later than a tick after the delay, whatever events
\* come in between and have the cascade looked at again.
CommitsInTime ==
  \A w \in Widget : committed[w] \notin {None, cascade[w]} =>
    steady[w] <= Delay(committed[w], cascade[w]) + TickEvery

\* The widgets of a layout and the gaps between them.
Extent(m) ==
  FoldSet(LAMBDA v, n : Width[m[v]] + n, Gap * (Cardinality(Layout(m)) - 1), Layout(m))

\* What the cascade decides fits the bar; so does what was committed once no
\* change is pending, and then it is what the layout lists.  (In between, a
\* widget may grow long before the one that makes room for it shrinks.)
SettledFits ==
  /\ Started => Layout(cascade) = {} \/ Extent(cascade) <= available
  /\ Started /\ (\A w \in Widget : pending[w] = None) =>
       committed = cascade /\ last.layout = Layout(committed)

\* Sending differences suffices: unless a try_send failed, a shell that has read
\* everything shows what was published last and stands at the dials' positions.
ShellAgrees ==
  Started /\ ~lost /\ Idle /\ queue = <<>> =>
    shell = [layout |-> last.layout, prominence |-> last.prominence, dials |-> dials]
=============================================================================
