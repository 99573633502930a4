------------------------------ MODULE DeskProofs ------------------------------
(***************************************************************************)
(* Five of the components that follow the user about, for all intervals,   *)
(* profiles, projects, workspaces and themes: the session timer and        *)
(* notifications (Attention), warmup, the review suggestions and the       *)
(* interruption pill (Returns), the focus time of projects (Projects), the *)
(* focus-mode driver (FocusMode), and settings and themes (Appearance).    *)
(* Each part gives the inductive invariants of its component, one lemma    *)
(* for every conjunct or action, and the theorems that follow.             *)
(***************************************************************************)
EXTENDS Integers, Attention, Projects, Returns, FocusMode, Appearance, FoldLemmas

-----------------------------------------------------------------------------
(* Attention: what becomes of a sample and of a notification, and where the *)
(* seconds of work are booked.                                              *)

\* Each level of a tracker is backed by the samples that led to it.
AlertInv ==
  \A w \in Widget :
    /\ level[w] <= recent[w][3]
    /\ level[w] >= 2 => recent[w][2] >= 1
    /\ w \in alerted => level[w] = Critical

\* What the samples keep, apart from everything else.
TrackerTypes ==
  /\ level \in [Widget -> Level] /\ recent \in [Widget -> [1..3 -> Level]]
  /\ alerted \subseteq Widget

-----------------------------------------------------------------------------
\* Only a sample changes a tracker.
LEMMA OthersKeepTrackers ==
  [Next]_vars => UNCHANGED trackerVars \/ \E w \in Widget, raw \in Level : Sample(w, raw)
<1> SUFFICES ASSUME [Next]_vars, ~\E w \in Widget, raw \in Level : Sample(w, raw)
             PROVE UNCHANGED trackerVars
  OBVIOUS
<1>1. CASE Command
  BY <1>1 DEF Command
<1>2. CASE Tick
  BY <1>2 DEF Tick
<1>3. CASE Enter
  BY <1>3 DEF Enter
<1>4. ASSUME NEW c \in Caller, SetPresentation(c) PROVE UNCHANGED trackerVars
  BY <1>4 DEF SetPresentation
<1>5. ASSUME NEW c \in Caller, AnnouncePresentation(c) PROVE UNCHANGED trackerVars
  BY <1>5 DEF AnnouncePresentation
<1>6. CASE PublishLesser
  BY <1>6 DEF PublishLesser
<1>7. CASE Receive
  BY <1>7 DEF Receive
<1>8. CASE UNCHANGED vars
  BY <1>8 DEF vars
<1> QED
  BY <1>1, <1>2, <1>3, <1>4, <1>5, <1>6, <1>7, <1>8 DEF Next

\* What one sample does to its own widget and to the others.
LEMMA SampleEffect ==
  ASSUME TrackerTypes, NEW w \in Widget, NEW raw \in Level, Sample(w, raw)
  PROVE  /\ level' = [level EXCEPT ![w] = Step(raw, level[w])]
         /\ recent'[w][1] = recent[w][2] /\ recent'[w][2] = recent[w][3] /\ recent'[w][3] = raw
         /\ recent'[w] \in [1..3 -> Level]
         /\ \A v \in Widget \ {w} : recent'[v] = recent[v] /\ level'[v] = level[v]
         /\ level'[w] = Step(raw, level[w])
         /\ Step(raw, level[w]) \in Level
<1> USE DEF TrackerTypes
<1>1. recent'[w] = <<recent[w][2], recent[w][3], raw>>
  BY DEF Sample
<1>2. level[w] \in 0..3 /\ raw \in 0..3 /\ recent[w] \in [1..3 -> Level]
  BY DEF Level, Critical
<1>3. Step(raw, level[w]) \in Level
  BY <1>2 DEF Step, Level, Critical
<1>4. recent[w][2] \in Level /\ recent[w][3] \in Level
  BY <1>2
<1>5. recent'[w] \in [1..3 -> Level]
  BY <1>1, <1>4
<1>6. \A v \in Widget \ {w} : recent'[v] = recent[v] /\ level'[v] = level[v]
  BY DEF Sample
<1>7. level' = [level EXCEPT ![w] = Step(raw, level[w])] /\ level'[w] = Step(raw, level[w])
  BY DEF Sample
<1> QED
  BY <1>1, <1>3, <1>5, <1>6, <1>7

\* The trackers keep their types.
LEMMA TrackerTypesStep == TrackerTypes /\ [Next]_vars => TrackerTypes'
<1> SUFFICES ASSUME TrackerTypes, [Next]_vars PROVE TrackerTypes'
  OBVIOUS
<1>1. CASE UNCHANGED trackerVars
  BY <1>1 DEF trackerVars, TrackerTypes
<1>2. ASSUME NEW w \in Widget, NEW raw \in Level, Sample(w, raw) PROVE TrackerTypes'
  <2>1. level' \in [Widget -> Level]
    BY <1>2, SampleEffect DEF TrackerTypes
  <2>2. recent' \in [Widget -> [1..3 -> Level]]
    <3>1. recent' = [recent EXCEPT ![w] = recent'[w]]
      BY <1>2 DEF Sample, TrackerTypes
    <3>2. recent'[w] \in [1..3 -> Level]
      BY <1>2, SampleEffect
    <3> QED
      BY <3>1, <3>2 DEF TrackerTypes
  <2>3. alerted' \subseteq Widget
    BY <1>2 DEF Sample, TrackerTypes
  <2> QED
    BY <2>1, <2>2, <2>3 DEF TrackerTypes
<1> QED
  BY <1>1, <1>2, OthersKeepTrackers

\* A step keeps every level backed.
LEMMA AlertStep == TrackerTypes /\ AlertInv /\ [Next]_vars => AlertInv'
<1> SUFFICES ASSUME TrackerTypes, AlertInv, [Next]_vars PROVE AlertInv'
  OBVIOUS
<1>1. CASE UNCHANGED trackerVars
  BY <1>1 DEF trackerVars, AlertInv
<1>2. ASSUME NEW w \in Widget, NEW raw \in Level, Sample(w, raw) PROVE AlertInv'
  <2>1. ASSUME NEW v \in Widget, v # w
        PROVE  /\ level'[v] <= recent'[v][3]
               /\ level'[v] >= 2 => recent'[v][2] >= 1
               /\ v \in alerted' => level'[v] = Critical
    <3>1. v \in alerted' => v \in alerted
      BY <1>2, <2>1 DEF Sample
    <3> QED
      BY <1>2, <2>1, <3>1, SampleEffect DEF AlertInv
  <2>2. level[w] \in 0..3 /\ raw \in 0..3 /\ recent[w][3] \in 0..3
    BY DEF TrackerTypes, Level, Critical
  <2>3. level[w] <= recent[w][3] /\ (w \in alerted => level[w] = Critical)
    BY DEF AlertInv
  <2>4. level'[w] <= raw /\ (level'[w] >= 2 => recent[w][3] >= 1)
    BY <1>2, <2>2, <2>3, SampleEffect DEF Step
  <2>5. w \in alerted' => level'[w] = Critical
    <3>1. level'[w] = Step(raw, level[w])
      BY <1>2, SampleEffect
    <3>2. CASE Step(raw, level[w]) = Critical
      BY <3>1, <3>2
    <3>3. CASE Step(raw, level[w]) # Critical
      <4>1. alerted' = IF raw < Critical THEN alerted \ {w} ELSE alerted
        BY <1>2, <3>3 DEF Sample
      <4>2. raw < Critical \/ level[w] # Critical
        BY <2>2, <3>3 DEF Step, Critical
      <4> QED
        BY <4>1, <4>2, <2>3
    <3> QED
      BY <3>2, <3>3
  <2> QED
    BY <1>2, <2>1, <2>4, <2>5, SampleEffect DEF AlertInv
<1> QED
  BY <1>1, <1>2, OthersKeepTrackers

\* An alert is built up over three samples, and none is repeated within one
\* episode (EscalationTracker::step).
THEOREM NoLoneSpike == Spec => AlertJustified
<1>1. Init => TrackerTypes /\ AlertInv
  BY DEF Init, TrackerTypes, AlertInv, Level, Critical
<1>2. TrackerTypes /\ AlertInv /\ [Next]_vars =>
        [\A w \in Widget : level[w] # Critical /\ level'[w] = Critical =>
           w \notin alerted /\ \A n \in 1..3 : recent'[w][n] >= n]_vars
  <2> SUFFICES ASSUME TrackerTypes, AlertInv, [Next]_vars, NEW w \in Widget,
                      level[w] # Critical, level'[w] = Critical
               PROVE  w \notin alerted /\ \A n \in 1..3 : recent'[w][n] >= n
    OBVIOUS
  <2>1. w \notin alerted
    BY DEF AlertInv
  <2>2. PICK v \in Widget, raw \in Level : Sample(v, raw)
    BY OthersKeepTrackers DEF trackerVars
  <2>3. v = w
    BY <2>2, SampleEffect
  <2>4. level[w] \in 0..3 /\ raw \in 0..3 /\ recent[w][3] \in 0..3
    BY DEF TrackerTypes, Level, Critical
  <2>5. level[w] = 2 /\ raw = 3
    BY <2>2, <2>3, <2>4, SampleEffect DEF Step, Critical
  <2>6. recent[w][2] >= 1 /\ recent[w][3] >= 2
    BY <2>5 DEF AlertInv
  <2> QED
    BY <2>1, <2>2, <2>3, <2>5, <2>6, SampleEffect
<1> QED
  BY <1>1, <1>2, TrackerTypesStep, AlertStep, PTL DEF Spec, AlertJustified

-----------------------------------------------------------------------------
(* Types. *)

\* A work interval has been counted as it went, so the seconds of one that ends
\* in no workspace can be taken back.
TimerTypes ==
  /\ phase \in {"idle", "work", "break"} /\ paused \in BOOLEAN
  /\ planned \in {0, WorkSecs, BreakSecs, LongBreakSecs} /\ elapsed \in 0..planned
  /\ workDone \in Nat /\ project \in Workspace \cup {None}
  /\ next \in {"idle", "work", "break", None}
  /\ booked \in [Workspace -> Nat] /\ worked \in Nat
  /\ phase = "idle" => ~paused /\ planned = 0 /\ next = None
  /\ phase # "idle" /\ next = None => elapsed < planned
  /\ phase = "work" /\ next = None => elapsed <= worked

WireTypes ==
  /\ inbox \in Seq(Item) /\ Len(inbox) <= Capacity
  /\ announced \in BOOLEAN /\ gone \subseteq Gate

OtherTypes ==
  /\ presenting \in BOOLEAN /\ announcing \in [Caller -> BOOLEAN \cup {None}]
  /\ muted \in [Gate -> BOOLEAN] /\ shown \in BOOLEAN
  /\ ticks \in 0..MaxTicks /\ inputs \in 0..MaxInputs

Types == TrackerTypes /\ TimerTypes /\ WireTypes /\ OtherTypes

\* Publishing keeps the channel's type.
LEMMA PublishGateTypes ==
  ASSUME WireTypes, NEW g \in Gate, NEW on \in BOOLEAN, PublishGate(g, on)
  PROVE  WireTypes'
<1>1. [kind |-> g, on |-> on] \in Item
  BY DEF Item
<1>2. Capacity \in Nat
  BY AttentionAssumption
<1>3. inbox' \in Seq(Item) /\ Len(inbox') <= Capacity
  BY <1>1, <1>2 DEF PublishGate, WireTypes, Full
<1>4. announced' \in BOOLEAN /\ gone' \subseteq Gate
  BY DEF PublishGate, WireTypes
<1> QED
  BY <1>3, <1>4 DEF WireTypes

\* So does an item.
LEMMA PublishItemTypes ==
  ASSUME WireTypes, NEW i \in Item, PublishItem(i)
  PROVE  WireTypes'
<1>1. Capacity \in Nat
  BY AttentionAssumption
<1>2. inbox' \in Seq(Item) /\ Len(inbox') <= Capacity
  BY <1>1 DEF PublishItem, WireTypes, Full
<1> QED
  BY <1>2 DEF PublishItem, WireTypes

\* Entering a phase sets the timer up and leaves the channel well typed.
LEMMA EnterPhaseTypes ==
  ASSUME WireTypes, workDone' \in Nat, NEW p \in {"idle", "work", "break"}, EnterPhase(p)
  PROVE  /\ WireTypes'
         /\ phase' = p /\ paused' = FALSE /\ elapsed' = 0
         /\ planned' \in {0, WorkSecs, BreakSecs, LongBreakSecs}
         /\ planned' \in Nat
         /\ p = "idle" => planned' = 0
         /\ p # "idle" => 0 < planned'
<1>1. WireTypes'
  <2>1. CASE p = "idle"
    BY <2>1 DEF EnterPhase, wireVars, WireTypes
  <2>2. CASE p # "idle"
    BY <2>2, PublishGateTypes DEF EnterPhase, Gate
  <2> QED
    BY <2>1, <2>2
<1>2. BreakFor(workDone') \in {BreakSecs, LongBreakSecs}
  BY DEF BreakFor
<1>3. {WorkSecs, BreakSecs, LongBreakSecs} \subseteq Nat \ {0}
  BY AttentionAssumption
<1>4. planned' = CASE p = "idle" -> 0 [] p = "work" -> WorkSecs [] p = "break" -> BreakFor(workDone')
  BY DEF EnterPhase
<1>5. CASE p = "idle"
  BY <1>1, <1>4, <1>5 DEF EnterPhase
<1>6. CASE p = "work"
  <2>1. planned' = WorkSecs
    BY <1>4, <1>6
  <2> QED
    BY <1>1, <1>3, <1>6, <2>1 DEF EnterPhase
<1>7. CASE p = "break"
  <2>1. planned' = BreakFor(workDone')
    BY <1>4, <1>7
  <2> QED
    BY <1>1, <1>2, <1>3, <1>7, <2>1 DEF EnterPhase
<1> QED
  BY <1>5, <1>6, <1>7

\* Ending an interval books its seconds.
LEMMA EndTypes ==
  ASSUME TimerTypes, WireTypes, next = None,
         NEW secs \in Nat, elapsed <= secs, NEW then \in {"idle", "work", "break"},
         elapsed' \in 0..planned, End(secs, then)
  PROVE  TimerTypes' /\ WireTypes'
<1> USE DEF TimerTypes
<1>1. WireTypes'
  BY PublishGateTypes DEF End, Gate
<1>2. planned \in Nat
  BY AttentionAssumption
<1>3. worked' \in Nat
  <2>1. elapsed \in Nat
    BY <1>2
  <2>2. CASE phase = "work"
    BY <1>2, <2>1, <2>2 DEF End
  <2>3. CASE phase # "work"
    BY <2>3 DEF End
  <2> QED
    BY <2>2, <2>3
<1>4. booked' \in [Workspace -> Nat]
  <2>1. CASE phase = "work" /\ project # None
    <3>1. project \in Workspace /\ booked[project] + secs \in Nat
      BY <2>1
    <3>2. booked' = [booked EXCEPT ![project] = @ + secs]
      BY <2>1 DEF End
    <3> QED
      BY <3>1, <3>2
  <2>2. CASE ~(phase = "work" /\ project # None)
    BY <2>2 DEF End
  <2> QED
    BY <2>1, <2>2
<1>5. next' = then /\ next' # None /\ phase' = phase /\ phase # "idle"
  BY AttentionAssumption DEF End
<1>6. UNCHANGED <<paused, planned, project>> /\ workDone' \in Nat
  BY DEF End
<1> QED
  BY <1>1, <1>3, <1>4, <1>5, <1>6

\* The timer's steps keep its types and the channel's.
LEMMA TimerStep ==
  ASSUME TimerTypes, WireTypes, Command \/ Tick \/ Enter
  PROVE  TimerTypes' /\ WireTypes'
<1>1. planned \in Nat /\ elapsed \in Nat /\ elapsed <= planned
  BY AttentionAssumption DEF TimerTypes
<1>2. CASE Enter
  <2>1. next \in {"idle", "work", "break"} /\ next # None
    BY <1>2 DEF Enter, TimerTypes
  <2>2. workDone' \in Nat
    BY <1>2 DEF Enter, TimerTypes
  <2>3. EnterPhase(next)
    BY <1>2 DEF Enter
  <2>4. /\ WireTypes' /\ phase' = next /\ paused' = FALSE /\ elapsed' = 0
        /\ planned' \in {0, WorkSecs, BreakSecs, LongBreakSecs} /\ planned' \in Nat
        /\ next = "idle" => planned' = 0
        /\ next # "idle" => 0 < planned'
    BY <2>1, <2>2, <2>3, EnterPhaseTypes
  <2>5. next' = None /\ UNCHANGED <<project, booked, worked>>
    BY <1>2 DEF Enter
  <2>6. elapsed' \in 0..planned' /\ elapsed' <= worked'
    BY <2>4, <2>5 DEF TimerTypes
  <2> QED
    BY <2>1, <2>2, <2>4, <2>5, <2>6 DEF TimerTypes
<1>3. CASE Tick
  <2>1. next = None /\ phase # "idle" /\ ~paused /\ elapsed' = elapsed + 1 /\ elapsed < planned
    BY <1>3 DEF Tick, TimerTypes
  <2>2. elapsed' \in 0..planned /\ elapsed' \in Nat /\ elapsed <= elapsed'
    BY <1>1, <2>1
  <2>3. CASE elapsed' >= planned
    <3>1. End(elapsed', Successor)
      BY <1>3, <2>3 DEF Tick
    <3>2. Successor \in {"idle", "work", "break"}
      BY DEF Successor
    <3> QED
      BY <2>1, <2>2, <3>1, <3>2, EndTypes
  <2>4. CASE ~(elapsed' >= planned)
    <3>1. /\ worked' = IF phase = "work" THEN worked + 1 ELSE worked
          /\ UNCHANGED <<phase, paused, planned, workDone, project, next, booked, wireVars>>
      BY <1>3, <2>4 DEF Tick
    <3>2. worked' \in Nat /\ (phase = "work" => elapsed' <= worked')
      BY <1>1, <2>1, <3>1 DEF TimerTypes
    <3>3. elapsed' < planned
      BY <1>1, <2>2, <2>4
    <3>4. TimerTypes'
      BY <2>1, <2>2, <3>1, <3>2, <3>3 DEF TimerTypes
    <3> QED
      BY <3>1, <3>4 DEF wireVars, WireTypes
  <2> QED
    BY <2>3, <2>4
<1>4. CASE Command
  <2> USE <1>4
  <2>0. next = None
    BY DEF Command
  <2>1. CASE Start
    <3>1. EnterPhase("work") /\ workDone' = 0 /\ UNCHANGED <<project, next, booked, worked>>
      BY <2>1 DEF Start
    <3>2. /\ WireTypes' /\ phase' = "work" /\ paused' = FALSE /\ elapsed' = 0
          /\ planned' \in {0, WorkSecs, BreakSecs, LongBreakSecs} /\ planned' \in Nat
          /\ 0 < planned'
      BY <3>1, EnterPhaseTypes
    <3>3. elapsed' \in 0..planned' /\ elapsed' <= worked'
      BY <3>1, <3>2 DEF TimerTypes
    <3> QED
      BY <2>0, <3>1, <3>2, <3>3 DEF TimerTypes
  <2>2. ASSUME NEW stop \in BOOLEAN, Hold(stop) PROVE TimerTypes' /\ WireTypes'
    BY <2>2 DEF Hold, TimerTypes, WireTypes, wireVars
  <2>3. CASE Stop
    BY <1>1, <2>0, <2>3, EndTypes DEF Stop, TimerTypes
  <2>4. CASE Skip
    <3>1. Successor \in {"idle", "work", "break"}
      BY DEF Successor
    <3> QED
      BY <1>1, <2>0, <2>4, <3>1, EndTypes DEF Skip, TimerTypes
  <2>5. ASSUME NEW w \in Workspace, WorkspaceChanged(w) PROVE TimerTypes' /\ WireTypes'
    BY <2>5 DEF WorkspaceChanged, TimerTypes, WireTypes, wireVars
  <2> QED
    BY <2>1, <2>2, <2>3, <2>4, <2>5 DEF Command
<1> QED
  BY <1>2, <1>3, <1>4

\* The initial values have their types.
LEMMA InitTypes == Init => Types
<1> SUFFICES ASSUME Init PROVE Types
  OBVIOUS
<1>1. 0 \in 0..MaxTicks /\ 0 \in 0..MaxInputs /\ 0 <= Capacity
  BY AttentionAssumption
<1>2. TrackerTypes
  BY DEF Init, TrackerTypes, Level, Critical
<1>3. TimerTypes
  <2>1. booked \in [Workspace -> Nat]
    BY DEF Init
  <2>2. elapsed \in 0..planned /\ planned \in {0, WorkSecs, BreakSecs, LongBreakSecs}
    BY DEF Init
  <2>3. phase = "idle" /\ paused = FALSE /\ planned = 0 /\ next = None /\ project = None
        /\ workDone = 0 /\ worked = 0
    BY DEF Init
  <2> QED
    BY <2>1, <2>2, <2>3 DEF TimerTypes
<1>4. WireTypes
  <2>1. inbox = <<>> /\ announced = FALSE /\ gone = {}
    BY DEF Init
  <2>2. inbox \in Seq(Item) /\ Len(inbox) = 0
    BY <2>1
  <2> QED
    BY <1>1, <2>1, <2>2 DEF WireTypes
<1>5. OtherTypes
  BY <1>1 DEF Init, OtherTypes
<1> QED
  BY <1>2, <1>3, <1>4, <1>5 DEF Types

\* Every step keeps the types.
LEMMA TypesStep == Types /\ [Next]_vars => Types'
<1> SUFFICES ASSUME Types, [Next]_vars PROVE Types'
  OBVIOUS
<1>0. TrackerTypes /\ TimerTypes /\ WireTypes /\ OtherTypes
  BY DEF Types
<1>t. TrackerTypes'
  BY <1>0, TrackerTypesStep
<1>i. Input => inputs' \in 0..MaxInputs
  BY <1>0, AttentionAssumption DEF Input, OtherTypes
<1>1. CASE Command
  <2>1. TimerTypes' /\ WireTypes'
    BY <1>0, <1>1, TimerStep
  <2>2. OtherTypes'
    BY <1>0, <1>1, <1>i DEF Command, OtherTypes, themeVars, filterVars
  <2> QED
    BY <1>t, <2>1, <2>2 DEF Types
<1>2. CASE Tick
  <2>1. TimerTypes' /\ WireTypes'
    BY <1>0, <1>2, TimerStep
  <2>2. ticks' \in 0..MaxTicks
    BY <1>0, <1>2, AttentionAssumption DEF Tick, OtherTypes
  <2>3. OtherTypes'
    BY <1>0, <1>2, <2>2 DEF Tick, OtherTypes, themeVars, filterVars
  <2> QED
    BY <1>t, <2>1, <2>3 DEF Types
<1>3. CASE Enter
  <2>1. TimerTypes' /\ WireTypes'
    BY <1>0, <1>3, TimerStep
  <2>2. OtherTypes'
    BY <1>0, <1>3 DEF Enter, OtherTypes, themeVars, filterVars
  <2> QED
    BY <1>t, <2>1, <2>2 DEF Types
<1>4. ASSUME NEW c \in Caller, SetPresentation(c) PROVE Types'
  <2>1. OtherTypes'
    BY <1>0, <1>4, <1>i DEF SetPresentation, OtherTypes, timerVars, filterVars
  <2>2. TimerTypes' /\ WireTypes'
    BY <1>0, <1>4 DEF SetPresentation, TimerTypes, WireTypes, timerVars, wireVars
  <2> QED
    BY <1>t, <2>1, <2>2 DEF Types
<1>5. ASSUME NEW c \in Caller, AnnouncePresentation(c) PROVE Types'
  <2>1. announcing[c] \in BOOLEAN
    BY <1>0, <1>5 DEF AnnouncePresentation, OtherTypes
  <2>2. WireTypes'
    BY <1>0, <1>5, <2>1, PublishGateTypes DEF AnnouncePresentation, Gate
  <2>3. OtherTypes'
    BY <1>0, <1>5 DEF AnnouncePresentation, OtherTypes, timerVars, filterVars
  <2>4. TimerTypes'
    BY <1>0, <1>5 DEF AnnouncePresentation, TimerTypes, timerVars
  <2> QED
    BY <1>t, <2>2, <2>3, <2>4 DEF Types
<1>6. ASSUME NEW w \in Widget, NEW raw \in Level, Sample(w, raw) PROVE Types'
  <2>1. WireTypes'
    <3>1. CASE PublishItem([kind |-> "alert"])
      <4>1. [kind |-> "alert"] \in Item
        BY DEF Item
      <4> QED
        BY <1>0, <3>1, <4>1, PublishItemTypes
    <3>2. CASE UNCHANGED wireVars
      BY <1>0, <3>2 DEF WireTypes, wireVars
    <3> QED
      BY <1>6, <3>1, <3>2 DEF Sample
  <2>2. OtherTypes'
    BY <1>0, <1>6, <1>i DEF Sample, OtherTypes, timerVars, themeVars, filterVars
  <2>3. TimerTypes'
    BY <1>0, <1>6 DEF Sample, TimerTypes, timerVars
  <2> QED
    BY <1>t, <2>1, <2>2, <2>3 DEF Types
<1>7. CASE PublishLesser
  <2>1. WireTypes'
    <3>1. PICK k \in {"nudge", "notify"}, u \in BOOLEAN :
            PublishItem([kind |-> k, urgent |-> u, quiet |-> Working \/ announced, sure |-> gone = {}])
      BY <1>7 DEF PublishLesser
    <3>2. (Working \/ announced) \in BOOLEAN /\ (gone = {}) \in BOOLEAN
      BY Zenon
    <3>3. [kind |-> k, urgent |-> u, quiet |-> Working \/ announced, sure |-> gone = {}] \in Item
      BY <3>2 DEF Item
    <3> QED
      BY <1>0, <3>1, <3>3, PublishItemTypes
  <2>2. OtherTypes'
    BY <1>0, <1>7, <1>i DEF PublishLesser, OtherTypes, timerVars, themeVars, filterVars
  <2>3. TimerTypes'
    BY <1>0, <1>7 DEF PublishLesser, TimerTypes, timerVars
  <2> QED
    BY <1>t, <2>1, <2>2, <2>3 DEF Types
<1>8. CASE Receive
  <2>1. WireTypes'
    <3>1. inbox' \in Seq(Item) /\ Len(inbox') <= Capacity
      BY <1>0, <1>8, AttentionAssumption DEF Receive, WireTypes
    <3> QED
      BY <1>0, <1>8, <3>1 DEF Receive, WireTypes
  <2>2. muted' \in [Gate -> BOOLEAN] /\ shown' \in BOOLEAN
    <3> DEFINE i == Head(inbox)
    <3>1. i \in Item
      BY <1>0, <1>8 DEF Receive, WireTypes
    <3>2. CASE i.kind \in Gate
      <4>1. i.on \in BOOLEAN
        BY <3>1, <3>2 DEF Item, Gate
      <4>2. muted' = [muted EXCEPT ![i.kind] = i.on] /\ shown' = shown
        BY <1>8, <3>2 DEF Receive, Flags
      <4> QED
        BY <1>0, <4>1, <4>2 DEF OtherTypes
    <3>3. CASE i.kind \notin Gate
      <4>1. muted' = muted /\ shown' = Passes(i)
        BY <1>8, <3>3 DEF Receive
      <4>2. Passes(i) \in BOOLEAN
        BY Zenon DEF Passes
      <4> QED
        BY <1>0, <4>1, <4>2 DEF OtherTypes
    <3> QED
      BY <3>2, <3>3
  <2>3. OtherTypes'
    BY <1>0, <1>8, <2>2 DEF Receive, OtherTypes, timerVars, themeVars
  <2>4. TimerTypes'
    BY <1>0, <1>8 DEF Receive, TimerTypes, timerVars
  <2> QED
    BY <1>t, <2>1, <2>3, <2>4 DEF Types
<1>9. CASE UNCHANGED vars
  BY <1>0, <1>t, <1>9 DEF Types, TimerTypes, WireTypes, OtherTypes, vars, timerVars, themeVars,
     wireVars, filterVars
<1> QED
  BY <1>1, <1>2, <1>3, <1>4, <1>5, <1>6, <1>7, <1>8, <1>9 DEF Next

\* Every variable keeps its type, and an interval that is on never outlasts its
\* plan.
THEOREM TypeCorrect == Spec => []TypeOK
<1>1. Types => TypeOK
  BY DEF Types, TrackerTypes, TimerTypes, WireTypes, OtherTypes, TypeOK
<1> QED
  BY <1>1, InitTypes, TypesStep, PTL DEF Spec

-----------------------------------------------------------------------------
(* What becomes of a notification. *)

\* Flag g, once what is before position k of channel q has been read with flags m.
On(q, m, g, k) ==
  \/ m[g] /\ \A j \in 1..k-1 : q[j].kind # g
  \/ \E j \in 1..k-1 : /\ q[j].kind = g /\ q[j].on
                       /\ \A l \in j+1..k-1 : q[l].kind # g

\* What gate g was last announced to be.
Announced(g) == \/ g = "session" /\ Working
                \/ g = "presentation" /\ announced

\* The flags come to be what was announced last, unless that was lost.
FlagsInv == \A g \in Gate \ gone : On(inbox, muted, g, Len(inbox) + 1) <=> Announced(g)

\* They will be, when a notification is read, what they were announced to be
\* when it was published.
QuietInv ==
  \A k \in 1..Len(inbox) : inbox[k].kind \in {"nudge", "notify"} =>
    /\ inbox[k].kind = "nudge" => ~inbox[k].urgent
    /\ inbox[k].sure => (inbox[k].quiet <=> \E g \in Gate : On(inbox, muted, g, k))

\* What is appended changes nothing for what is before it.
LEMMA OnBefore ==
  ASSUME NEW q \in Seq(Item), NEW i \in Item, NEW m, NEW g, NEW k \in 1..Len(q)+1
  PROVE  On(Append(q, i), m, g, k) <=> On(q, m, g, k)
<1>1. \A j \in 1..k-1 : Append(q, i)[j] = q[j]
  OBVIOUS
<1>2. \A j \in 1..k-1 : \A l \in j+1..k-1 : l \in 1..k-1
  OBVIOUS
<1> QED
  BY <1>1, <1>2 DEF On

\* An appended event of gate g sets its flag, ...
LEMMA OnAppendedGate ==
  ASSUME NEW q \in Seq(Item), NEW i \in Item, NEW m, NEW g, i.kind = g
  PROVE  On(Append(q, i), m, g, Len(Append(q, i)) + 1) <=> i.on
<1> DEFINE r == Append(q, i)
           n == Len(q) + 1
<1>1. Len(r) = n /\ r[n] = i /\ n \in Nat
  OBVIOUS
<1>2. n \in 1..Len(r)+1-1 /\ (n+1..Len(r)+1-1) = {}
  BY <1>1
<1>3. i.on => On(r, m, g, Len(r) + 1)
  BY <1>1, <1>2 DEF On
<1>4. ASSUME NEW j \in 1..Len(r)+1-1, r[j].kind = g, \A l \in j+1..Len(r)+1-1 : r[l].kind # g
      PROVE  j = n
  <2>1. j \in Nat /\ j <= n
    BY <1>1
  <2>2. j < n => n \in j+1..Len(r)+1-1
    BY <1>1, <2>1
  <2> QED
    BY <1>1, <1>4, <2>1, <2>2
<1>5. On(r, m, g, Len(r) + 1) => i.on
  BY <1>1, <1>2, <1>4 DEF On
<1> QED
  BY <1>3, <1>5

\* ... and anything else leaves it.
LEMMA OnAppendedOther ==
  ASSUME NEW q \in Seq(Item), NEW i \in Item, NEW m, NEW g, i.kind # g
  PROVE  On(Append(q, i), m, g, Len(Append(q, i)) + 1) <=> On(q, m, g, Len(q) + 1)
<1> DEFINE r == Append(q, i)
           n == Len(q) + 1
<1>1. Len(r) = n /\ r[n] = i /\ n \in Nat
  OBVIOUS
<1>2. On(r, m, g, n) <=> On(q, m, g, n)
  <2>1. n \in 1..Len(q)+1
    OBVIOUS
  <2> QED
    BY <2>1, OnBefore
<1>3. (1..n+1-1) = (1..n-1) \cup {n}
  BY <1>1
<1>4. \A j \in 1..n-1 : (j+1..n+1-1) = (j+1..n-1) \cup {n}
  BY <1>1
<1>5. r[n].kind # g
  BY <1>1
<1>6. On(r, m, g, n + 1) <=> On(r, m, g, n)
  BY <1>3, <1>4, <1>5 DEF On
<1> QED
  BY <1>1, <1>2, <1>6

\* Reading the first item moves everything one place, its effect into the flags.
LEMMA OnTail ==
  ASSUME NEW q \in Seq(Item), q # <<>>, NEW m, NEW m2, NEW g, NEW k \in 1..Len(q),
         m2[g] <=> IF q[1].kind = g THEN q[1].on ELSE m[g]
  PROVE  On(Tail(q), m2, g, k) <=> On(q, m, g, k + 1)
<1> DEFINE r == Tail(q)
<1>1. Len(q) \in Nat /\ \A j \in 1..k-1 : r[j] = q[j+1]
  OBVIOUS
<1>2. \A j \in 1..k-1 : j + 1 \in 1..(k+1)-1 /\ \A l \in j+1..k-1 : l \in 1..k-1 /\ l+1 \in j+1+1..(k+1)-1
  OBVIOUS
<1>3. \A j \in 1..(k+1)-1 : j = 1 \/ (j - 1 \in 1..k-1 /\ j - 1 + 1 = j)
  OBVIOUS
<1>4. \A j \in 1..(k+1)-1 : \A l \in j+1..(k+1)-1 : l - 1 \in 1..k-1 /\ l - 1 + 1 = l /\ l - 1 \in j..k-1
  OBVIOUS
<1>7. q[1].kind = g => (m2[g] <=> q[1].on)
  BY Zenon
<1>8. q[1].kind # g => (m2[g] <=> m[g])
  BY Zenon
<1>5. ASSUME On(r, m2, g, k) PROVE On(q, m, g, k + 1)
  <2>1. CASE m2[g] /\ \A j \in 1..k-1 : r[j].kind # g
    <3>1. ASSUME NEW j \in 1..(k+1)-1, j # 1 PROVE q[j].kind # g
      <4>1. j - 1 \in 1..k-1 /\ j - 1 + 1 = j
        BY <1>3, <3>1
      <4>2. r[j-1] = q[j]
        BY <1>1, <4>1
      <4> QED
        BY <2>1, <4>1, <4>2
    <3>2. CASE q[1].kind = g
      <4>1. 1 \in 1..(k+1)-1 /\ \A l \in 1+1..(k+1)-1 : l # 1 /\ l \in 1..(k+1)-1
        OBVIOUS
      <4> QED
        BY <1>7, <2>1, <3>1, <3>2, <4>1 DEF On
    <3>3. CASE q[1].kind # g
      <4>1. m[g] /\ \A j \in 1..(k+1)-1 : q[j].kind # g
        BY <1>8, <2>1, <3>1, <3>3
      <4> QED
        BY <4>1 DEF On
    <3> QED
      BY <3>2, <3>3
  <2>2. ASSUME NEW j \in 1..k-1, r[j].kind = g, r[j].on, \A l \in j+1..k-1 : r[l].kind # g
        PROVE  On(q, m, g, k + 1)
    <3>1. j + 1 \in 1..(k+1)-1 /\ q[j+1].kind = g /\ q[j+1].on
      BY <1>1, <1>2, <2>2
    <3>2. ASSUME NEW l \in j+1+1..(k+1)-1 PROVE q[l].kind # g
      <4>1. l - 1 \in j+1..k-1 /\ l - 1 \in 1..k-1 /\ l - 1 + 1 = l
        OBVIOUS
      <4> QED
        BY <1>1, <2>2, <4>1
    <3> QED
      BY <3>1, <3>2 DEF On
  <2> QED
    BY <1>5, <2>1, <2>2 DEF On
<1>6. ASSUME On(q, m, g, k + 1) PROVE On(r, m2, g, k)
  <2>1. CASE m[g] /\ \A j \in 1..(k+1)-1 : q[j].kind # g
    <3>1. 1 \in 1..(k+1)-1
      OBVIOUS
    <3>2. m2[g]
      BY <1>8, <2>1, <3>1
    <3>3. \A j \in 1..k-1 : r[j].kind # g
      BY <1>1, <1>2, <2>1
    <3> QED
      BY <3>2, <3>3 DEF On
  <2>2. ASSUME NEW j \in 1..(k+1)-1, q[j].kind = g, q[j].on, \A l \in j+1..(k+1)-1 : q[l].kind # g
        PROVE  On(r, m2, g, k)
    <3>1. CASE j = 1
      <4>1. m2[g]
        BY <1>7, <2>2, <3>1
      <4>2. ASSUME NEW l \in 1..k-1 PROVE r[l].kind # g
        <5>1. l + 1 \in j+1..(k+1)-1
          BY <3>1
        <5> QED
          BY <1>1, <2>2, <5>1
      <4> QED
        BY <4>1, <4>2 DEF On
    <3>2. CASE j # 1
      <4>1. j - 1 \in 1..k-1 /\ j - 1 + 1 = j
        BY <1>3, <3>2
      <4>2. r[j-1].kind = g /\ r[j-1].on
        BY <1>1, <2>2, <4>1
      <4>3. ASSUME NEW l \in j-1+1..k-1 PROVE r[l].kind # g
        <5>1. l \in 1..k-1 /\ l + 1 \in j+1..(k+1)-1
          BY <4>1
        <5> QED
          BY <1>1, <2>2, <5>1
      <4> QED
        BY <4>1, <4>2, <4>3 DEF On
    <3> QED
      BY <3>1, <3>2
  <2>3. \/ m[g] /\ \A j \in 1..(k+1)-1 : q[j].kind # g
        \/ \E j \in 1..(k+1)-1 : /\ q[j].kind = g /\ q[j].on
                               /\ \A l \in j+1..(k+1)-1 : q[l].kind # g
    BY <1>6, Zenon DEF On
  <2> QED
    BY <2>1, <2>2, <2>3
<1> QED
  BY <1>5, <1>6

\* A step that touches neither the channel nor the flags keeps the invariant.
LEMMA NothingSaid ==
  ASSUME FlagsInv, QuietInv, UNCHANGED <<inbox, muted, gone>>,
         \A g \in Gate : Announced(g)' <=> Announced(g)
  PROVE  FlagsInv' /\ QuietInv'
<1>1. FlagsInv'
  BY DEF FlagsInv
<1>2. QuietInv'
  BY DEF QuietInv
<1> QED
  BY <1>1, <1>2

\* So does the announcement of a gate, whether it gets through or not, ...
LEMMA GateAnnounced ==
  ASSUME Types, FlagsInv, QuietInv, NEW g \in Gate, NEW on \in BOOLEAN,
         PublishGate(g, on), muted' = muted, Announced(g)' <=> on,
         \A h \in Gate \ {g} : Announced(h)' <=> Announced(h)
  PROVE  FlagsInv' /\ QuietInv'
<1>0. inbox \in Seq(Item)
  BY DEF Types, WireTypes
<1>1. CASE Full
  <2>1. inbox' = inbox /\ gone' = gone \cup {g}
    BY <1>1 DEF PublishGate
  <2>2. \A h \in Gate \ gone' : h \in Gate \ {g} /\ h \in Gate \ gone
    BY <2>1
  <2>3. FlagsInv'
    BY <2>1, <2>2 DEF FlagsInv
  <2>4. QuietInv'
    BY <2>1 DEF QuietInv
  <2> QED
    BY <2>3, <2>4
<1>2. CASE ~Full
  <2> DEFINE i == [kind |-> g, on |-> on]
  <2>1. inbox' = Append(inbox, i) /\ gone' = gone \ {g}
    BY <1>2 DEF PublishGate
  <2>2. i \in Item /\ i.kind = g /\ i.on = on
    BY DEF Item
  <2> HIDE DEF i
  <2>3. ASSUME NEW h \in Gate \ gone' PROVE On(inbox', muted', h, Len(inbox') + 1) <=> Announced(h)'
    <3>1. CASE h = g
      BY <1>0, <2>1, <2>2, <3>1, OnAppendedGate
    <3>2. CASE h # g
      <4>1. On(Append(inbox, i), muted, h, Len(Append(inbox, i)) + 1) <=> On(inbox, muted, h, Len(inbox) + 1)
        BY <1>0, <2>2, <3>2, OnAppendedOther
      <4>2. h \in Gate \ gone /\ h \in Gate \ {g}
        BY <2>1, <3>2
      <4> QED
        BY <2>1, <4>1, <4>2 DEF FlagsInv
    <3> QED
      BY <3>1, <3>2
  <2>4. FlagsInv'
    BY <2>3 DEF FlagsInv
  <2>5. QuietInv'
    <3> SUFFICES ASSUME NEW k \in 1..Len(inbox'), inbox'[k].kind \in {"nudge", "notify"}
                 PROVE  /\ inbox'[k].kind = "nudge" => ~inbox'[k].urgent
                        /\ inbox'[k].sure => (inbox'[k].quiet <=> \E h \in Gate : On(inbox', muted', h, k))
      BY DEF QuietInv
    <3>1. k # Len(inbox) + 1
      BY <1>0, <2>1, <2>2 DEF Gate
    <3>2. k \in 1..Len(inbox) /\ k \in 1..Len(inbox)+1 /\ inbox'[k] = inbox[k]
      BY <1>0, <2>1, <3>1
    <3>3. \A h \in Gate : On(inbox', muted', h, k) <=> On(inbox, muted, h, k)
      BY <1>0, <2>1, <2>2, <3>2, OnBefore
    <3> QED
      BY <3>2, <3>3 DEF QuietInv
  <2> QED
    BY <2>4, <2>5
<1> QED
  BY <1>1, <1>2

\* ... and the publication of anything else that says what was announced.
LEMMA ItemPublished ==
  ASSUME Types, FlagsInv, QuietInv, NEW i \in Item, PublishItem(i), muted' = muted,
         i.kind \notin Gate, \A h \in Gate : Announced(h)' <=> Announced(h),
         i.kind \in {"nudge", "notify"} =>
           /\ i.kind = "nudge" => ~i.urgent
           /\ i.sure => gone = {} /\ (i.quiet <=> \E h \in Gate : Announced(h))
  PROVE  FlagsInv' /\ QuietInv'
<1>0. inbox \in Seq(Item) /\ gone' = gone
  BY DEF Types, WireTypes, PublishItem
<1>1. CASE Full
  <2>1. inbox' = inbox
    BY <1>1 DEF PublishItem
  <2> QED
    BY <1>0, <2>1, NothingSaid
<1>2. CASE ~Full
  <2>1. inbox' = Append(inbox, i)
    BY <1>2 DEF PublishItem
  <2>2. FlagsInv'
    <3> SUFFICES ASSUME NEW h \in Gate \ gone'
                 PROVE  On(inbox', muted', h, Len(inbox') + 1) <=> Announced(h)'
      BY DEF FlagsInv
    <3>1. On(Append(inbox, i), muted, h, Len(Append(inbox, i)) + 1) <=> On(inbox, muted, h, Len(inbox) + 1)
      BY <1>0, OnAppendedOther
    <3> QED
      BY <1>0, <2>1, <3>1 DEF FlagsInv
  <2>3. QuietInv'
    <3> SUFFICES ASSUME NEW k \in 1..Len(inbox'), inbox'[k].kind \in {"nudge", "notify"}
                 PROVE  /\ inbox'[k].kind = "nudge" => ~inbox'[k].urgent
                        /\ inbox'[k].sure => (inbox'[k].quiet <=> \E h \in Gate : On(inbox', muted', h, k))
      BY DEF QuietInv
    <3>1. k \in 1..Len(inbox)+1
      BY <1>0, <2>1
    <3>2. \A h \in Gate : On(inbox', muted', h, k) <=> On(inbox, muted, h, k)
      BY <1>0, <2>1, <3>1, OnBefore
    <3>3. CASE k = Len(inbox) + 1
      <4>1. inbox'[k] = i
        BY <1>0, <2>1, <3>3
      <4>2. gone = {} => \A h \in Gate : On(inbox, muted, h, k) <=> Announced(h)
        BY <3>3 DEF FlagsInv
      <4> QED
        BY <3>2, <4>1, <4>2
    <3>4. CASE k # Len(inbox) + 1
      <4>1. k \in 1..Len(inbox) /\ inbox'[k] = inbox[k]
        BY <1>0, <2>1, <3>1, <3>4
      <4> QED
        BY <3>2, <4>1 DEF QuietInv
    <3> QED
      BY <3>3, <3>4
  <2> QED
    BY <2>2, <2>3
<1> QED
  BY <1>1, <1>2

\* Reading keeps it.
LEMMA ReceiveKeeps ==
  ASSUME Types, FlagsInv, QuietInv, Receive
  PROVE  FlagsInv' /\ QuietInv'
<1>0. inbox \in Seq(Item) /\ inbox # <<>> /\ inbox' = Tail(inbox) /\ gone' = gone
  BY DEF Types, WireTypes, Receive
<1>1. Len(inbox) \in Nat \ {0} /\ Len(inbox') + 1 = Len(inbox) /\ inbox[1] = Head(inbox)
  BY <1>0
<1>2. \A g \in Gate : Announced(g)' <=> Announced(g)
  BY DEF Receive, Announced, Working, timerVars
<1>3. \A g \in Gate : muted'[g] <=> IF inbox[1].kind = g THEN inbox[1].on ELSE muted[g]
  <2>1. CASE inbox[1].kind \in Gate
    <3>1. muted' = [muted EXCEPT ![inbox[1].kind] = inbox[1].on]
      BY <1>1, <2>1 DEF Receive, Flags
    <3>2. muted \in [Gate -> BOOLEAN]
      BY DEF Types, OtherTypes
    <3> QED
      BY <3>1, <3>2
  <2>2. CASE inbox[1].kind \notin Gate
    <3>1. muted' = muted
      BY <1>1, <2>2 DEF Receive
    <3> QED
      BY <2>2, <3>1
  <2> QED
    BY <2>1, <2>2
<1>4. \A g \in Gate : \A k \in 1..Len(inbox) : On(inbox', muted', g, k) <=> On(inbox, muted, g, k + 1)
  BY <1>0, <1>3, OnTail
<1>5. FlagsInv'
  <2>1. Len(inbox') + 1 \in 1..Len(inbox)
    BY <1>1
  <2>2. \A g \in Gate : On(inbox', muted', g, Len(inbox') + 1) <=> On(inbox, muted, g, Len(inbox) + 1)
    BY <1>1, <1>4, <2>1
  <2> QED
    BY <1>0, <1>2, <2>2 DEF FlagsInv
<1>6. QuietInv'
  <2> SUFFICES ASSUME NEW k \in 1..Len(inbox'), inbox'[k].kind \in {"nudge", "notify"}
               PROVE  /\ inbox'[k].kind = "nudge" => ~inbox'[k].urgent
                      /\ inbox'[k].sure => (inbox'[k].quiet <=> \E g \in Gate : On(inbox', muted', g, k))
    BY DEF QuietInv
  <2>1. k \in 1..Len(inbox) /\ k + 1 \in 1..Len(inbox) /\ inbox'[k] = inbox[k + 1]
    BY <1>0, <1>1
  <2>2. \A g \in Gate : On(inbox', muted', g, k) <=> On(inbox, muted, g, k + 1)
    BY <1>4, <2>1
  <2> QED
    BY <2>1, <2>2 DEF QuietInv
<1> QED
  BY <1>5, <1>6

\* Ending and entering an interval announce what the timer then says.
LEMMA TimerAnnounces ==
  ASSUME Types, FlagsInv, QuietInv, Command \/ Tick \/ Enter
  PROVE  FlagsInv' /\ QuietInv'
<1>0. /\ muted' = muted
      /\ next \in {"idle", "work", "break", None}
      /\ None \notin {"idle", "work", "break"}
  BY AttentionAssumption DEF Command, Tick, Enter, filterVars, Types, TimerTypes
<1>1. ASSUME NEW secs, NEW then \in {"idle", "work", "break"}, End(secs, then)
      PROVE  FlagsInv' /\ QuietInv'
  <2>1. PublishGate("session", FALSE) /\ next' = then /\ next' # None
    BY <1>0, <1>1 DEF End
  <2>2. ~Announced("session")' /\ \A h \in Gate \ {"session"} : Announced(h)' <=> Announced(h)
    BY <2>1 DEF Announced, Working, PublishGate
  <2> QED
    BY <1>0, <2>1, <2>2, GateAnnounced DEF Gate
<1>2. ASSUME NEW p \in {"work", "break"}, EnterPhase(p), next' = None
      PROVE  FlagsInv' /\ QuietInv'
  <2>1. PublishGate("session", p = "work") /\ phase' = p
    BY <1>2 DEF EnterPhase
  <2>2. Announced("session")' <=> p = "work"
    BY <1>2, <2>1 DEF Announced, Working
  <2>3. \A h \in Gate \ {"session"} : Announced(h)' <=> Announced(h)
    BY <2>1 DEF Announced, PublishGate
  <2>4. (p = "work") \in BOOLEAN
    OBVIOUS
  <2> QED
    BY <1>0, <2>1, <2>2, <2>3, <2>4, GateAnnounced DEF Gate
<1>3. ASSUME UNCHANGED wireVars, Working' <=> Working
      PROVE  FlagsInv' /\ QuietInv'
  BY <1>0, <1>3, NothingSaid DEF wireVars, Announced
<1>4. Successor \in {"idle", "work", "break"}
  BY DEF Successor
<1>5. CASE Command
  <2>0. next = None
    BY <1>5 DEF Command
  <2>1. CASE Start
    BY <1>2, <2>0, <2>1 DEF Start
  <2>2. ASSUME NEW stop \in BOOLEAN, Hold(stop) PROVE FlagsInv' /\ QuietInv'
    BY <1>3, <2>2 DEF Hold, Working
  <2>3. CASE Stop \/ Skip
    BY <1>1, <1>4, <2>3 DEF Stop, Skip
  <2>4. ASSUME NEW w \in Workspace, WorkspaceChanged(w) PROVE FlagsInv' /\ QuietInv'
    BY <1>3, <2>4 DEF WorkspaceChanged, Working
  <2> QED
    BY <1>5, <2>1, <2>2, <2>3, <2>4 DEF Command
<1>6. CASE Tick
  <2>1. CASE elapsed' >= planned
    BY <1>1, <1>4, <1>6, <2>1 DEF Tick
  <2>2. CASE ~(elapsed' >= planned)
    BY <1>3, <1>6, <2>2 DEF Tick, Working
  <2> QED
    BY <2>1, <2>2
<1>7. CASE Enter
  <2>1. next # None /\ next' = None /\ EnterPhase(next)
    BY <1>7 DEF Enter
  <2>2. CASE next = "idle"
    <3>1. UNCHANGED wireVars /\ phase' = "idle"
      BY <2>1, <2>2 DEF EnterPhase
    <3> QED
      BY <1>3, <2>1, <3>1 DEF Working
  <2>3. CASE next # "idle"
    BY <1>0, <1>2, <2>1, <2>3
  <2> QED
    BY <2>2, <2>3
<1> QED
  BY <1>5, <1>6, <1>7

\* Every step keeps the flags in line with what was sent of them.
LEMMA FlagsStep == Types /\ FlagsInv /\ QuietInv /\ [Next]_vars => FlagsInv' /\ QuietInv'
<1> SUFFICES ASSUME Types, FlagsInv, QuietInv, [Next]_vars PROVE FlagsInv' /\ QuietInv'
  OBVIOUS
<1>1. CASE Command \/ Tick \/ Enter
  BY <1>1, TimerAnnounces
<1>2. ASSUME NEW c \in Caller, SetPresentation(c) PROVE FlagsInv' /\ QuietInv'
  BY <1>2, NothingSaid DEF SetPresentation, wireVars, filterVars, timerVars, Announced, Working
<1>3. ASSUME NEW c \in Caller, AnnouncePresentation(c) PROVE FlagsInv' /\ QuietInv'
  <2>1. announcing[c] \in BOOLEAN /\ PublishGate("presentation", announcing[c]) /\ muted' = muted
    BY <1>3 DEF AnnouncePresentation, Types, OtherTypes, filterVars
  <2>2. announced' = announcing[c]
    BY <2>1 DEF PublishGate
  <2>3. Announced("presentation")' <=> announcing[c]
    BY <2>2 DEF Announced
  <2>4. \A h \in Gate \ {"presentation"} : Announced(h)' <=> Announced(h)
    BY <1>3 DEF Announced, Working, AnnouncePresentation, timerVars
  <2> QED
    BY <2>1, <2>3, <2>4, GateAnnounced DEF Gate
<1>4. ASSUME NEW w \in Widget, NEW raw \in Level, Sample(w, raw) PROVE FlagsInv' /\ QuietInv'
  <2>1. muted' = muted /\ UNCHANGED timerVars
    BY <1>4 DEF Sample, filterVars
  <2>2. CASE UNCHANGED wireVars
    BY <2>1, <2>2, NothingSaid DEF wireVars, timerVars, Announced, Working
  <2>3. CASE PublishItem([kind |-> "alert"])
    <3> DEFINE i == [kind |-> "alert"]
    <3>1. i \in Item /\ i.kind \notin Gate /\ i.kind \notin {"nudge", "notify"}
      BY DEF Item, Gate
    <3>2. \A h \in Gate : Announced(h)' <=> Announced(h)
      BY <2>1, <2>3 DEF Announced, Working, timerVars, PublishItem
    <3> HIDE DEF i
    <3> QED
      BY <2>1, <2>3, <3>1, <3>2, ItemPublished DEF i
  <2> QED
    BY <1>4, <2>2, <2>3 DEF Sample
<1>5. CASE PublishLesser
  <2>1. PICK k \in {"nudge", "notify"}, u \in BOOLEAN :
          /\ k = "nudge" => ~u
          /\ PublishItem([kind |-> k, urgent |-> u, quiet |-> Working \/ announced, sure |-> gone = {}])
    BY <1>5 DEF PublishLesser
  <2> DEFINE i == [kind |-> k, urgent |-> u, quiet |-> Working \/ announced, sure |-> gone = {}]
  <2>2. (Working \/ announced) \in BOOLEAN /\ (gone = {}) \in BOOLEAN
    BY Zenon
  <2>3. i \in Item /\ i.kind \notin Gate
    BY <2>2 DEF Item, Gate
  <2>4. i.kind = "nudge" => ~i.urgent
    BY <2>1
  <2>5. i.sure => gone = {}
    OBVIOUS
  <2>6. (\E h \in Gate : Announced(h)) <=> Working \/ announced
    BY DEF Announced, Gate
  <2>7. i.quiet <=> \E h \in Gate : Announced(h)
    BY <2>6
  <2>8. muted' = muted /\ \A h \in Gate : Announced(h)' <=> Announced(h)
    BY <1>5, <2>1 DEF PublishLesser, filterVars, timerVars, Announced, Working, PublishItem
  <2>9. PublishItem(i)
    BY <2>1
  <2> HIDE DEF i
  <2> QED
    BY <2>3, <2>4, <2>5, <2>7, <2>8, <2>9, ItemPublished
<1>6. CASE Receive
  BY <1>6, ReceiveKeeps
<1>7. CASE UNCHANGED vars
  BY <1>7, NothingSaid DEF vars, wireVars, filterVars, timerVars, Announced, Working
<1> QED
  BY <1>1, <1>2, <1>3, <1>4, <1>5, <1>6, <1>7 DEF Next

\* Each notification is shown or dropped as was right when it was published,
\* however long it waited and whatever was lost before and made good.
THEOREM RightWhenPublished == Spec => TreatedAsPublished
<1>1. Init => Types /\ FlagsInv /\ QuietInv
  <2> SUFFICES ASSUME Init PROVE FlagsInv /\ QuietInv
    BY InitTypes
  <2>1. inbox = <<>> /\ Len(inbox) = 0
    BY DEF Init
  <2>2. \A g \in Gate : ~muted[g] /\ ~Announced(g)
    BY DEF Init, Announced, Working
  <2>3. FlagsInv
    BY <2>1, <2>2 DEF FlagsInv, On
  <2> QED
    BY <2>1, <2>3 DEF QuietInv
<1>2. Types /\ FlagsInv /\ QuietInv /\ [Next]_vars =>
        [Receive =>
           LET i == Head(inbox) IN
           /\ i.kind = "alert" => shown'
           /\ i.kind \in {"nudge", "notify"} /\ i.sure => (shown' <=> i.urgent \/ ~i.quiet)]_vars
  <2> SUFFICES ASSUME Types, FlagsInv, QuietInv, Receive
               PROVE  LET i == Head(inbox) IN
                      /\ i.kind = "alert" => shown'
                      /\ i.kind \in {"nudge", "notify"} /\ i.sure => (shown' <=> i.urgent \/ ~i.quiet)
    BY Zenon
  <2> DEFINE i == Head(inbox)
  <2>1. i = inbox[1] /\ 1 \in 1..Len(inbox)
    BY DEF Receive, Types, WireTypes
  <2>2. i.kind \in {"alert", "nudge", "notify"} => shown' = Passes(i)
    BY DEF Receive, Gate
  <2>3. (\E g \in Gate : On(inbox, muted, g, 1)) <=> Quiet
    <3>1. \A g \in Gate : On(inbox, muted, g, 1) <=> muted[g]
      BY DEF On
    <3> QED
      BY <3>1 DEF Quiet
  <2>4. i.kind \in {"nudge", "notify"} =>
          /\ i.kind = "nudge" => ~i.urgent
          /\ i.sure => (i.quiet <=> Quiet)
    BY <2>1, <2>3 DEF QuietInv
  <2> HIDE DEF i
  <2>5. i.kind = "alert" => shown'
    BY <2>2 DEF Passes
  <2>6. i.kind \in {"nudge", "notify"} /\ i.sure => (shown' <=> i.urgent \/ ~i.quiet)
    BY <2>2, <2>4 DEF Passes
  <2> QED
    BY <2>5, <2>6 DEF i
<1> QED
  BY <1>1, <1>2, TypesStep, FlagsStep, InitTypes, PTL DEF Spec, TreatedAsPublished

-----------------------------------------------------------------------------
(* The seconds of work. *)

\* What is booked and what the interval counts, by its own name.
InFlight == IF Working THEN elapsed ELSE 0
BookedInv == Total(booked, 0, Workspace) + InFlight = worked

\* Booking an interval adds its seconds to the total.
LEMMA BookedMore ==
  ASSUME TimerTypes, NEW w \in Workspace, NEW secs \in Nat
  PROVE  Total([booked EXCEPT ![w] = @ + secs], 0, Workspace) = Total(booked, 0, Workspace) + secs
<1>1. PICK f, h : f = booked /\ h = [booked EXCEPT ![w] = @ + secs]
  OBVIOUS
<1>2. /\ \A x \in Workspace : f[x] \in Int
      /\ h[w] = f[w] + secs /\ h[w] \in Int /\ \A x \in Workspace \ {w} : h[x] = f[x]
  BY <1>1 DEF TimerTypes
<1>3. IsFiniteSet(Workspace)
  BY AttentionAssumption
<1>4. Total(h, 0, Workspace) = Total(f, 0, Workspace) - f[w] + h[w] /\ Total(f, 0, Workspace) \in Int
  BY <1>2, <1>3, TotalUpdate, TotalInt
<1> QED
  BY <1>1, <1>2, <1>4

\* The end of an interval, after secs seconds, leaves none of them in flight.
LEMMA EndBooks ==
  ASSUME TimerTypes, BookedInv, next = None, NEW secs \in Nat,
         NEW then \in {"idle", "work", "break"}, End(secs, then)
  PROVE  BookedInv'
<1>1. InFlight' = 0
  BY AttentionAssumption DEF End, InFlight, Working
<1>2. /\ Total(booked, 0, Workspace) \in Int /\ worked \in Nat
      /\ elapsed \in Int
  <2>1. IsFiniteSet(Workspace) /\ \A w \in Workspace : booked[w] \in Int
    BY AttentionAssumption DEF TimerTypes
  <2>2. planned \in Nat
    BY AttentionAssumption DEF TimerTypes
  <2> QED
    BY <2>1, <2>2, TotalInt DEF TimerTypes
<1>3. CASE phase = "work" /\ project # None
  <2>1. project \in Workspace /\ booked' = [booked EXCEPT ![project] = @ + secs]
    BY <1>3 DEF End, TimerTypes
  <2>2. Total(booked', 0, Workspace) = Total(booked, 0, Workspace) + secs
    BY <2>1, BookedMore
  <2>3. worked' = worked + (secs - elapsed) /\ InFlight = elapsed
    BY <1>3 DEF End, InFlight, Working
  <2> QED
    BY <1>1, <1>2, <2>2, <2>3 DEF BookedInv
<1>4. CASE phase = "work" /\ project = None
  <2>1. worked' = worked - elapsed /\ booked' = booked /\ InFlight = elapsed
    BY <1>4 DEF End, InFlight, Working
  <2> QED
    BY <1>1, <1>2, <2>1 DEF BookedInv
<1>5. CASE phase # "work"
  <2>1. worked' = worked /\ booked' = booked /\ InFlight = 0
    BY <1>5 DEF End, InFlight, Working
  <2> QED
    BY <1>1, <1>2, <2>1 DEF BookedInv
<1> QED
  BY <1>3, <1>4, <1>5

\* Every step keeps the account.
LEMMA BookedStep == Types /\ BookedInv /\ [Next]_vars => BookedInv'
<1> SUFFICES ASSUME TimerTypes, BookedInv, [Next]_vars PROVE BookedInv'
  BY DEF Types
<1>0. planned \in Nat /\ elapsed \in Nat /\ Total(booked, 0, Workspace) \in Int /\ worked \in Nat
  <2>1. IsFiniteSet(Workspace) /\ (\A w \in Workspace : booked[w] \in Int) /\ planned \in Nat
    BY AttentionAssumption DEF TimerTypes
  <2> QED
    BY <2>1, TotalInt DEF TimerTypes
<1>s. Successor \in {"idle", "work", "break"}
  BY DEF Successor
<1>1. CASE Enter
  <2>1. next # None /\ booked' = booked /\ worked' = worked /\ elapsed' = 0
    BY <1>1 DEF Enter, EnterPhase
  <2>2. InFlight = 0 /\ InFlight' = 0
    BY <2>1 DEF InFlight, Working
  <2> QED
    BY <2>1, <2>2 DEF BookedInv
<1>2. CASE Tick
  <2>1. next = None /\ phase # "idle" /\ elapsed' = elapsed + 1
    BY <1>2 DEF Tick
  <2>2. CASE elapsed' >= planned
    <3>1. End(elapsed', Successor)
      BY <1>2, <2>2 DEF Tick
    <3>2. PICK secs \in Nat : secs = elapsed'
      BY <1>0, <2>1
    <3> QED
      BY <1>s, <2>1, <3>1, <3>2, EndBooks
  <2>3. CASE ~(elapsed' >= planned)
    <3>1. /\ worked' = IF phase = "work" THEN worked + 1 ELSE worked
          /\ phase' = phase /\ next' = next /\ booked' = booked
      BY <1>2, <2>3 DEF Tick
    <3>2. InFlight' = IF phase = "work" THEN elapsed + 1 ELSE 0
      BY <2>1, <3>1 DEF InFlight, Working
    <3>3. InFlight = IF phase = "work" THEN elapsed ELSE 0
      BY <2>1 DEF InFlight, Working
    <3> QED
      BY <1>0, <3>1, <3>2, <3>3 DEF BookedInv
  <2> QED
    BY <2>2, <2>3
<1>3. CASE Command
  <2>0. next = None
    BY <1>3 DEF Command
  <2>1. CASE Start
    <3>1. /\ phase = "idle" /\ elapsed' = 0 /\ booked' = booked /\ worked' = worked
      BY <2>1 DEF Start, EnterPhase
    <3>2. InFlight = 0 /\ InFlight' = 0
      BY <3>1 DEF InFlight, Working
    <3> QED
      BY <3>1, <3>2 DEF BookedInv
  <2>2. CASE Stop \/ Skip
    <3>1. PICK then \in {"idle", "work", "break"} : End(elapsed, then)
      BY <1>s, <2>2 DEF Stop, Skip
    <3>2. PICK secs \in Nat : secs = elapsed
      BY <1>0
    <3> QED
      BY <2>0, <3>1, <3>2, EndBooks
  <2>3. CASE Hold(TRUE) \/ Hold(FALSE) \/ \E w \in Workspace : WorkspaceChanged(w)
    BY <2>3 DEF Hold, WorkspaceChanged, BookedInv, InFlight, Working
  <2> QED
    BY <1>3, <2>1, <2>2, <2>3 DEF Command
<1>4. CASE UNCHANGED timerVars
  BY <1>4 DEF timerVars, BookedInv, InFlight, Working
<1>5. [Next]_vars => Command \/ Tick \/ Enter \/ UNCHANGED timerVars
  BY DEF Next, vars, SetPresentation, AnnouncePresentation, Sample, PublishLesser, Receive
<1> QED
  BY <1>1, <1>2, <1>3, <1>4, <1>5

\* Every second of work is booked once, however its interval ends
\* (SessionTimerModule::end_current).
THEOREM WorkIsBooked == Spec => []WorkBooked
<1>1. Init => BookedInv
  <2> SUFFICES ASSUME Init PROVE BookedInv
    OBVIOUS
  <2>1. IsFiniteSet(Workspace) /\ \A w \in Workspace : booked[w] = 0
    BY AttentionAssumption DEF Init
  <2>2. Total(booked, 0, Workspace) = 0
    BY <2>1, TotalZero
  <2> QED
    BY <2>2 DEF Init, BookedInv, InFlight, Working
<1>2. Types /\ BookedInv => WorkBooked
  <2> SUFFICES ASSUME Types, BookedInv PROVE WorkBooked
    OBVIOUS
  <2>1. DOMAIN booked = Workspace /\ IsFiniteSet(Workspace)
    BY AttentionAssumption DEF Types, TimerTypes
  <2>2. FoldFunction(+, 0, booked) = Total(booked, 0, Workspace)
    BY <2>1, FoldFunctionTotal
  <2> QED
    BY <2>2 DEF BookedInv, WorkBooked, InFlight
<1> QED
  BY <1>1, <1>2, InitTypes, TypesStep, BookedStep, PTL DEF Spec

-----------------------------------------------------------------------------
(* Returns: warmup, review suggestions, the interruption pill. *)

Hour == Nat \cup {Never}

Warming ==
  {Awake} \cup [at : {"publish"}, stamp : Nat, asked : BOOLEAN] \cup [at : {"persist"}, stamp : Nat]

ReturnsTypeOK ==
  /\ hour \in Nat
  /\ spot \in Spot \cup {Never}
  /\ leftAt \in [Spot -> Hour] /\ seenAt \in [Spot -> Hour] /\ nudgedAt \in [Spot -> Hour]
  /\ pill \in [spot : Spot, away : Int, truly : Int] \cup {Never}
  /\ due \in [Spot -> BOOLEAN]
  /\ nudges \in [Spot -> SUBSET Nat]
  /\ dayTrigger \in BOOLEAN /\ fileLost \in BOOLEAN
  /\ {lastActivity, warmedAt, warmFile, firedAt} \subseteq Hour
  /\ warming \in Warming
  /\ restarts \in Nat

\* The tracker's departures are the user's own, and the pill was right.
PillInv ==
  /\ spot # Never => seenAt[spot] = hour
  /\ \A s \in Spot : leftAt[s] # Never /\ s # spot => seenAt[s] = leftAt[s]
  /\ pill # Never => pill.away >= Away /\ pill.away = pill.truly

\* last_nudged is the latest of the suggestions, which lie a cooldown apart.
ReviewInv ==
  \A s \in Spot :
    /\ nudgedAt[s] = Never => nudges[s] = {}
    /\ nudgedAt[s] # Never => nudgedAt[s] <= hour /\ \A t \in nudges[s] : t <= nudgedAt[s]
    /\ \A t, u \in nudges[s] : t < u => u - t >= Cooldown

\* Far enough from the last firing for a firing of its own.
MayFire == hour - firedAt >= Gap \/ (dayTrigger /\ Day(firedAt) < Day(hour))

\* The stamp in memory is the last firing's, and so is the one in the file,
\* outside fire() and unless it was lost.
WarmupInv ==
  /\ warming.at = "persist" => firedAt = warming.stamp /\ warmedAt = warming.stamp
  /\ warming.at = "publish" => warming.stamp <= hour
  /\ ~fileLost => warmedAt = firedAt
  /\ ~fileLost /\ warming.at # "persist" => warmFile = firedAt
  /\ warming.at = "publish" /\ ~warming.asked /\ firedAt # Never /\ ~fileLost => MayFire

ReturnsInv == ReturnsTypeOK /\ PillInv /\ ReviewInv /\ WarmupInv

ReturnsNext == PillNext \/ ReviewNext \/ WarmupNext

\* The day of a later hour is no earlier.
LEMMA DayGrows ==
  ASSUME NEW t \in Nat, NEW u \in Nat, t <= u
  PROVE  Day(t) \in Nat /\ Day(u) \in Nat /\ Day(t) <= Day(u)
BY ReturnsAssumption DEF Day

\* The invariant holds at first.
LEMMA ReturnsStart == ReturnsInit => ReturnsInv
<1> SUFFICES ASSUME ReturnsInit PROVE ReturnsInv
  OBVIOUS
<1> USE ReturnsAssumption DEF ReturnsInit, Awake
<1>1. ReturnsTypeOK
  BY DEF ReturnsTypeOK, Hour, Warming
<1>2. PillInv
  BY DEF PillInv
<1>3. ReviewInv
  BY DEF ReviewInv
<1>4. WarmupInv
  BY DEF WarmupInv
<1> QED
  BY <1>1, <1>2, <1>3, <1>4 DEF ReturnsInv

\* Every step keeps the types.
LEMMA ReturnsTypes == ReturnsTypeOK /\ PillInv /\ [ReturnsNext]_returnVars => ReturnsTypeOK'
<1> SUFFICES ASSUME ReturnsTypeOK, PillInv, [ReturnsNext]_returnVars PROVE ReturnsTypeOK'
  OBVIOUS
<1> USE ReturnsAssumption DEF ReturnsTypeOK, Hour, Warming, Awake, pillVars, reviewVars, warmVars
<1>1. CASE HourPasses
  BY <1>1 DEF HourPasses
<1>2. ASSUME NEW s \in Spot, ApplyFocus(s) PROVE ReturnsTypeOK'
  <2>1. pill' \in [spot : Spot, away : Int, truly : Int] \cup {Never}
    <3>1. hour \in Int /\ (leftAt'[s] # Never => leftAt'[s] \in Int /\ seenAt[s] \in Int)
      BY <1>2 DEF ApplyFocus, PillInv
    <3> QED
      BY <3>1, <1>2 DEF ApplyFocus
  <2> QED
    BY <1>2, <2>1 DEF ApplyFocus
<1>3. ASSUME NEW s \in Spot, Suggest(s) PROVE ReturnsTypeOK'
  BY <1>3 DEF Suggest
<1>4. ASSUME NEW s \in Spot, CardsChange(s) PROVE ReturnsTypeOK'
  BY <1>4 DEF CardsChange
<1>5. CASE Activity
  BY <1>5 DEF Activity
<1>6. CASE OpenWarmup
  BY <1>6 DEF OpenWarmup
<1>7. CASE Publish
  BY <1>7 DEF Publish
<1>8. CASE NoPayload
  BY <1>8 DEF NoPayload
<1>9. CASE Persist
  <2>1. warming.stamp \in Nat
    BY <1>9 DEF Persist
  <2>2. warmFile' \in Hour /\ fileLost' \in BOOLEAN
    BY <1>9, <2>1 DEF Persist
  <2>3. warming' \in Warming
    BY <1>9 DEF Persist
  <2> QED
    BY <1>9, <2>2, <2>3 DEF Persist
<1>10. CASE Restart
  BY <1>10 DEF Restart
<1>11. CASE UNCHANGED returnVars
  BY <1>11 DEF returnVars
<1> QED
  BY <1>1, <1>2, <1>3, <1>4, <1>5, <1>6, <1>7, <1>8, <1>9, <1>10, <1>11
  DEF ReturnsNext, PillNext, ReviewNext, WarmupNext

\* The interruption pill.
LEMMA PillStep == ReturnsTypeOK /\ PillInv /\ [ReturnsNext]_returnVars => PillInv'
<1> SUFFICES ASSUME ReturnsTypeOK, PillInv, [ReturnsNext]_returnVars PROVE PillInv'
  OBVIOUS
<1> USE ReturnsAssumption DEF ReturnsTypeOK, PillInv, Hour
<1>1. CASE HourPasses
  BY <1>1 DEF HourPasses
<1>2. ASSUME NEW s \in Spot, ApplyFocus(s) PROVE PillInv'
  BY <1>2 DEF ApplyFocus
<1>3. CASE Restart
  BY <1>3 DEF Restart
<1>4. CASE UNCHANGED <<hour, pillVars>>
  BY <1>4 DEF pillVars
<1> QED
  BY <1>1, <1>2, <1>3, <1>4
  DEF ReturnsNext, PillNext, ReviewNext, WarmupNext, returnVars, reviewVars, warmVars,
      Suggest, CardsChange, Activity, OpenWarmup, Publish, NoPayload, Persist

\* The review suggestions.
LEMMA ReviewStep == ReturnsTypeOK /\ ReviewInv /\ [ReturnsNext]_returnVars => ReviewInv'
<1> SUFFICES ASSUME ReturnsTypeOK, ReviewInv, [ReturnsNext]_returnVars PROVE ReviewInv'
  OBVIOUS
<1> USE ReturnsAssumption DEF ReturnsTypeOK, ReviewInv, Hour
<1>1. CASE HourPasses
  BY <1>1 DEF HourPasses, reviewVars
<1>2. ASSUME NEW s \in Spot, Suggest(s) PROVE ReviewInv'
  BY <1>2 DEF Suggest
<1>3. CASE Restart
  BY <1>3 DEF Restart
<1>4. CASE UNCHANGED <<hour, nudgedAt, nudges>>
  BY <1>4
<1> QED
  BY <1>1, <1>2, <1>3, <1>4
  DEF ReturnsNext, PillNext, ReviewNext, WarmupNext, returnVars, pillVars, reviewVars, warmVars,
      ApplyFocus, CardsChange, Activity, OpenWarmup, Publish, NoPayload, Persist

\* Warmup: what is decided at an activity still holds when it is published.
LEMMA WarmupStep == ReturnsTypeOK /\ WarmupInv /\ [ReturnsNext]_returnVars => WarmupInv'
<1> SUFFICES ASSUME ReturnsTypeOK, WarmupInv, [ReturnsNext]_returnVars PROVE WarmupInv'
  OBVIOUS
<1> USE ReturnsAssumption DEF ReturnsTypeOK, Hour, Warming, Awake
<1>1. CASE HourPasses
  <2>1. MayFire /\ firedAt # Never => MayFire'
    <3> SUFFICES ASSUME firedAt # Never, MayFire PROVE MayFire'
      OBVIOUS
    <3>1. hour' = hour + 1 /\ UNCHANGED <<firedAt, dayTrigger>>
      BY <1>1 DEF HourPasses, warmVars
    <3>2. Day(hour) <= Day(hour + 1) /\ {Day(firedAt), Day(hour), Day(hour + 1)} \subseteq Nat
      BY DayGrows
    <3>3. Day(hour)' = Day(hour + 1) /\ Day(firedAt)' = Day(firedAt)
      BY <3>1 DEF Day
    <3> QED
      BY <3>1, <3>2, <3>3 DEF MayFire
  <2> QED
    BY <1>1, <2>1 DEF HourPasses, warmVars, WarmupInv
<1>2. CASE Activity
  <2>1. WouldFire /\ ~fileLost /\ firedAt # Never => MayFire'
    BY <1>2 DEF Activity, WouldFire, WarmupInv, MayFire, Day
  <2> QED
    BY <1>2, <2>1 DEF Activity, WarmupInv
<1>3. CASE OpenWarmup
  BY <1>3 DEF OpenWarmup, WarmupInv
<1>4. CASE Publish
  BY <1>4 DEF Publish, WarmupInv
<1>5. CASE NoPayload
  BY <1>5 DEF NoPayload, WarmupInv
<1>6. CASE Persist
  BY <1>6 DEF Persist, WarmupInv
<1>7. CASE Restart
  BY <1>7 DEF Restart, WarmupInv
<1>8. CASE UNCHANGED <<hour, warmVars>>
  BY <1>8 DEF warmVars, WarmupInv, MayFire, Day
<1>9. ASSUME NEW s \in Spot, ApplyFocus(s) \/ Suggest(s) \/ CardsChange(s) PROVE UNCHANGED <<hour, warmVars>>
  BY <1>9 DEF ApplyFocus, Suggest, CardsChange
<1>10. CASE UNCHANGED returnVars
  BY <1>8, <1>10 DEF returnVars, warmVars
<1> QED
  BY <1>1, <1>2, <1>3, <1>4, <1>5, <1>6, <1>7, <1>8, <1>9, <1>10
  DEF ReturnsNext, PillNext, ReviewNext, WarmupNext

\* Whatever the gaps, cooldowns, days and workspaces, restarts included, nobody is
\* nagged (NobodyIsNagged): warmup keeps its gap from any firing whose stamp
\* reached the file, suggestions keep the cooldown, the pill tells the whole absence.
THEOREM ReturnsCorrect == ReturnsSpec => []NobodyIsNagged
<1>1. ReturnsInv /\ [ReturnsNext]_returnVars => ReturnsInv'
  BY ReturnsTypes, PillStep, ReviewStep, WarmupStep DEF ReturnsInv
<1>2. ReturnsInv => NobodyIsNagged
  BY DEF ReturnsInv, PillInv, ReviewInv, WarmupInv, MayFire, NobodyIsNagged
<1> QED
  BY ReturnsStart, <1>1, <1>2, PTL DEF ReturnsSpec, ReturnsNext

-----------------------------------------------------------------------------
(* Projects: the focus time that the registry keeps. *)

\* The phases of a file's load, and of the focus timer's booking.
Loader ==
  {Ready} \cup [at : {"copy"}, file : File, status : Status] \cup [at : {"store"}, file : File, entry : Entry]
Follower ==
  {Ready} \cup [at : {"stop"}, p : Proj \cup {Nobody}, w : Space]
  \cup [at : {"book"}, p : Proj \cup {Nobody}, w : Space, last : Stopwatch \cup {Nobody}, elapsed : Nat]
  \cup [at : {"enter"}, p : Proj, w : Space]

RegistryTypeOK ==
  /\ prow \in [Proj -> Status \cup {Nobody}]
  /\ entry \in [Proj -> Entry \cup {Nobody}]
  /\ watch \in Stopwatch \cup {Nobody}
  /\ wsEvents \in Seq(Space)
  /\ follower \in Follower
  /\ loader \in Loader
  /\ boot \subseteq File
  /\ measured \in [Proj -> Nat] /\ closings \in [Proj -> Nat]
  /\ crossed \subseteq Proj
  /\ fileOf \in [Proj -> File \cup {Nobody}]
  /\ half \in Nat /\ deeds \in Nat

\* The stopwatch that runs, or that was stopped and is being booked.
Held == IF follower.at = "book" THEN follower.last ELSE watch

\* Whoever is named by a stopwatch or the follower is in the index.
Named ==
  /\ watch # Nobody => watch.p \in Indexed /\ watch.since <= half
  /\ follower.at \in {"stop", "book", "enter"} /\ follower.p # Nobody => follower.p \in Indexed
  /\ follower.at = "book" /\ follower.last # Nobody => follower.last.p \in Indexed
  /\ follower.at \in {"book", "enter"} => watch = Nobody

\* The run-time state e is what p's stopwatch measured.
TimeKept(p, e) ==
  /\ Sec * e.secs <= measured[p]
  /\ p \notin crossed =>
       /\ measured[p] - Sec * e.secs <= (Sec - 1) * closings[p]
       /\ e.spacesIn = IF Held # Nobody /\ Held.p = p THEN {Held.w} ELSE {}

\* The index holds it, and so does the copy a reload has made.
TimeInv ==
  /\ \A p \in Proj : IF p \in Indexed THEN TimeKept(p, entry[p]) ELSE measured[p] = 0 /\ closings[p] = 0
  /\ loader.at = "store" => TimeKept(loader.file.name, loader.entry)

\* The index shows the file read last, and the reload under way brings its own.
FileInv ==
  /\ \A p \in Proj :
       /\ (entry[p] = Nobody) = (fileOf[p] = Nobody)
       /\ fileOf[p] # Nobody =>
            entry[p].spaces = fileOf[p].spaces /\ fileOf[p].status \in {Undeclared, entry[p].status}
  /\ loader.at = "copy" => loader.file.status \in {Undeclared, loader.status}
  /\ loader.at = "store" =>
       /\ loader.entry.spaces = loader.file.spaces
       /\ loader.file.status \in {Undeclared, loader.entry.status}

RegistryInv == RegistryTypeOK /\ Named /\ TimeInv /\ FileInv

\* Whole seconds of an interval: less than a second is lost.
LEMMA WholeSeconds ==
  ASSUME NEW e \in Nat
  PROVE  e \div Sec \in Nat /\ Sec * (e \div Sec) <= e /\ e - Sec * (e \div Sec) <= Sec - 1
BY RegistryAssumption

\* Booking one more interval keeps a second per interval.
LEMMA OneMoreInterval ==
  ASSUME NEW secs \in Nat, NEW whole \in Nat, NEW e \in Nat, NEW m \in Nat, NEW n \in Nat,
         Sec * secs <= m, Sec * whole <= e, e - Sec * whole <= Sec - 1
  PROVE  /\ Sec * (secs + whole) <= m + e
         /\ m - Sec * secs <= (Sec - 1) * n => (m + e) - Sec * (secs + whole) <= (Sec - 1) * (n + 1)
<1>1. Sec \in Nat /\ Sec - 1 \in Nat
  BY RegistryAssumption
<1>2. /\ Sec * (secs + whole) = Sec * secs + Sec * whole
      /\ (Sec - 1) * (n + 1) = (Sec - 1) * n + (Sec - 1)
      /\ Sec * secs \in Nat /\ Sec * whole \in Nat /\ (Sec - 1) * n \in Nat
  BY <1>1
<1> HIDE DEF RegistryAssumption
<1> QED
  BY <1>1, <1>2

\* What a whole entry is.
LEMMA Booked ==
  ASSUME NEW e \in Entry, NEW last \in Stopwatch, NEW t \in Nat
  PROVE  /\ BookedTo(e, last, t) \in Entry
         /\ BookedTo(e, last, t).secs = e.secs + t \div Sec
         /\ BookedTo(e, last, t).spacesIn = e.spacesIn \ {last.w}
         /\ BookedTo(e, last, t).spaces = e.spaces
         /\ BookedTo(e, last, t).status = e.status
<1>1. e.secs + t \div Sec \in Nat /\ e.spacesIn \ {last.w} \in SUBSET Space
  BY WholeSeconds DEF Entry
<1> QED
  BY <1>1 DEF BookedTo, Entry

\* What an entered project's entry is.
LEMMA Entered ==
  ASSUME NEW e \in Entry, NEW w \in Space
  PROVE  /\ [e EXCEPT !.spacesIn = @ \cup {w}] \in Entry
         /\ [e EXCEPT !.spacesIn = @ \cup {w}].spacesIn = e.spacesIn \cup {w}
         /\ [e EXCEPT !.spacesIn = @ \cup {w}].secs = e.secs
         /\ [e EXCEPT !.spacesIn = @ \cup {w}].spaces = e.spaces
         /\ [e EXCEPT !.spacesIn = @ \cup {w}].status = e.status
<1>1. e.spacesIn \cup {w} \in SUBSET Space
  BY DEF Entry
<1> QED
  BY <1>1 DEF Entry

\* The invariant holds at first.
LEMMA RegistryStart == RegistryInit => RegistryInv
<1> SUFFICES ASSUME RegistryInit PROVE RegistryInv
  OBVIOUS
<1> USE RegistryAssumption DEF RegistryInit, Ready
<1>1. RegistryTypeOK
  BY DEF RegistryTypeOK, Loader, Follower, File, Status
<1>2. Named /\ TimeInv /\ FileInv
  BY DEF Named, TimeInv, FileInv, Indexed
<1> QED
  BY <1>1, <1>2 DEF RegistryInv

\* What the row of a file's project becomes.
LEMMA RowStatus ==
  ASSUME RegistryTypeOK, NEW f \in File
  PROVE  RowOf(f) \in Status /\ f.status \in {Undeclared, RowOf(f)} /\ f.name \in Proj
BY RegistryAssumption DEF RegistryTypeOK, RowOf, File, Status, Undeclared

\* What a step of the reload has in hand.
LEMMA LoaderForm ==
  ASSUME RegistryTypeOK
  PROVE  /\ loader.at = "copy" => loader.file \in File /\ loader.status \in Status
         /\ loader.at = "store" => loader.file \in File /\ loader.entry \in Entry
BY DEF RegistryTypeOK, Loader, Ready

\* What a step of the follower has in hand.
LEMMA FollowerForm ==
  ASSUME RegistryTypeOK
  PROVE  /\ follower.at = "stop" => follower.p \in Proj \cup {Nobody} /\ follower.w \in Space
         /\ follower.at = "book" => /\ follower.p \in Proj \cup {Nobody} /\ follower.w \in Space
                                    /\ follower.last \in Stopwatch \cup {Nobody} /\ follower.elapsed \in Nat
         /\ follower.at = "enter" => follower.p \in Proj /\ follower.w \in Space
BY DEF RegistryTypeOK, Follower, Ready

\* An upsert: the row, and the reload that begins.
LEMMA UpsertTypes ==
  ASSUME RegistryTypeOK, NEW f \in File, Upsert(f)
  PROVE  prow' \in [Proj -> Status \cup {Nobody}] /\ loader' \in Loader
<1>1. RowOf(f) \in Status /\ f.name \in Proj
  BY RowStatus
<1>2. prow' \in [Proj -> Status \cup {Nobody}]
  BY <1>1 DEF Upsert, RegistryTypeOK
<1>3. loader' \in [at : {"copy"}, file : File, status : Status]
  BY <1>1 DEF Upsert
<1> QED
  BY <1>2, <1>3 DEF Loader

\* The names the index owns a workspace by.
LEMMA OwnerIndexed ==
  ASSUME NEW w, NEW p \in Owner(w)
  PROVE  p \in Proj \cup {Nobody} /\ (p # Nobody => p \in Indexed)
BY RegistryAssumption DEF Owner, Indexed

\* Every step keeps the types.
LEMMA RegistryTypes == RegistryTypeOK /\ Named /\ [RegistryNext]_registryVars => RegistryTypeOK'
<1> SUFFICES ASSUME RegistryTypeOK, Named, [RegistryNext]_registryVars PROVE RegistryTypeOK'
  OBVIOUS
<1>1. CASE LoadFirst
  BY <1>1, UpsertTypes DEF LoadFirst, RegistryTypeOK
<1>2. CASE ReloadFile
  BY <1>2, UpsertTypes DEF ReloadFile, RegistryTypeOK, Deed
<1>3. CASE CopyRuntime
  <2>1. loader.file \in File /\ loader.status \in Status /\ loader.file.name \in Proj /\ loader.file.spaces \in SUBSET Space
    BY <1>3, LoaderForm DEF CopyRuntime, File
  <2>2. ASSUME NEW p \in Indexed PROVE entry[p].secs \in Nat /\ entry[p].spacesIn \in SUBSET Space
    BY DEF RegistryTypeOK, Indexed, Entry
  <2>3. loader' \in [at : {"store"}, file : File, entry : Entry]
    BY <1>3, <2>1, <2>2 DEF CopyRuntime, Entry
  <2> QED
    BY <1>3, <2>3 DEF CopyRuntime, RegistryTypeOK, Loader
<1>4. CASE StoreEntry
  <2>1. loader.file \in File /\ loader.entry \in Entry /\ loader.file.name \in Proj
    BY <1>4, LoaderForm DEF StoreEntry, File
  <2>2. entry' \in [Proj -> Entry \cup {Nobody}] /\ fileOf' \in [Proj -> File \cup {Nobody}] /\ loader' \in Loader
    BY <1>4, <2>1 DEF StoreEntry, RegistryTypeOK, Loader
  <2> QED
    BY <1>4, <2>2 DEF StoreEntry, RegistryTypeOK
<1>5. CASE SwitchTo
  BY <1>5 DEF SwitchTo, RegistryTypeOK, Deed
<1>6. CASE Resolve
  <2>1. Head(wsEvents) \in Space /\ wsEvents' \in Seq(Space)
    BY <1>6 DEF Resolve, RegistryTypeOK
  <2>2. follower' \in [at : {"stop"}, p : Proj \cup {Nobody}, w : Space]
    BY <1>6, <2>1, OwnerIndexed DEF Resolve
  <2> QED
    BY <1>6, <2>1, <2>2 DEF Resolve, RegistryTypeOK, Follower
<1>7. CASE StopWatch
  <2>1. follower.p \in Proj \cup {Nobody} /\ follower.w \in Space
    BY <1>7, FollowerForm DEF StopWatch
  <2>2. watch # Nobody => half - watch.since \in Nat
    BY DEF Named, RegistryTypeOK, Stopwatch
  <2>3. follower' \in [at : {"book"}, p : Proj \cup {Nobody}, w : Space, last : Stopwatch \cup {Nobody}, elapsed : Nat]
    BY <1>7, <2>1, <2>2 DEF StopWatch, RegistryTypeOK
  <2> QED
    BY <1>7, <2>3 DEF StopWatch, RegistryTypeOK, Follower
<1>8. CASE BookTime
  <2> DEFINE last == follower.last
  <2>1. /\ follower.p \in Proj \cup {Nobody} /\ follower.w \in Space
        /\ last \in Stopwatch \cup {Nobody} /\ follower.elapsed \in Nat
    BY <1>8, FollowerForm DEF BookTime
  <2>2. follower' \in Follower
    BY <1>8, <2>1 DEF BookTime, Follower
  <2>3. CASE last = Nobody
    BY <1>8, <2>2, <2>3 DEF BookTime, RegistryTypeOK
  <2>4. CASE last # Nobody
    <3>1. last \in Stopwatch /\ last.p \in Indexed /\ last.p \in Proj /\ entry[last.p] \in Entry
      BY <1>8, <2>1, <2>4 DEF BookTime, Named, Indexed, RegistryTypeOK
    <3>2. BookedTo(entry[last.p], last, follower.elapsed) \in Entry
      BY <2>1, <3>1, Booked
    <3>3. entry' \in [Proj -> Entry \cup {Nobody}]
      <4>1. entry \in [Proj -> Entry \cup {Nobody}]
        BY DEF RegistryTypeOK
      <4>2. entry' = [entry EXCEPT ![last.p] = BookedTo(entry[last.p], last, follower.elapsed)]
        BY <1>8, <2>4 DEF BookTime
      <4> QED
        BY <3>2, <4>1, <4>2
    <3>4. crossed' \subseteq Proj
      <4>1. crossed \subseteq Proj
        BY DEF RegistryTypeOK
      <4>2. Cross(last.p)
        BY <1>8, <2>4 DEF BookTime
      <4>3. crossed' = crossed \/ crossed' = crossed \cup {last.p}
        BY <4>2 DEF Cross
      <4>4. last.p \in Proj
        BY <3>1
      <4> HIDE DEF last
      <4> QED
        BY <4>1, <4>3, <4>4
    <3>5. measured[last.p] + follower.elapsed \in Nat /\ closings[last.p] + 1 \in Nat
      BY <2>1, <3>1 DEF RegistryTypeOK
    <3>6. measured' \in [Proj -> Nat] /\ closings' \in [Proj -> Nat]
      <4>1. /\ measured' = [measured EXCEPT ![last.p] = @ + follower.elapsed]
            /\ closings' = [closings EXCEPT ![last.p] = @ + 1]
        BY <1>8, <2>4 DEF BookTime
      <4>2. measured \in [Proj -> Nat] /\ closings \in [Proj -> Nat]
        BY DEF RegistryTypeOK
      <4> QED
        BY <3>5, <4>1, <4>2
    <3>7. UNCHANGED <<prow, watch, wsEvents, loader, boot, fileOf, half, deeds>>
      BY <1>8 DEF BookTime
    <3> QED
      BY <2>2, <3>3, <3>4, <3>6, <3>7 DEF RegistryTypeOK
  <2> QED
    BY <2>3, <2>4
<1>9. CASE EnterProject
  <2>1. follower.p \in Proj /\ follower.w \in Space /\ follower.p \in Indexed /\ entry[follower.p] \in Entry
    BY <1>9, FollowerForm, RegistryAssumption DEF EnterProject, Named, Indexed, RegistryTypeOK
  <2>2. [entry[follower.p] EXCEPT !.spacesIn = @ \cup {follower.w}] \in Entry
    BY <2>1, Entered
  <2>3. entry' \in [Proj -> Entry \cup {Nobody}]
    BY <1>9, <2>1, <2>2 DEF EnterProject, RegistryTypeOK
  <2>4. watch' \in Stopwatch /\ crossed' \subseteq Proj
    BY <1>9, <2>1 DEF EnterProject, RegistryTypeOK, Stopwatch, Cross
  <2> QED
    BY <1>9, <2>3, <2>4 DEF EnterProject, RegistryTypeOK, Follower
<1>10. CASE HalfSecond
  BY <1>10 DEF HalfSecond, RegistryTypeOK
<1>11. CASE UNCHANGED registryVars
  BY <1>11 DEF registryVars, RegistryTypeOK
<1> QED
  BY <1>1, <1>2, <1>3, <1>4, <1>5, <1>6, <1>7, <1>8, <1>9, <1>10, <1>11 DEF RegistryNext

\* No step takes a name out of the index.
LEMMA IndexGrows ==
  ASSUME RegistryTypeOK, Named, [RegistryNext]_registryVars
  PROVE  Indexed \subseteq Indexed'
<1>1. CASE StoreEntry
  <2>1. loader.entry \in Entry /\ loader.entry # Nobody /\ loader.file.name \in Proj
    BY <1>1, LoaderForm, RegistryAssumption DEF StoreEntry, File
  <2> QED
    BY <1>1, <2>1 DEF StoreEntry, Indexed, RegistryTypeOK
<1>2. CASE BookTime
  <2>1. CASE follower.last = Nobody
    BY <1>2, <2>1 DEF BookTime, Indexed
  <2>2. CASE follower.last # Nobody
    <3>1. /\ follower.last \in Stopwatch /\ follower.last.p \in Proj
          /\ entry[follower.last.p] \in Entry /\ follower.elapsed \in Nat
      BY <1>2, <2>2, FollowerForm DEF BookTime, Named, Indexed, RegistryTypeOK
    <3>2. BookedTo(entry[follower.last.p], follower.last, follower.elapsed) # Nobody
      BY <3>1, Booked, RegistryAssumption
    <3> QED
      BY <1>2, <2>2, <3>1, <3>2 DEF BookTime, Indexed, RegistryTypeOK
  <2> QED
    BY <2>1, <2>2
<1>3. CASE EnterProject
  <2>1. follower.p \in Proj /\ follower.w \in Space /\ entry[follower.p] \in Entry
    BY <1>3, FollowerForm, RegistryAssumption DEF EnterProject, Named, Indexed, RegistryTypeOK
  <2>2. [entry[follower.p] EXCEPT !.spacesIn = @ \cup {follower.w}] # Nobody
    BY <2>1, Entered, RegistryAssumption
  <2> QED
    BY <1>3, <2>1, <2>2 DEF EnterProject, Indexed, RegistryTypeOK
<1>4. CASE UNCHANGED entry
  BY <1>4 DEF Indexed
<1> QED
  BY <1>1, <1>2, <1>3, <1>4
  DEF RegistryNext, registryVars, LoadFirst, ReloadFile, CopyRuntime, SwitchTo, Resolve, StopWatch, HalfSecond

\* Whoever is named stays in the index.
LEMMA NamedStep == RegistryTypeOK /\ Named /\ [RegistryNext]_registryVars => Named'
<1> SUFFICES ASSUME RegistryTypeOK, Named, [RegistryNext]_registryVars PROVE Named'
  OBVIOUS
<1>1. Indexed \subseteq Indexed'
  BY IndexGrows
<1>2. CASE Resolve
  <2>1. /\ UNCHANGED <<watch, half>> /\ follower'.at = "stop"
        /\ follower'.p # Nobody => follower'.p \in Indexed
    BY <1>2, OwnerIndexed DEF Resolve
  <2> QED
    BY <2>1, <1>1 DEF Named
<1>3. CASE StopWatch
  <2>1. watch # Nobody => watch.p \in Indexed
    BY DEF Named
  <2> QED
    BY <1>1, <1>3, <2>1 DEF StopWatch, Named
<1>4. CASE BookTime
  BY <1>1, <1>4, RegistryAssumption DEF BookTime, Named, Ready
<1>5. CASE EnterProject
  <2>1. follower.p \in Proj /\ half \in Nat
    BY <1>5, FollowerForm DEF EnterProject, RegistryTypeOK
  <2>2. follower.p \in Indexed
    BY <1>5, <2>1, RegistryAssumption DEF EnterProject, Named
  <2> QED
    BY <1>1, <1>5, <2>1, <2>2 DEF EnterProject, Named, Ready
<1>6. CASE HalfSecond
  <2>1. half \in Nat /\ (watch # Nobody => watch.since \in Nat)
    BY DEF RegistryTypeOK, Stopwatch
  <2> QED
    BY <1>1, <1>6, <2>1 DEF HalfSecond, Named
<1>7. CASE UNCHANGED <<watch, follower, half>>
  BY <1>1, <1>7 DEF Named
<1> QED
  BY <1>2, <1>3, <1>4, <1>5, <1>6, <1>7
  DEF RegistryNext, registryVars, LoadFirst, ReloadFile, CopyRuntime, StoreEntry, SwitchTo

\* What is kept of a project whose measurements did not change.
LEMMA KeptOn ==
  ASSUME NEW p \in Proj, NEW e, TimeKept(p, e), UNCHANGED <<measured, closings, crossed>>, UNCHANGED Held
  PROVE  TimeKept(p, e)'
BY DEF TimeKept

\* The focus time is kept by every step.
LEMMA TimeStep == RegistryTypeOK /\ Named /\ TimeInv /\ [RegistryNext]_registryVars => TimeInv'
<1> SUFFICES ASSUME RegistryTypeOK, Named, TimeInv, [RegistryNext]_registryVars PROVE TimeInv'
  OBVIOUS
<1> USE DEF TimeInv
<1>1. CASE UNCHANGED <<entry, measured, closings, crossed, loader, Held>>
  BY <1>1 DEF Indexed, TimeKept
<1>2. ASSUME NEW f, Upsert(f), UNCHANGED <<entry, watch, follower, measured, closings, crossed>> PROVE TimeInv'
  BY <1>2 DEF Upsert, Indexed, TimeKept, Held
<1>3. CASE CopyRuntime
  <2> DEFINE q == loader.file.name
  <2>1. q \in Proj /\ UNCHANGED <<entry, measured, closings, crossed, Held>>
    BY <1>3, LoaderForm DEF CopyRuntime, File, Held
  <2>2. /\ loader'.file.name = q
        /\ loader'.entry.secs = IF q \in Indexed THEN entry[q].secs ELSE 0
        /\ loader'.entry.spacesIn = IF q \in Indexed THEN entry[q].spacesIn ELSE {}
    BY <1>3 DEF CopyRuntime
  <2>3. TimeKept(q, loader'.entry)
    <3>1. CASE q \in Indexed
      BY <2>1, <2>2, <3>1 DEF TimeKept
    <3>2. CASE q \notin Indexed
      <4>1. measured[q] = 0 /\ closings[q] = 0 /\ loader'.entry.secs = 0 /\ loader'.entry.spacesIn = {}
        BY <2>1, <2>2, <3>2
      <4>2. Held # Nobody => Held.p \in Indexed
        BY DEF Held, Named
      <4> QED
        BY <3>2, <4>1, <4>2, RegistryAssumption DEF TimeKept
    <3> QED
      BY <3>1, <3>2
  <2> QED
    BY <2>1, <2>2, <2>3 DEF Indexed, TimeKept
<1>4. CASE StoreEntry
  <2>1. /\ loader.file.name \in Proj /\ TimeKept(loader.file.name, loader.entry)
        /\ UNCHANGED <<measured, closings, crossed, Held>>
    BY <1>4, LoaderForm DEF StoreEntry, File, Held
  <2>2. entry' = [entry EXCEPT ![loader.file.name] = loader.entry] /\ entry \in [Proj -> Entry \cup {Nobody}]
    BY <1>4 DEF StoreEntry, RegistryTypeOK
  <2>3. loader.entry # Nobody /\ loader'.at # "store"
    BY <1>4, LoaderForm, RegistryAssumption DEF StoreEntry, Ready
  <2> QED
    BY <2>1, <2>2, <2>3 DEF Indexed, TimeKept
<1>5. CASE StopWatch
  <2>1. Held' = Held /\ UNCHANGED <<entry, measured, closings, crossed, loader>>
    BY <1>5 DEF StopWatch, Held
  <2> QED
    BY <1>1, <2>1
<1>6. CASE BookTime /\ follower.last = Nobody
  <2>1. Held' = Held /\ UNCHANGED <<entry, measured, closings, crossed, loader>>
    BY <1>6 DEF BookTime, Held, Named, Ready
  <2> QED
    BY <1>1, <2>1
<1>7. CASE BookTime /\ follower.last # Nobody
  <2>0. PICK last, q, t : last = follower.last /\ q = last.p /\ t = follower.elapsed
    OBVIOUS
  <2>1. /\ last \in Stopwatch /\ q \in Indexed /\ q \in Proj /\ entry[q] \in Entry /\ t \in Nat
        /\ watch = Nobody /\ follower.at = "book"
    BY <1>7, <2>0, FollowerForm DEF BookTime, Named, Indexed, RegistryTypeOK
  <2>2. Held = last /\ Held' = Nobody
    BY <1>7, <2>0, <2>1 DEF BookTime, Held, Ready
  <2>3. /\ entry' = [entry EXCEPT ![q] = BookedTo(entry[q], last, t)]
        /\ measured' = [measured EXCEPT ![q] = @ + t]
        /\ closings' = [closings EXCEPT ![q] = @ + 1]
        /\ crossed \subseteq crossed' /\ crossed' \subseteq crossed \cup {q}
        /\ loader.at = "store" /\ loader.file.name = q => q \in crossed'
        /\ loader' = loader
    BY <1>7, <2>0 DEF BookTime, Cross
  <2>4. /\ measured \in [Proj -> Nat] /\ closings \in [Proj -> Nat] /\ entry \in [Proj -> Entry \cup {Nobody}]
        /\ crossed \subseteq Proj
    BY DEF RegistryTypeOK
  <2>5. TimeKept(q, entry[q])'
    <3>1. /\ entry'[q].secs = entry[q].secs + t \div Sec
          /\ entry'[q].spacesIn = entry[q].spacesIn \ {last.w}
          /\ measured'[q] = measured[q] + t
          /\ closings'[q] = closings[q] + 1
      <4>1. entry'[q] = BookedTo(entry[q], last, t)
        BY <2>1, <2>3, <2>4
      <4>2. measured'[q] = measured[q] + t /\ closings'[q] = closings[q] + 1
        BY <2>1, <2>3, <2>4
      <4>3. /\ BookedTo(entry[q], last, t).secs = entry[q].secs + t \div Sec
            /\ BookedTo(entry[q], last, t).spacesIn = entry[q].spacesIn \ {last.w}
        BY <2>1, Booked
      <4> QED
        BY <4>1, <4>2, <4>3
    <3>2. TimeKept(q, entry[q])
      BY <2>1
    <3>3. entry[q].secs \in Nat /\ measured[q] \in Nat /\ closings[q] \in Nat
      BY <2>1, <2>4 DEF Entry
    <3>4. t \div Sec \in Nat /\ Sec * (t \div Sec) <= t /\ t - Sec * (t \div Sec) <= Sec - 1
      BY <2>1, WholeSeconds
    <3>5. /\ Sec * entry[q].secs <= measured[q]
          /\ q \notin crossed => measured[q] - Sec * entry[q].secs <= (Sec - 1) * closings[q]
      BY <3>2 DEF TimeKept
    <3>7. /\ Sec * (entry[q].secs + t \div Sec) <= measured[q] + t
          /\ q \notin crossed =>
               (measured[q] + t) - Sec * (entry[q].secs + t \div Sec) <= (Sec - 1) * (closings[q] + 1)
      BY <2>1, <3>3, <3>4, <3>5, OneMoreInterval
    <3>6. q \notin crossed => entry'[q].spacesIn = {}
      BY <2>1, <2>2, <3>1, <3>2 DEF TimeKept
    <3> QED
      BY <2>2, <2>3, <3>1, <3>6, <3>7 DEF TimeKept
  <2>6. ASSUME NEW p \in Proj, p # q, NEW e, TimeKept(p, e) PROVE TimeKept(p, e)'
    <3>1. measured'[p] = measured[p] /\ closings'[p] = closings[p] /\ (p \notin crossed' => p \notin crossed)
      BY <2>1, <2>3, <2>4, <2>6
    <3>2. ~(Held # Nobody /\ Held.p = p) /\ Held' = Nobody
      BY <2>0, <2>2, <2>6
    <3> QED
      BY <3>1, <3>2, <2>6 DEF TimeKept
  <2>7. ASSUME NEW p \in Proj PROVE IF p \in Indexed' THEN TimeKept(p, entry[p])' ELSE measured'[p] = 0 /\ closings'[p] = 0
    <3>1. CASE p = q
      BY <3>1, <2>1, <2>5, IndexGrows
    <3>2. CASE p # q
      BY <3>2, <2>1, <2>3, <2>4, <2>6 DEF Indexed
    <3> QED
      BY <3>1, <3>2
  <2>8. ASSUME loader.at = "store" PROVE TimeKept(loader.file.name, loader.entry)'
    <3> DEFINE n == loader.file.name
    <3>1. n \in Proj /\ TimeKept(n, loader.entry) /\ loader.entry.secs \in Nat
      BY <2>8, LoaderForm DEF File, Entry
    <3>2. CASE n # q
      BY <2>3, <2>6, <3>1, <3>2
    <3>3. CASE n = q
      <4>1. n \in crossed' /\ measured'[n] = measured[n] + t /\ measured[n] \in Nat /\ Sec * loader.entry.secs \in Nat
        BY <2>1, <2>3, <2>4, <2>8, <3>1, <3>3, RegistryAssumption
      <4>2. Sec * loader.entry.secs <= measured'[n]
        BY <2>1, <3>1, <4>1 DEF TimeKept
      <4> QED
        BY <2>3, <4>1, <4>2 DEF TimeKept
    <3> QED
      BY <3>2, <3>3
  <2> QED
    BY <2>3, <2>7, <2>8
<1>8. CASE EnterProject
  <2>0. PICK q, w : q = follower.p /\ w = follower.w
    OBVIOUS
  <2>1. /\ q \in Proj /\ w \in Space /\ q \in Indexed /\ entry[q] \in Entry
        /\ watch = Nobody /\ follower.at = "enter"
    BY <1>8, <2>0, FollowerForm, RegistryAssumption DEF EnterProject, Named, Indexed, RegistryTypeOK
  <2>2. Held = Nobody /\ Held' = watch' /\ watch' \in Stopwatch /\ watch'.p = q /\ watch'.w = w
    BY <1>8, <2>0, <2>1 DEF EnterProject, Held, Ready, Stopwatch, RegistryTypeOK
  <2>3. /\ entry' = [entry EXCEPT ![q].spacesIn = @ \cup {w}]
        /\ UNCHANGED <<measured, closings, loader>>
        /\ crossed \subseteq crossed' /\ crossed' \subseteq crossed \cup {q}
        /\ loader.at = "store" /\ loader.file.name = q => q \in crossed'
    BY <1>8, <2>0 DEF EnterProject, Cross
  <2>4. entry \in [Proj -> Entry \cup {Nobody}] /\ watch' # Nobody
    BY <2>2, RegistryAssumption DEF RegistryTypeOK
  <2>5. TimeKept(q, entry[q])'
    <3>1. entry'[q].secs = entry[q].secs /\ entry'[q].spacesIn = entry[q].spacesIn \cup {w}
      BY <2>1, <2>3, <2>4, Entered
    <3>2. TimeKept(q, entry[q])
      BY <2>1
    <3> QED
      BY <2>1, <2>2, <2>3, <2>4, <3>1, <3>2 DEF TimeKept
  <2>6. ASSUME NEW p \in Proj, p # q, NEW e, TimeKept(p, e) PROVE TimeKept(p, e)'
    BY <2>2, <2>3, <2>4, <2>6 DEF TimeKept
  <2>7. ASSUME NEW p \in Proj PROVE IF p \in Indexed' THEN TimeKept(p, entry[p])' ELSE measured'[p] = 0 /\ closings'[p] = 0
    <3>1. CASE p = q
      BY <3>1, <2>1, <2>5, IndexGrows
    <3>2. CASE p # q
      BY <3>2, <2>1, <2>3, <2>4, <2>6 DEF Indexed
    <3> QED
      BY <3>1, <3>2
  <2>8. ASSUME loader.at = "store" PROVE TimeKept(loader.file.name, loader.entry)'
    <3> DEFINE n == loader.file.name
    <3>1. n \in Proj /\ TimeKept(n, loader.entry)
      BY <2>8, LoaderForm DEF File
    <3>2. CASE n # q
      BY <2>3, <2>6, <3>1, <3>2
    <3>3. CASE n = q
      BY <2>3, <2>8, <3>1, <3>3 DEF TimeKept
    <3> QED
      BY <3>2, <3>3
  <2> QED
    BY <2>3, <2>7, <2>8
<1>9. CASE UNCHANGED <<entry, watch, follower, measured, closings, crossed, loader>>
  BY <1>1, <1>9 DEF Held
<1>10. CASE Resolve
  BY <1>1, <1>10 DEF Resolve, Held, Ready
<1> QED
  BY <1>2, <1>3, <1>4, <1>5, <1>6, <1>7, <1>8, <1>9, <1>10
  DEF RegistryNext, registryVars, LoadFirst, ReloadFile, SwitchTo, HalfSecond

\* The index shows the files.
LEMMA FileStep == RegistryTypeOK /\ Named /\ FileInv /\ [RegistryNext]_registryVars => FileInv'
<1> SUFFICES ASSUME RegistryTypeOK, Named, FileInv, [RegistryNext]_registryVars PROVE FileInv'
  OBVIOUS
<1> USE DEF FileInv
<1>1. ASSUME NEW f \in File, Upsert(f), UNCHANGED <<entry, fileOf>> PROVE FileInv'
  BY <1>1, RowStatus DEF Upsert
<1>2. CASE CopyRuntime
  BY <1>2 DEF CopyRuntime
<1>3. CASE StoreEntry
  <2>1. /\ loader.file \in File /\ loader.entry \in Entry /\ loader.file.name \in Proj
        /\ loader.file # Nobody /\ loader.entry # Nobody /\ loader.at = "store" /\ loader'.at = "idle"
    BY <1>3, LoaderForm, RegistryAssumption DEF StoreEntry, File, Ready
  <2> QED
    BY <1>3, <2>1 DEF StoreEntry, RegistryTypeOK
<1>4. ASSUME NEW q \in Indexed, NEW e \in Entry, entry' = [entry EXCEPT ![q] = e],
             e.spaces = entry[q].spaces, e.status = entry[q].status, UNCHANGED <<fileOf, loader>>
      PROVE  FileInv'
  BY <1>4, RegistryAssumption DEF Indexed, RegistryTypeOK
<1>5. CASE BookTime /\ follower.last # Nobody
  <2>1. /\ follower.last \in Stopwatch /\ follower.last.p \in Indexed
        /\ entry[follower.last.p] \in Entry /\ follower.elapsed \in Nat
    BY <1>5, FollowerForm DEF BookTime, Named, Indexed, RegistryTypeOK
  <2> QED
    BY <1>4, <1>5, <2>1, Booked DEF BookTime
<1>6. CASE EnterProject
  <2>1. follower.p \in Indexed /\ follower.w \in Space /\ entry[follower.p] \in Entry
    BY <1>6, FollowerForm, RegistryAssumption DEF EnterProject, Named, Indexed, RegistryTypeOK
  <2> QED
    BY <1>4, <1>6, <2>1, Entered DEF EnterProject
<1>7. CASE UNCHANGED <<entry, fileOf, loader>>
  BY <1>7
<1> QED
  BY <1>1, <1>2, <1>3, <1>5, <1>6, <1>7
  DEF RegistryNext, registryVars, LoadFirst, ReloadFile, SwitchTo, Resolve, StopWatch, BookTime, HalfSecond,
      RegistryTypeOK

\* Whatever the projects, their files and the user's moves, the focus time of a
\* project is its stopwatch's (FocusTimeKept): nothing is gained, nothing but the
\* fraction of a second of each interval is lost unless a reload held a copy of it.
THEOREM RegistryCorrect == RegistrySpec => []FocusTimeKept
<1>1. RegistryInv /\ [RegistryNext]_registryVars => RegistryInv'
  BY RegistryTypes, NamedStep, TimeStep, FileStep DEF RegistryInv
<1>2. RegistryInv => FocusTimeKept
  <2> SUFFICES ASSUME RegistryInv
               PROVE  FocusTimeKept
    OBVIOUS
  <2>1. ASSUME NEW p \in Indexed
        PROVE  /\ Sec * entry[p].secs <= measured[p]
               /\ p \notin crossed => measured[p] - Sec * entry[p].secs <= (Sec - 1) * closings[p]
               /\ p \notin crossed /\ follower = Ready =>
                    entry[p].spacesIn = IF watch # Nobody /\ watch.p = p THEN {watch.w} ELSE {}
    <3>1. TimeKept(p, entry[p])
      BY DEF RegistryInv, TimeInv, Indexed
    <3>2. follower = Ready => Held = watch
      BY DEF Held, Ready
    <3> QED
      BY <3>1, <3>2 DEF TimeKept
  <2>2. ASSUME NEW p \in Proj, fileOf[p] # Nobody
        PROVE  entry[p].spaces = fileOf[p].spaces /\ fileOf[p].status \in {Undeclared, entry[p].status}
    BY <2>2 DEF RegistryInv, FileInv
  <2> QED
    BY <2>1, <2>2 DEF FocusTimeKept
<1> QED
  BY RegistryStart, <1>1, <1>2, PTL DEF RegistrySpec

-----------------------------------------------------------------------------
(* FocusMode: profiles that triggers activate. *)

Profiles == Range(Profile)
PhaseNames == {"absent", "inactive", "activating", "active", "deactivating"}
Action == [action : {"activate", "deactivate"}, name : Profiles, user : BOOLEAN]
          \cup [action : {"cycle"}, name : {NoProfile}, user : {TRUE}]

FocusTypeOK ==
  /\ configured \subseteq Profiles
  /\ holds \in [Profiles -> BOOLEAN]
  /\ tracker \in [Profiles -> [at : PhaseNames, age : Nat]]
  /\ requests \in Seq(Action)
  /\ byUser \in BOOLEAN /\ requestLost \in BOOLEAN
  /\ ~byUser => activeProfile \in Profiles \cup {NoProfile}
  /\ steady \in [Profiles -> Nat]
  /\ now \in Nat /\ moves \in Nat

\* A phase with a clock has its predicate's value, for as long as it has run.
ClockInv ==
  \A p \in Profiles :
    /\ tracker[p].at = "activating" => holds[p] /\ tracker[p].age <= steady[p]
    /\ tracker[p].at = "deactivating" => ~holds[p] /\ tracker[p].age <= steady[p]

HeldActive(t) == t.at \in {"active", "deactivating"}
Activates(r, p) == r.action = "activate" /\ r.name = p /\ ~r.user
Deactivates(r, p) == r.action = "deactivate" /\ r.name = p

\* Every activation of p by the driver among rs has a retraction behind it.
Behind(rs, p) ==
  \A i \in 1 .. Len(rs) : Activates(rs[i], p) => \E j \in i + 1 .. Len(rs) : Deactivates(rs[j], p)
Ends(rs, p) == \E j \in 1 .. Len(rs) : Deactivates(rs[j], p)

\* A profile that the tracker does not hold active, and that is active or will
\* be without the user's asking, has its retraction behind it in the channel.
RetractInv ==
  ~requestLost => \A p \in Profiles : ~HeldActive(tracker[p]) =>
    Behind(requests, p) /\ (activeProfile = p /\ ~byUser => Ends(requests, p))

\* Range(Profile) by positions.
LEMMA ProfilePositions ==
  /\ Profile \in Seq(Profiles) /\ DOMAIN Profile = 1 .. Len(Profile) /\ Len(Profile) \in Nat
  /\ \A i \in 1 .. Len(Profile) : Profile[i] \in Profiles
  /\ \A p \in Profiles : \E i \in 1 .. Len(Profile) : Profile[i] = p
BY FocusAssumption DEF Profiles, Range

\* The invariant holds at first.
LEMMA FocusStart == FocusInit => FocusTypeOK /\ ClockInv /\ RetractInv
<1> SUFFICES ASSUME FocusInit PROVE FocusTypeOK /\ ClockInv /\ RetractInv
  OBVIOUS
<1>1. configured = Profiles
  BY DEF FocusInit, Profiles, Range
<1>2. FocusTypeOK
  <2>1. holds \in [Profiles -> BOOLEAN] /\ steady \in [Profiles -> Nat]
    BY <1>1 DEF FocusInit
  <2>2. Absent \in [at : PhaseNames, age : Nat]
    BY DEF Absent, Phase, PhaseNames
  <2>3. tracker \in [Profiles -> [at : PhaseNames, age : Nat]]
    BY <1>1, <2>2 DEF FocusInit
  <2>4. requests \in Seq(Action)
    BY DEF FocusInit
  <2> QED
    BY <1>1, <2>1, <2>3, <2>4 DEF FocusInit, FocusTypeOK
<1>3. ClockInv /\ RetractInv
  BY <1>1, FocusAssumption DEF FocusInit, ClockInv, RetractInv, Behind, Ends, Absent, Phase, Profiles
<1> QED
  BY <1>2, <1>3

\* One transition of a tracker: its type, its clock and what is published.
LEMMA AdvancedPhase ==
  ASSUME NEW t \in [at : PhaseNames, age : Nat], NEW b \in BOOLEAN
  PROVE  LET u == Advanced(t, b) IN
         /\ u \in [at : PhaseNames, age : Nat]
         /\ u.at = "activating" => b /\ (u.age = 0 \/ u = t)
         /\ u.at = "deactivating" => ~b /\ (u.age = 0 \/ u = t)
         /\ t.at = "activating" /\ u.at = "active" => b /\ t.age >= Dwell
         /\ t.at = "deactivating" /\ u.at = "inactive" => ~b /\ t.age >= ExitDwell
         /\ HeldActive(u) /\ ~HeldActive(t) => t.at = "activating" /\ u.at = "active"
         /\ HeldActive(t) /\ ~HeldActive(u) => t.at = "deactivating" /\ u.at = "inactive"
<1> DEFINE Good(u, c) ==
         /\ u \in [at : PhaseNames, age : Nat]
         /\ u.at = "activating" => c /\ (u.age = 0 \/ u = t)
         /\ u.at = "deactivating" => ~c /\ (u.age = 0 \/ u = t)
         /\ t.at = "activating" /\ u.at = "active" => c /\ t.age >= Dwell
         /\ t.at = "deactivating" /\ u.at = "inactive" => ~c /\ t.age >= ExitDwell
         /\ HeldActive(u) /\ ~HeldActive(t) => t.at = "activating" /\ u.at = "active"
         /\ HeldActive(t) /\ ~HeldActive(u) => t.at = "deactivating" /\ u.at = "inactive"
<1>1. Good(Advanced(t, TRUE), TRUE)
  BY DEF Advanced, Phase, PhaseNames, HeldActive
<1>2. Good(Advanced(t, FALSE), FALSE)
  BY DEF Advanced, Phase, PhaseNames, HeldActive
<1>3. CASE b = TRUE
  BY <1>1, <1>3
<1>4. CASE b = FALSE
  BY <1>2, <1>4
<1> QED
  BY <1>3, <1>4

\* Short sequences over a set.
LEMMA ShortSequence == \A S : <<>> \in Seq(S) /\ \A r \in S : <<r>> \in Seq(S)
OBVIOUS

\* The range of short sequences.
LEMMA ShortRange == Range(<<>>) = {} /\ \A r : Range(<<r>>) = {r}
<1>1. Range(<<>>) = {}
  BY DEF Range
<1>2. ASSUME NEW r PROVE Range(<<r>>) = {r}
  <2>1. DOMAIN <<r>> = {1} /\ <<r>>[1] = r
    OBVIOUS
  <2> QED
    BY <2>1 DEF Range
<1> QED
  BY <1>1, <1>2

\* The requests a look at the predicates h publishes.
Asked(h) ==
  LET after == [p \in Known |-> IF p \in configured THEN Advanced(tracker[p], h[p]) ELSE Absent] IN
  FlattenSeq([i \in DOMAIN Profile |->
     IF Profile[i] \in configured THEN Emitted(Profile[i], tracker[Profile[i]], after[Profile[i]]) ELSE <<>>])
  \o FlattenSeq([i \in DOMAIN Profile |-> Retracted(Profile[i])])

\* What a look does to every tracker, and which requests it makes.
LEMMA EvaluateDoes ==
  ASSUME FocusTypeOK, NEW h \in [Profiles -> BOOLEAN], Evaluate(h)
  PROVE  /\ Published(Asked(h)) /\ Asked(h) \in Seq(Action)
         /\ tracker' \in [Profiles -> [at : PhaseNames, age : Nat]]
         /\ \A p \in Profiles :
              /\ tracker'[p] = IF p \in configured THEN Advanced(tracker[p], h[p]) ELSE Absent
              /\ ~HeldActive(tracker'[p]) =>
                   /\ \A k \in 1 .. Len(Asked(h)) : ~Activates(Asked(h)[k], p)
                   /\ HeldActive(tracker[p]) => \E k \in 1 .. Len(Asked(h)) : Deactivates(Asked(h)[k], p)
<1> DEFINE n == Len(Profile)
           after == [p \in Known |-> IF p \in configured THEN Advanced(tracker[p], h[p]) ELSE Absent]
           E == [i \in 1 .. n |-> IF Profile[i] \in configured
                                    THEN Emitted(Profile[i], tracker[Profile[i]], after[Profile[i]]) ELSE <<>>]
           R == [i \in 1 .. n |-> Retracted(Profile[i])]
<1>1. Known = Profiles
  BY DEF Known, FocusTypeOK
<1>2. Asked(h) = FlattenSeq(E) \o FlattenSeq(R) /\ Published(Asked(h)) /\ tracker' = after
  BY ProfilePositions DEF Asked, Evaluate
<1>3. ASSUME NEW p \in Profiles
      PROVE  /\ after[p] = IF p \in configured THEN Advanced(tracker[p], h[p]) ELSE Absent
             /\ tracker[p] \in [at : PhaseNames, age : Nat] /\ h[p] \in BOOLEAN
             /\ after[p] \in [at : PhaseNames, age : Nat]
  BY <1>1, AdvancedPhase DEF FocusTypeOK, Absent, Phase, PhaseNames
<1>4. E \in Seq(Seq(Action)) /\ R \in Seq(Seq(Action)) /\ Len(E) = n /\ Len(R) = n
  <2>1. ASSUME NEW p \in Profiles, NEW action \in {"activate", "deactivate"}
        PROVE  Request(action, p, FALSE) \in Action
    BY DEF Request, Action
  <2>2. ASSUME NEW p \in Profiles
        PROVE  Emitted(p, tracker[p], after[p]) \in Seq(Action) /\ Retracted(p) \in Seq(Action)
    <3> HIDE DEF after
    <3>1. /\ <<Request("activate", p, FALSE)>> \in Seq(Action)
          /\ <<Request("deactivate", p, FALSE)>> \in Seq(Action)
          /\ <<>> \in Seq(Action)
      <4>1. Request("activate", p, FALSE) \in Action /\ Request("deactivate", p, FALSE) \in Action
        BY <2>1
      <4> HIDE DEF Request, Action
      <4> QED
        BY <4>1, ShortSequence
    <3> QED
      BY <3>1 DEF Emitted, Retracted
  <2>3. ASSUME NEW i \in 1 .. n PROVE E[i] \in Seq(Action) /\ R[i] \in Seq(Action)
    <3> HIDE DEF after
    <3>1. Profile[i] \in Profiles /\ <<>> \in Seq(Action)
      BY ProfilePositions
    <3> QED
      BY <2>2, <3>1
  <2>4. n \in Nat /\ DOMAIN E = 1 .. n /\ DOMAIN R = 1 .. n
        /\ E = [i \in 1 .. n |-> E[i]] /\ R = [i \in 1 .. n |-> R[i]]
    BY ProfilePositions
  <2> HIDE DEF E, R, n
  <2>5. E \in [1 .. n -> Seq(Action)] /\ R \in [1 .. n -> Seq(Action)]
    BY <2>3, <2>4
  <2> QED
    BY <2>4, <2>5
<1>5. /\ Asked(h) \in Seq(Action)
      /\ Range(Asked(h)) = (UNION {Range(E[i]) : i \in 1 .. n}) \cup (UNION {Range(R[i]) : i \in 1 .. n})
  <2> HIDE DEF E, R
  <2>1. /\ FlattenSeq(E) \in Seq(Action) /\ Range(FlattenSeq(E)) = UNION {Range(E[i]) : i \in 1 .. Len(E)}
        /\ FlattenSeq(R) \in Seq(Action) /\ Range(FlattenSeq(R)) = UNION {Range(R[i]) : i \in 1 .. Len(R)}
    BY <1>4, FlattenSeqRange
  <2>2. PICK A, B \in Seq(Action) : A = FlattenSeq(E) /\ B = FlattenSeq(R)
    BY <2>1
  <2>3. A \o B \in Seq(Action) /\ Range(A \o B) = Range(A) \cup Range(B)
    BY RangeConcatenation
  <2>4. Range(A) = UNION {Range(E[i]) : i \in 1 .. n}
    BY <1>4, <2>1, <2>2
  <2>5. Range(B) = UNION {Range(R[i]) : i \in 1 .. n}
    BY <1>4, <2>1, <2>2
  <2>6. Asked(h) = A \o B
    BY <1>2, <2>2
  <2> QED
    BY <2>3, <2>4, <2>5, <2>6
<1>6. \A k \in 1 .. Len(Asked(h)) : Asked(h)[k] \in Range(Asked(h))
  BY <1>5 DEF Range
<1>7. \A r \in Range(Asked(h)) : \E k \in 1 .. Len(Asked(h)) : Asked(h)[k] = r
  BY <1>5 DEF Range
<1> HIDE DEF E, R, after
<1>8. ASSUME NEW p \in Profiles, NEW r \in Range(Asked(h)), Activates(r, p) PROVE HeldActive(after[p])
  <2>1. PICK i \in 1 .. n : r \in Range(E[i]) \/ r \in Range(R[i])
    BY <1>5, <1>8
  <2>2. Profile[i] \in Profiles /\ Known = Profiles
    BY <1>1, ProfilePositions
  <2>3. r \notin Range(R[i])
    BY <1>8, ShortRange DEF R, Retracted, Request, Activates
  <2>4. Profile[i] = p /\ after[p].at = "active"
    BY <1>8, <2>1, <2>3, ShortRange DEF E, Emitted, Request, Activates
  <2> QED
    BY <2>4 DEF HeldActive
<1>9. ASSUME NEW p \in Profiles, HeldActive(tracker[p]), ~HeldActive(after[p])
      PROVE  \E r \in Range(Asked(h)) : Deactivates(r, p)
  <2> DEFINE r == Request("deactivate", p, FALSE)
  <2>1. PICK i \in 1 .. n : Profile[i] = p
    BY ProfilePositions
  <2>2. Deactivates(r, p) /\ r \in Range(<<r>>)
    <3>1. Deactivates(r, p)
      BY DEF Deactivates, Request
    <3> HIDE DEF r
    <3>2. r \in Range(<<r>>)
      BY ShortRange
    <3> QED
      BY <3>1, <3>2
  <2>3. CASE p \in configured
    <3>0. after[p] = Advanced(tracker[p], h[p]) /\ tracker[p] \in [at : PhaseNames, age : Nat] /\ h[p] \in BOOLEAN
      BY <1>3, <2>3
    <3>1. after[p] = Advanced(tracker[p], h[p]) /\ tracker[p].at = "deactivating" /\ after[p].at = "inactive"
      <4> HIDE DEF HeldActive, Advanced
      <4>1. HeldActive(tracker[p]) /\ ~HeldActive(Advanced(tracker[p], h[p]))
        BY <1>9, <3>0
      <4>2. tracker[p].at = "deactivating" /\ Advanced(tracker[p], h[p]).at = "inactive"
        BY <3>0, <4>1, AdvancedPhase
      <4> QED
        BY <3>0, <4>2
    <3>2. E[i] = <<r>>
      BY <2>1, <2>3, <3>1 DEF E, Emitted
    <3>3. r \in Range(Asked(h))
      BY <1>5, <2>2, <3>2
    <3> QED
      BY <2>2, <3>3
  <2>4. CASE p \notin configured
    <3>1. R[i] = <<r>>
      BY <1>9, <2>1, <2>4 DEF R, Retracted, HeldActive
    <3>2. r \in Range(Asked(h))
      BY <1>5, <2>2, <3>1
    <3> QED
      BY <2>2, <3>2
  <2> QED
    BY <2>3, <2>4
<1>10. tracker' \in [Profiles -> [at : PhaseNames, age : Nat]]
  <2>1. after = [p \in Profiles |-> after[p]]
    BY <1>1 DEF after
  <2> QED
    BY <1>2, <1>3, <2>1
<1>11. ASSUME NEW p \in Profiles
       PROVE  /\ tracker'[p] = after[p]
              /\ ~HeldActive(after[p]) => \A k \in 1 .. Len(Asked(h)) : ~Activates(Asked(h)[k], p)
              /\ HeldActive(tracker[p]) /\ ~HeldActive(after[p]) =>
                   \E k \in 1 .. Len(Asked(h)) : Deactivates(Asked(h)[k], p)
  <2>1. tracker'[p] = after[p]
    BY <1>2
  <2>2. ASSUME ~HeldActive(after[p]), NEW k \in 1 .. Len(Asked(h)) PROVE ~Activates(Asked(h)[k], p)
    BY <1>6, <1>8, <2>2
  <2>3. ASSUME HeldActive(tracker[p]), ~HeldActive(after[p])
        PROVE  \E k \in 1 .. Len(Asked(h)) : Deactivates(Asked(h)[k], p)
    BY <1>7, <1>9, <2>3
  <2> QED
    BY <2>1, <2>2, <2>3
<1> QED
  BY <1>2, <1>3, <1>5, <1>10, <1>11

\* Unless a request was lost, what is published joins the channel's end.
LEMMA PublishedJoins ==
  ASSUME FocusTypeOK, NEW rs \in Seq(Action), Published(rs)
  PROVE  /\ requests' \in Seq(Action) /\ requestLost' \in BOOLEAN
         /\ ~requestLost' => ~requestLost /\ requests' = requests \o rs
<1> DEFINE q == requests \o rs
<1>1. q \in Seq(Action) /\ Len(q) \in Nat
  BY ConcatProperties DEF FocusTypeOK
<1>2. requestLost' = (requestLost \/ Len(q) > Slots) /\ Slots \in Nat
  BY FocusAssumption DEF Published
<1>3. requests' = SubSeq(q, 1, IF Len(q) > Slots THEN Slots ELSE Len(q))
  BY DEF Published
<1> HIDE DEF q
<1>4. CASE Len(q) > Slots
  <2>1. requests' = SubSeq(q, 1, Slots)
    BY <1>3, <1>4
  <2>2. \A i \in 1 .. Slots : q[i] \in Action
    BY <1>1, <1>2, <1>4, ElementOfSeq
  <2>3. SubSeq(q, 1, Slots) \in Seq(Action)
    BY <1>1, <1>2, <1>4, <2>2, SubSeqProperties
  <2> QED
    BY <1>2, <1>4, <2>1, <2>3
<1>5. CASE ~(Len(q) > Slots)
  <2>1. requests' = SubSeq(q, 1, Len(q))
    BY <1>3, <1>5
  <2>2. requests' = q
    BY <1>1, <2>1
  <2> QED
    BY <1>1, <1>2, <1>5, <2>2 DEF FocusTypeOK, q
<1> QED
  BY <1>4, <1>5

\* Retractions stay behind when requests join at the end.
LEMMA BehindJoin ==
  ASSUME NEW q \in Seq(Action), NEW rs \in Seq(Action), NEW p,
         \A k \in 1 .. Len(rs) : ~Activates(rs[k], p)
  PROVE  /\ Behind(q, p) \/ Ends(rs, p) => Behind(q \o rs, p)
         /\ Ends(q, p) \/ Ends(rs, p) => Ends(q \o rs, p)
<1>1. PICK c : c = q \o rs
  OBVIOUS
<1>2. /\ Len(c) = Len(q) + Len(rs) /\ Len(q) \in Nat /\ Len(rs) \in Nat
      /\ \A i \in 1 .. Len(q) : c[i] = q[i]
      /\ \A k \in 1 .. Len(rs) : c[Len(q) + k] = rs[k]
  BY <1>1, ConcatProperties
<1>3. ASSUME NEW j \in 1 .. Len(q), Deactivates(q[j], p)
      PROVE  j \in 1 .. Len(c) /\ Deactivates(c[j], p)
  BY <1>2, <1>3
<1>4. ASSUME NEW k \in 1 .. Len(rs), Deactivates(rs[k], p)
      PROVE  Len(q) + k \in 1 .. Len(c) /\ Deactivates(c[Len(q) + k], p)
  BY <1>2, <1>4
<1>5. Ends(q, p) \/ Ends(rs, p) => Ends(c, p)
  BY <1>3, <1>4 DEF Ends
<1>6. ASSUME NEW i \in 1 .. Len(c), Activates(c[i], p)
      PROVE  i \in 1 .. Len(q) /\ Activates(q[i], p)
  <2>1. CASE i \in 1 .. Len(q)
    BY <1>2, <1>6, <2>1
  <2>2. CASE i > Len(q)
    <3>1. i - Len(q) \in 1 .. Len(rs) /\ Len(q) + (i - Len(q)) = i
      BY <1>2, <2>2
    <3>2. c[i] = rs[i - Len(q)]
      BY <1>2, <3>1
    <3> QED
      BY <1>6, <3>1, <3>2
  <2> QED
    BY <1>2, <2>1, <2>2
<1>7. ASSUME Behind(q, p) \/ Ends(rs, p), NEW i \in 1 .. Len(c), Activates(c[i], p)
      PROVE  \E j \in i + 1 .. Len(c) : Deactivates(c[j], p)
  <2>1. i \in 1 .. Len(q) /\ Activates(q[i], p)
    BY <1>6, <1>7
  <2>2. CASE Ends(rs, p)
    <3>1. PICK k \in 1 .. Len(rs) : Deactivates(rs[k], p)
      BY <2>2 DEF Ends
    <3>2. Len(q) + k \in i + 1 .. Len(c) /\ Deactivates(c[Len(q) + k], p)
      BY <1>2, <1>4, <2>1, <3>1
    <3> QED
      BY <3>2
  <2>3. CASE Behind(q, p)
    <3>1. PICK j \in i + 1 .. Len(q) : Deactivates(q[j], p)
      BY <2>1, <2>3 DEF Behind
    <3>2. j \in i + 1 .. Len(c) /\ Deactivates(c[j], p)
      BY <1>2, <1>3, <2>1, <3>1
    <3> QED
      BY <3>2
  <2> QED
    BY <1>7, <2>2, <2>3
<1> QED
  BY <1>1, <1>5, <1>7 DEF Behind

\* What is published keeps the retractions behind the activations.
LEMMA RetractPublished ==
  ASSUME FocusTypeOK, RetractInv, NEW rs \in Seq(Action), Published(rs),
         UNCHANGED <<activeProfile, byUser>>,
         \A p \in Profiles : ~HeldActive(tracker'[p]) =>
           /\ \A k \in 1 .. Len(rs) : ~Activates(rs[k], p)
           /\ HeldActive(tracker[p]) => Ends(rs, p)
  PROVE  RetractInv'
<1> SUFFICES ASSUME ~requestLost', NEW p \in Profiles, ~HeldActive(tracker'[p])
             PROVE  Behind(requests', p) /\ (activeProfile = p /\ ~byUser => Ends(requests', p))
  BY DEF RetractInv
<1>1. ~requestLost /\ requests' = requests \o rs
  BY PublishedJoins
<1>2. PICK q \in Seq(Action) : q = requests
  BY DEF FocusTypeOK
<1>3. CASE HeldActive(tracker[p])
  BY <1>1, <1>2, <1>3, BehindJoin
<1>4. CASE ~HeldActive(tracker[p])
  <2>1. Behind(q, p) /\ (activeProfile = p /\ ~byUser => Ends(q, p))
    BY <1>1, <1>2, <1>4 DEF RetractInv
  <2> QED
    BY <1>1, <1>2, <2>1, BehindJoin
<1> QED
  BY <1>3, <1>4

\* A look at the predicates h keeps the invariant, if a changed predicate has just
\* begun.
LEMMA EvaluateKeeps ==
  ASSUME FocusTypeOK, ClockInv, RetractInv, NEW h \in [Profiles -> BOOLEAN], Evaluate(h),
         holds' = h, steady' \in [Profiles -> Nat],
         \A p \in Profiles : h[p] = holds[p] => steady'[p] = steady[p],
         UNCHANGED <<configured, activeProfile, byUser, now>>, moves' \in Nat
  PROVE  FocusTypeOK' /\ ClockInv' /\ RetractInv'
<1>1. PICK rs : rs = Asked(h)
  OBVIOUS
<1>2. /\ Published(rs) /\ rs \in Seq(Action)
      /\ tracker' \in [Profiles -> [at : PhaseNames, age : Nat]]
      /\ \A p \in Profiles :
           /\ tracker'[p] = IF p \in configured THEN Advanced(tracker[p], h[p]) ELSE Absent
           /\ ~HeldActive(tracker'[p]) =>
                /\ \A k \in 1 .. Len(rs) : ~Activates(rs[k], p)
                /\ HeldActive(tracker[p]) => Ends(rs, p)
  BY <1>1, EvaluateDoes DEF Ends
<1>3. FocusTypeOK'
  BY <1>2, PublishedJoins DEF FocusTypeOK
<1>4. RetractInv'
  BY <1>2, RetractPublished
<1>5. ASSUME NEW p \in Profiles
      PROVE  /\ tracker'[p].at = "activating" => h[p] /\ tracker'[p].age <= steady'[p]
             /\ tracker'[p].at = "deactivating" => ~h[p] /\ tracker'[p].age <= steady'[p]
  <2>1. PICK t, u, b : t = tracker[p] /\ u = tracker'[p] /\ b = h[p]
    OBVIOUS
  <2>2. t \in [at : PhaseNames, age : Nat] /\ b \in BOOLEAN /\ holds[p] \in BOOLEAN /\ steady'[p] \in Nat
    BY <2>1 DEF FocusTypeOK
  <2>3. CASE p \in configured
    <3>1. u = Advanced(t, b)
      BY <1>2, <2>1, <2>3
    <3>2. /\ u.at = "activating" => b /\ (u.age = 0 \/ u = t)
          /\ u.at = "deactivating" => ~b /\ (u.age = 0 \/ u = t)
      BY <2>2, <3>1, AdvancedPhase
    <3>3. /\ t.at = "activating" => holds[p] /\ t.age <= steady[p]
          /\ t.at = "deactivating" => ~holds[p] /\ t.age <= steady[p]
      BY <2>1 DEF ClockInv
    <3>4. b = holds[p] => steady'[p] = steady[p]
      BY <2>1
    <3>5. CASE u.at = "activating"
      <4>1. b /\ (u.age = 0 \/ u = t)
        BY <3>2, <3>5
      <4>2. CASE u = t
        BY <2>2, <3>3, <3>4, <3>5, <4>1, <4>2, <2>1
      <4>3. CASE u.age = 0
        BY <2>1, <2>2, <3>5, <4>1, <4>3
      <4> QED
        BY <4>1, <4>2, <4>3
    <3>6. CASE u.at = "deactivating"
      <4>1. ~b /\ (u.age = 0 \/ u = t)
        BY <3>2, <3>6
      <4>2. CASE u = t
        BY <2>2, <3>3, <3>4, <3>6, <4>1, <4>2, <2>1
      <4>3. CASE u.age = 0
        BY <2>1, <2>2, <3>6, <4>1, <4>3
      <4> QED
        BY <4>1, <4>2, <4>3
    <3> QED
      BY <2>1, <3>5, <3>6
  <2>4. CASE p \notin configured
    BY <1>2, <2>4 DEF Absent, Phase
  <2> QED
    BY <2>3, <2>4
<1>6. ClockInv'
  BY <1>5 DEF ClockInv
<1> QED
  BY <1>3, <1>4, <1>6

\* Every step keeps the invariant.
LEMMA FocusStep ==
  FocusTypeOK /\ ClockInv /\ RetractInv /\ [FocusNext]_focusVars => FocusTypeOK' /\ ClockInv' /\ RetractInv'
<1> SUFFICES ASSUME FocusTypeOK, ClockInv, RetractInv, [FocusNext]_focusVars
             PROVE  FocusTypeOK' /\ ClockInv' /\ RetractInv'
  OBVIOUS
<1>0. Known = Profiles
  BY DEF Known, FocusTypeOK
<1>1. CASE SignalArrives
  <2>1. PICK p \in Profiles : holds' = [holds EXCEPT ![p] = ~@] /\ steady' = [steady EXCEPT ![p] = 0]
    BY <1>0, <1>1 DEF SignalArrives
  <2>2. holds' \in [Profiles -> BOOLEAN] /\ steady' \in [Profiles -> Nat]
    BY <2>1 DEF FocusTypeOK
  <2>3. PICK h \in [Profiles -> BOOLEAN] : h = holds'
    BY <2>2
  <2>4. Evaluate(h)
    BY <1>1, <2>3 DEF SignalArrives
  <2>5. ASSUME NEW r \in Profiles, h[r] = holds[r] PROVE steady'[r] = steady[r]
    <3>1. holds[p] \in BOOLEAN
      BY DEF FocusTypeOK
    <3>2. r # p
      BY <2>1, <2>3, <2>5, <3>1 DEF FocusTypeOK
    <3> QED
      BY <2>1, <3>2 DEF FocusTypeOK
  <2>6. moves' \in Nat /\ UNCHANGED <<configured, activeProfile, byUser, now>>
    BY <1>1 DEF SignalArrives, Move, FocusTypeOK
  <2> QED
    BY <2>2, <2>3, <2>4, <2>5, <2>6, EvaluateKeeps
<1>2. CASE FocusTick
  <2>1. PICK h \in [Profiles -> BOOLEAN] : h = holds
    BY DEF FocusTypeOK
  <2>2. Evaluate(h) /\ holds' = h /\ steady' = steady /\ moves' = moves
        /\ UNCHANGED <<configured, activeProfile, byUser, now>>
    BY <1>2, <2>1 DEF FocusTick
  <2>3. steady' \in [Profiles -> Nat] /\ moves' \in Nat
    BY <2>2 DEF FocusTypeOK
  <2> QED
    BY <2>1, <2>2, <2>3, EvaluateKeeps
<1>3. CASE FocusSecond
  <2>1. \A p \in Profiles :
          /\ steady'[p] = steady[p] + 1
          /\ tracker'[p] = IF tracker[p].at \in {"activating", "deactivating"}
                             THEN [tracker[p] EXCEPT !.age = @ + 1] ELSE tracker[p]
    BY <1>0, <1>3 DEF FocusSecond
  <2>2. ASSUME NEW p \in Profiles
        PROVE  /\ tracker[p] \in [at : PhaseNames, age : Nat] /\ steady[p] \in Nat /\ steady'[p] \in Nat
               /\ tracker'[p] \in [at : PhaseNames, age : Nat] /\ tracker'[p].at = tracker[p].at
               /\ tracker[p].at \in {"activating", "deactivating"} => tracker'[p].age = tracker[p].age + 1
    <3>1. PICK t, u : t \in [at : PhaseNames, age : Nat] /\ t = tracker[p] /\ u = tracker'[p]
      BY DEF FocusTypeOK
    <3>2. steady[p] \in Nat /\ steady'[p] \in Nat
      <4>1. steady[p] \in Nat
        BY DEF FocusTypeOK
      <4>2. steady'[p] = steady[p] + 1
        BY <2>1
      <4> QED
        BY <4>1, <4>2
    <3>3. CASE t.at \in {"activating", "deactivating"}
      <4>1. u = [t EXCEPT !.age = t.age + 1]
        BY <2>1, <3>1, <3>3
      <4>2. u \in [at : PhaseNames, age : Nat] /\ u.at = t.at /\ u.age = t.age + 1
        BY <3>1, <4>1
      <4> QED
        BY <3>1, <3>2, <4>2
    <3>4. CASE t.at \notin {"activating", "deactivating"}
      <4>1. u = t
        BY <2>1, <3>1, <3>4
      <4> QED
        BY <3>1, <3>2, <3>4, <4>1
    <3> QED
      BY <3>3, <3>4
  <2>3. steady' = [p \in Profiles |-> steady'[p]] /\ tracker' = [p \in Profiles |-> tracker'[p]]
    BY <1>0, <1>3 DEF FocusSecond
  <2>4. steady' \in [Profiles -> Nat] /\ tracker' \in [Profiles -> [at : PhaseNames, age : Nat]]
    BY <2>2, <2>3
  <2>5. FocusTypeOK'
    BY <1>3, <2>4 DEF FocusTypeOK, FocusSecond
  <2>6. ClockInv'
    <3> SUFFICES ASSUME NEW p \in Profiles
                 PROVE  /\ tracker'[p].at = "activating" => holds[p] /\ tracker'[p].age <= steady'[p]
                        /\ tracker'[p].at = "deactivating" => ~holds[p] /\ tracker'[p].age <= steady'[p]
      BY <1>3 DEF ClockInv, FocusSecond
    <3>1. /\ tracker[p].at = "activating" => holds[p] /\ tracker[p].age <= steady[p]
          /\ tracker[p].at = "deactivating" => ~holds[p] /\ tracker[p].age <= steady[p]
      BY DEF ClockInv
    <3>2. /\ tracker'[p].at = tracker[p].at /\ steady'[p] = steady[p] + 1
          /\ tracker[p].at \in {"activating", "deactivating"} => tracker'[p].age = tracker[p].age + 1
          /\ tracker[p].age \in Nat /\ steady[p] \in Nat
      BY <2>1, <2>2
    <3> QED
      BY <3>1, <3>2
  <2>7. RetractInv'
    BY <1>3, <2>2 DEF RetractInv, FocusSecond, HeldActive
  <2> QED
    BY <2>5, <2>6, <2>7
<1>4. CASE ReloadProfiles
  <2>1. FocusTypeOK'
    BY <1>0, <1>4 DEF FocusTypeOK, ReloadProfiles, Move
  <2> QED
    BY <1>4, <2>1 DEF ReloadProfiles, ClockInv, RetractInv
<1>5. CASE UserAsks
  <2>1. PICK r \in Action : r.user /\ Published(<<r>>)
    <3>1. PICK p \in Profiles : Published(<<Request("activate", p, TRUE)>>)
                               \/ Published(<<Request("cycle", NoProfile, TRUE)>>)
      BY <1>0, <1>5 DEF UserAsks
    <3>2. /\ Request("activate", p, TRUE) \in Action /\ Request("cycle", NoProfile, TRUE) \in Action
          /\ Request("activate", p, TRUE).user /\ Request("cycle", NoProfile, TRUE).user
      BY DEF Request, Action
    <3> QED
      BY <3>1, <3>2
  <2>2. <<r>> \in Seq(Action) /\ Len(<<r>>) = 1 /\ <<r>>[1] = r
    BY ShortSequence
  <2>3. PICK rs \in Seq(Action) : rs = <<r>>
    BY <2>2
  <2>4. \A p \in Profiles : \A k \in 1 .. Len(rs) : ~Activates(rs[k], p)
    BY <2>1, <2>2, <2>3 DEF Activates
  <2>5. Published(rs) /\ UNCHANGED <<configured, holds, tracker, activeProfile, byUser, steady, now>>
        /\ moves' = moves + 1
    BY <1>5, <2>1, <2>3 DEF UserAsks, Move
  <2>6. requests' \in Seq(Action) /\ requestLost' \in BOOLEAN
    BY <2>5, PublishedJoins
  <2>7. FocusTypeOK'
    BY <2>5, <2>6 DEF FocusTypeOK
  <2>8. RetractInv'
    BY <2>4, <2>5, RetractPublished
  <2> QED
    BY <2>5, <2>7, <2>8 DEF ClockInv
<1>6. CASE ApplyProfileAction
  <2>1. PICK q \in Seq(Action) : q = requests /\ q # <<>>
    BY <1>6 DEF FocusTypeOK, ApplyProfileAction
  <2>2. PICK r \in Action : r = Head(q)
    BY <2>1
  <2>3. /\ r = q[1] /\ Len(q) \in Nat /\ Len(q) >= 1
        /\ Tail(q) \in Seq(Action) /\ Len(Tail(q)) = Len(q) - 1
        /\ \A i \in 1 .. Len(Tail(q)) : Tail(q)[i] = q[i + 1]
    BY <2>1, <2>2, HeadTailProperties, EmptySeq
  <2>4. /\ requests' = Tail(q) /\ activeProfile' = Becomes(r)
        /\ byUser' = IF Chooses(r) THEN r.user ELSE byUser
        /\ UNCHANGED <<configured, holds, tracker, requestLost, steady, now, moves>>
    BY <1>6, <2>1, <2>2 DEF ApplyProfileAction
  <2>5. /\ r.user \in BOOLEAN /\ r.action \in {"activate", "deactivate", "cycle"}
        /\ r.action = "cycle" => r.user
        /\ configured \subseteq Profiles /\ byUser \in BOOLEAN
    BY DEF Action, FocusTypeOK
  <2>6. ASSUME ~byUser'
        PROVE  \/ r.action = "activate" /\ r.name \in configured /\ activeProfile' = r.name /\ ~r.user
               \/ r.action = "deactivate" /\ r.name = activeProfile /\ activeProfile' = NoProfile
               \/ ~(r.action = "deactivate" /\ r.name = activeProfile) /\ activeProfile' = activeProfile /\ ~byUser
    <3>1. CASE r.action = "activate" /\ r.name \in configured
      BY <2>4, <2>6, <3>1 DEF Chooses, Becomes
    <3>2. CASE r.action = "deactivate" /\ r.name = activeProfile
      BY <2>4, <3>2 DEF Becomes
    <3>3. CASE r.action = "cycle" /\ configured # {}
      BY <2>4, <2>5, <2>6, <3>3 DEF Chooses
    <3>4. CASE /\ ~(r.action = "activate" /\ r.name \in configured)
               /\ ~(r.action = "deactivate" /\ r.name = activeProfile)
               /\ ~(r.action = "cycle" /\ configured # {})
      <4>1. Becomes(r) = activeProfile
        BY <3>4 DEF Becomes
      <4>2. ~Chooses(r)
        BY <3>4 DEF Chooses
      <4> QED
        BY <2>4, <2>6, <3>4, <4>1, <4>2
    <3> QED
      BY <3>1, <3>2, <3>3, <3>4
  <2>7. FocusTypeOK'
    <3>1. byUser' \in BOOLEAN
      BY <2>4, <2>5
    <3>2. ~byUser' => activeProfile' \in Profiles \cup {NoProfile}
      BY <2>5, <2>6 DEF FocusTypeOK
    <3> QED
      BY <2>3, <2>4, <3>1, <3>2 DEF FocusTypeOK
  <2>8. RetractInv'
    <3> SUFFICES ASSUME ~requestLost, NEW p \in Profiles, ~HeldActive(tracker[p])
                 PROVE  Behind(Tail(q), p) /\ (activeProfile' = p /\ ~byUser' => Ends(Tail(q), p))
      BY <2>4 DEF RetractInv
    <3>1. Behind(q, p) /\ (activeProfile = p /\ ~byUser => Ends(q, p))
      BY <2>1 DEF RetractInv
    <3>2. ASSUME NEW j \in 2 .. Len(q), Deactivates(q[j], p)
          PROVE  j - 1 \in 1 .. Len(Tail(q)) /\ Deactivates(Tail(q)[j - 1], p)
      BY <2>3, <3>2
    <3>3. Behind(Tail(q), p)
      <4> SUFFICES ASSUME NEW i \in 1 .. Len(Tail(q)), Activates(Tail(q)[i], p)
                   PROVE  \E j \in i + 1 .. Len(Tail(q)) : Deactivates(Tail(q)[j], p)
        BY DEF Behind
      <4>1. i + 1 \in 1 .. Len(q) /\ Activates(q[i + 1], p)
        BY <2>3
      <4>2. PICK j \in i + 1 + 1 .. Len(q) : Deactivates(q[j], p)
        BY <3>1, <4>1 DEF Behind
      <4>3. j - 1 \in i + 1 .. Len(Tail(q)) /\ Deactivates(Tail(q)[j - 1], p)
        BY <2>3, <3>2, <4>2
      <4> QED
        BY <4>3
    <3>4. ASSUME activeProfile' = p, ~byUser' PROVE Ends(Tail(q), p)
      <4>1. p # NoProfile
        BY FocusAssumption DEF Profiles
      <4>2. \E j \in 2 .. Len(q) : Deactivates(q[j], p)
        <5>1. CASE r.action = "activate" /\ activeProfile' = r.name /\ ~r.user
          <6>1. Activates(q[1], p) /\ 1 \in 1 .. Len(q)
            BY <2>3, <3>4, <5>1 DEF Activates
          <6> QED
            BY <3>1, <6>1 DEF Behind
        <5>2. CASE ~(r.action = "deactivate" /\ r.name = activeProfile) /\ activeProfile' = activeProfile /\ ~byUser
          <6>1. PICK j \in 1 .. Len(q) : Deactivates(q[j], p)
            BY <3>1, <3>4, <5>2 DEF Ends
          <6>2. j # 1
            BY <2>3, <3>4, <5>2, <6>1 DEF Deactivates
          <6> QED
            BY <2>3, <6>1, <6>2
        <5> QED
          BY <2>6, <3>4, <4>1, <5>1, <5>2
      <4> QED
        BY <3>2, <4>2 DEF Ends
    <3> QED
      BY <3>3, <3>4
  <2> QED
    BY <2>4, <2>7, <2>8 DEF ClockInv
<1>7. CASE UNCHANGED focusVars
  BY <1>7 DEF focusVars, FocusTypeOK, ClockInv, RetractInv
<1> QED
  BY <1>1, <1>2, <1>3, <1>4, <1>5, <1>6, <1>7 DEF FocusNext

\* Every step leaves the dwells whole.
LEMMA FocusDwells ==
  FocusTypeOK /\ ClockInv /\ [FocusNext]_focusVars => [DwellIsWhole]_focusVars
<1> SUFFICES ASSUME FocusTypeOK, ClockInv, FocusNext, NEW p \in Profiles
             PROVE  /\ tracker[p].at = "activating" /\ tracker'[p].at = "active" => holds[p] /\ steady[p] >= Dwell
                    /\ tracker[p].at = "deactivating" /\ tracker'[p].at = "inactive" => ~holds[p] /\ steady[p] >= ExitDwell
  BY DEF DwellIsWhole, Known, FocusTypeOK
<1>1. PICK t, u : t = tracker[p] /\ u = tracker'[p]
  OBVIOUS
<1>2. /\ t \in [at : PhaseNames, age : Nat] /\ steady[p] \in Nat
      /\ t.at = "activating" => holds[p] /\ t.age <= steady[p]
      /\ t.at = "deactivating" => ~holds[p] /\ t.age <= steady[p]
      /\ Dwell \in Nat /\ ExitDwell \in Nat
  BY <1>1, FocusAssumption DEF FocusTypeOK, ClockInv
<1>3. ASSUME NEW h \in [Profiles -> BOOLEAN], Evaluate(h)
      PROVE  /\ t.at = "activating" /\ u.at = "active" => t.age >= Dwell
             /\ t.at = "deactivating" /\ u.at = "inactive" => t.age >= ExitDwell
  <2>1. u = IF p \in configured THEN Advanced(t, h[p]) ELSE Absent
    BY <1>1, <1>3, EvaluateDoes
  <2>2. CASE p \in configured
    <3>1. h[p] \in BOOLEAN /\ u = Advanced(t, h[p])
      BY <2>1, <2>2
    <3> QED
      BY <1>2, <3>1, AdvancedPhase
  <2>3. CASE p \notin configured
    BY <2>1, <2>3 DEF Absent, Phase
  <2> QED
    BY <2>2, <2>3
<1>4. \/ t.at = u.at
      \/ /\ t.at = "activating" /\ u.at = "active" => t.age >= Dwell
         /\ t.at = "deactivating" /\ u.at = "inactive" => t.age >= ExitDwell
  <2>1. CASE SignalArrives
    <3>1. holds' \in [Profiles -> BOOLEAN] /\ Evaluate(holds')
      BY <2>1 DEF SignalArrives, FocusTypeOK
    <3>2. PICK h \in [Profiles -> BOOLEAN] : h = holds'
      BY <3>1
    <3> QED
      BY <1>3, <3>1, <3>2
  <2>2. CASE FocusTick
    <3>1. PICK h \in [Profiles -> BOOLEAN] : h = holds
      BY DEF FocusTypeOK
    <3> QED
      BY <1>3, <2>2, <3>1 DEF FocusTick
  <2>3. CASE FocusSecond
    <3>1. u = IF t.at \in {"activating", "deactivating"} THEN [t EXCEPT !.age = @ + 1] ELSE t
      BY <1>1, <2>3 DEF FocusSecond, Known, FocusTypeOK
    <3> QED
      BY <1>2, <3>1
  <2>4. CASE ReloadProfiles \/ UserAsks \/ ApplyProfileAction
    BY <1>1, <2>4 DEF ReloadProfiles, UserAsks, ApplyProfileAction
  <2> QED
    BY <2>1, <2>2, <2>3, <2>4 DEF FocusNext
<1> QED
  BY <1>1, <1>2, <1>4

\* What the invariant says of a channel with nothing in it.
LEMMA FocusSettled == FocusTypeOK /\ RetractInv => AutoRetracted
<1> SUFFICES ASSUME FocusTypeOK, RetractInv, requests = <<>>, ~requestLost,
                    activeProfile # NoProfile, ~byUser
             PROVE  tracker[activeProfile].at \in {"active", "deactivating"}
  BY DEF AutoRetracted
<1>1. activeProfile \in Profiles
  BY DEF FocusTypeOK
<1>2. ~Ends(requests, activeProfile)
  BY DEF Ends
<1> QED
  BY <1>1, <1>2 DEF RetractInv, HeldActive

\* What a trigger activated is retracted, and every dwell is whole.
THEOREM FocusCorrect == FocusSpec => FocusFollows
<1>1. FocusSpec => []((FocusTypeOK /\ ClockInv /\ RetractInv))
  BY FocusStart, FocusStep, PTL DEF FocusSpec
<1>2. FocusSpec => []AutoRetracted
  BY <1>1, FocusSettled, PTL
<1>3. FocusSpec => [][DwellIsWhole]_focusVars
  BY <1>1, FocusDwells, PTL DEF FocusSpec
<1> QED
  BY <1>2, <1>3, PTL DEF FocusFollows
-----------------------------------------------------------------------------
(* Appearance: levshell.toml with its writers and its readers, and the theme  *)
(* with the tasks that change it.                                             *)

Docs == {doc \in [Key -> {"unset", "low", "high", "on", "off"}] : \A k \in Key : doc[k] \in Choice(k) \cup {Unset}}

WriteJob ==
  [at : {"create", "fill", "rename", "apply"}, key : Key, value : {"low", "high", "on", "off"}, doc : Docs]

\* Only requests write, and know which setting.
WritersInv ==
  /\ job = [t \in Task |-> job[t]]
  /\ \A t \in Task : Writing(t) =>
       t \in Requester /\ job[t] \in WriteJob /\ job[t].value \in Choice(job[t].key)

\* What the one writer has done: the document it holds is the file with its setting.
OneWriter(c) ==
  /\ job[c].at \in {"create", "fill", "rename"} => job[c].doc = With(disk, job[c].key, job[c].value)
  /\ job[c].at = "fill" => fd[c] = "tmp" /\ tmp = Blank
  /\ job[c].at = "rename" => tmp = job[c].doc
  /\ job[c].at = "apply" => disk[job[c].key] = job[c].value

TomlInv ==
  /\ disk \in Docs \cup {Garbled} /\ tmp \in Docs \cup {Garbled, Nothing}
  /\ fd = [c \in Requester |-> fd[c]]
  /\ ~overlap =>
       /\ disk = saved /\ disk \in Docs
       /\ \A c, d \in Requester : Writing(c) /\ Writing(d) => c = d
       /\ \A c \in Requester : Writing(c) => OneWriter(c)

\* Whoever applies a document has the file's, or a change is to be looked at; a dial
\* that is not where the file has it is about to be turned.
DialInv ==
  /\ \A t \in Task : At(t, "document") => t \in {"settings", "main"}
  /\ At("settings", "document") => touched \/ job["settings"].doc = disk
  /\ At("main", "document") => listening /\ job["main"].doc = bootDoc
  /\ dial = [d \in Dial |-> dial[d]]
  /\ listening /\ ~stale /\ ~overlap /\ ~touched /\ ~At("settings", "document") /\ ~At("main", "document") =>
       \A d \in Dial \ (overridden \cup dropped) :
         disk[d] \in {Unset, dial[d]} \/ \E c \in Requester : At(c, "apply") /\ job[c].key = d

SettingsInv == WritersInv /\ TomlInv /\ DialInv

-----------------------------------------------------------------------------
ThemeAt == {"sync", "load", "install", "push", "propagate", "catchup"}

\* What OnDisplay says of the shell, of the file and of the system's preference.
ShellShows == attached /\ ~missed => shellTheme = active
FileShown == ~themeTouched => themeFile[active.name] \in {0, active.body}
InStep == follow /\ inStep /\ scheme \in {"dark", "light"} => Variant[active.name] = scheme
Shown == ShellShows /\ FileShown /\ InStep

\* A theme is loaded again, or for the system's preference, or by hand.
Cause(why, n) ==
  /\ why \in {"hand", "system", "reload"}
  /\ why = "reload" => n = active.name
  /\ why = "system" => scheme # Nothing /\ (follow => Variant[n] = scheme)
  /\ why # "system" => InStep

\* What holds while a task that no other crosses is at it.
Fits(j) ==
  /\ j.at \notin ThemeAt => Shown
  /\ j.at = "sync" => ShellShows /\ FileShown /\ scheme # Nothing /\ (follow => j.scheme = scheme)
  /\ j.at = "load" => ShellShows /\ (FileShown \/ j.name = active.name) /\ Cause(j.why, j.name)
  /\ j.at = "install" =>
       /\ ShellShows /\ (FileShown \/ j.theme.name = active.name) /\ Cause(j.why, j.theme.name)
       /\ ~themeTouched => j.theme.body = themeFile[j.theme.name]
  /\ j.at = "push" => j.theme = active /\ (attached => j.shell) /\ FileShown /\ InStep
  /\ j.at = "propagate" => ShellShows /\ FileShown /\ InStep
  /\ j.at = "catchup" => j.theme = active /\ FileShown /\ InStep

NamedTheme(j) == (j.at = "load" => j.name \in Theme) /\ (j.at = "install" => j.theme.name \in Theme)

Alone(t) == \A u \in Task \ {t} : ~Changing(u)

\* What a display will show once the commands for it are through.
Coming(d) == IF running[d] = {} THEN {desktop[d]} ELSE running[d]

\* Every display shows the active theme, or is about to.
Told == \A d \in Display \ unsure : Orders(active)[d] \subseteq Coming(d)

\* Two commands are on their way to one display only if it is known to be uncertain.
CommandsInv ==
  /\ desktop = [d \in Display |-> desktop[d]] /\ running = [d \in Display |-> running[d]]
  /\ \A d \in Display \ unsure : \A x, y \in running[d] : x = y

\* The desktop is behind only while somebody is on the way to it; and if no two tasks
\* changed the theme at once, there is one at most and it finds what it expects.
ThemeInv ==
  /\ active.name \in Theme /\ \A t \in Task : NamedTheme(job[t])
  /\ Told \/ \E t \in Task : job[t].at \in {"push", "propagate"}
  /\ ~themeRace =>
       /\ \A t, u \in Task : Changing(t) /\ Changing(u) => t = u
       /\ \A t \in Task : Alone(t) => Fits(job[t])

LookInv == SettingsInv /\ ThemeInv

-----------------------------------------------------------------------------
\* What a display shows or will show is about the theme and the commands only.
LEMMA SameTold == ASSUME Told, UNCHANGED <<desktopVars, active>> PROVE Told'
  BY DEF Told, Coming, Orders, desktopVars

\* A step of one task keeps the theme in order if it does so while the task is alone.
LEMMA ThemeTurn ==
  ASSUME ThemeInv, WritersInv, NEW t \in Task, NEW j, job' = [job EXCEPT ![t] = j],
         active'.name \in Theme, NamedTheme(j),
         \/ Told' \/ j.at \in {"push", "propagate"}
         \/ UNCHANGED <<desktopVars, active>> /\ job[t].at \notin {"push", "propagate"},
         themeRace' \/ (Alone(t) /\ Fits(j)')
  PROVE  ThemeInv'
<1>1. job'[t] = j /\ \A u \in Task \ {t} : job'[u] = job[u]
  <2>1. job = [u \in Task |-> job[u]] BY DEF WritersInv
  <2> QED BY <2>1
<1>2. \A u \in Task : NamedTheme(job'[u])
  <2>1. \A u \in Task : NamedTheme(job[u]) BY DEF ThemeInv
  <2> HIDE DEF NamedTheme
  <2> QED BY <1>1, <2>1
<1>3. Told' \/ \E u \in Task : job'[u].at \in {"push", "propagate"}
  <2>1. CASE Told' BY <2>1
  <2>2. CASE j.at \in {"push", "propagate"} BY <1>1, <2>2
  <2>3. CASE UNCHANGED <<desktopVars, active>> /\ job[t].at \notin {"push", "propagate"}
    <3>1. Told \/ \E u \in Task : job[u].at \in {"push", "propagate"} BY DEF ThemeInv
    <3>2. CASE Told BY <2>3, <3>2, SameTold
    <3>3. ASSUME NEW u \in Task, job[u].at \in {"push", "propagate"}
          PROVE  \E v \in Task : job'[v].at \in {"push", "propagate"}
      <4>1. u # t BY <2>3, <3>3
      <4>2. job'[u] = job[u] BY <1>1, <4>1
      <4> QED BY <3>3, <4>2
    <3> QED BY <3>1, <3>2, <3>3
  <2> QED BY <2>1, <2>2, <2>3
<1>4. ASSUME ~themeRace'
      PROVE  /\ \A u, v \in Task : Changing(u)' /\ Changing(v)' => u = v
             /\ \A u \in Task : Alone(u)' => Fits(job[u])'
  <2>1. Alone(t) /\ Fits(j)' BY <1>4
  <2>2. \A u \in Task \ {t} : ~Changing(u)' BY <1>1, <2>1 DEF Alone, Changing
  <2>3. ASSUME NEW u \in Task, Alone(u)' PROVE Fits(job[u])'
    <3>1. CASE u = t
      <4>1. job[u]' = j BY <1>1, <3>1
      <4> QED BY <2>1, <4>1 DEF Fits
    <3>2. CASE u # t
      <4>1. ~Changing(u)' /\ ~Changing(t)' BY <2>2, <2>3, <3>2 DEF Alone
      <4>2. job[t]'.at \notin ThemeAt /\ job[u]'.at \notin ThemeAt BY <4>1 DEF Changing, ThemeAt
      <4>3. j.at \notin ThemeAt BY <1>1, <4>2
      <4>4. Shown' BY <2>1, <4>3 DEF Fits, ThemeAt
      <4> QED BY <4>2, <4>4 DEF Fits, ThemeAt
    <3> QED BY <3>1, <3>2
  <2> QED BY <2>2, <2>3
<1> HIDE DEF NamedTheme
<1> QED BY <1>2, <1>3, <1>4 DEF ThemeInv, NamedTheme

\* So does a step of a task that is not at it, if everyone who is still finds what it expects.
LEMMA ThemeStays ==
  ASSUME ThemeInv, WritersInv, NEW t \in Task, NEW j, job' = [job EXCEPT ![t] = j],
         job[t].at \notin ThemeAt, j.at \notin ThemeAt, UNCHANGED <<active, desktopVars, themeRace>>,
         \A k : Fits(k) => Fits(k)'
  PROVE  ThemeInv'
<1>1. job'[t] = j /\ (\A u \in Task \ {t} : job'[u] = job[u]) /\ \A u \in Task : Changing(u)' <=> Changing(u)
  <2>1. job = [u \in Task |-> job[u]] BY DEF WritersInv
  <2>2. job'[t] = j /\ \A u \in Task \ {t} : job'[u] = job[u] BY <2>1
  <2> QED BY <2>2 DEF Changing, ThemeAt
<1>2. \A u \in Task : NamedTheme(job[u])'
  <2>1. \A u \in Task : NamedTheme(job[u]) BY DEF ThemeInv
  <2>2. NamedTheme(j) BY DEF NamedTheme, ThemeAt
  <2> QED BY <1>1, <2>1, <2>2 DEF NamedTheme
<1>3. Told' \/ \E u \in Task : job'[u].at \in {"push", "propagate"}
  <2>1. Told \/ \E u \in Task : job[u].at \in {"push", "propagate"} BY DEF ThemeInv
  <2>2. \A u \in Task : job[u].at \in {"push", "propagate"} => job'[u].at \in {"push", "propagate"}
    BY <1>1 DEF ThemeAt
  <2> QED BY <2>1, <2>2, SameTold
<1>4. ASSUME ~themeRace, NEW u \in Task, Alone(u)' PROVE Fits(job[u])'
  <2>1. Alone(u) /\ Fits(job[u]) BY <1>1, <1>4 DEF Alone, ThemeInv
  <2>2. CASE u # t
    <3>1. PICK k : k = job[u] OBVIOUS
    <3>2. Fits(k)' BY <2>1, <3>1
    <3>3. job[u]' = k BY <1>1, <2>2, <3>1
    <3> QED BY <3>2, <3>3 DEF Fits
  <2>3. CASE u = t
    <3>1. PICK k : k = job[t] OBVIOUS
    <3>2. Fits(k)' BY <2>1, <2>3, <3>1
    <3>3. Shown' BY <3>1, <3>2 DEF Fits
    <3>4. job[u]' = j BY <1>1, <2>3
    <3> QED BY <3>3, <3>4 DEF Fits, ThemeAt
  <2> QED BY <2>2, <2>3
<1>5. ~themeRace => \A u, v \in Task : Changing(u)' /\ Changing(v)' => u = v BY <1>1 DEF ThemeInv
<1>6. active'.name \in Theme BY DEF ThemeInv
<1> QED BY <1>2, <1>3, <1>4, <1>5, <1>6 DEF ThemeInv

\* Nor does a step of none of them disturb it.
LEMMA ThemeAside ==
  ASSUME ThemeInv, UNCHANGED <<job, active, themeRace>>, Told => Told', \A k : Fits(k) => Fits(k)'
  PROVE  ThemeInv'
<1>1. \A t \in Task : (Alone(t)' <=> Alone(t)) /\ (Changing(t)' <=> Changing(t)) BY DEF Alone, Changing
<1>2. \A t \in Task : NamedTheme(job[t])' BY DEF ThemeInv, NamedTheme
<1>3. ASSUME ~themeRace, NEW t \in Task, Alone(t)' PROVE Fits(job[t])'
  <2>1. PICK k : k = job[t] OBVIOUS
  <2>2. Fits(k) BY <1>1, <1>3, <2>1 DEF ThemeInv
  <2>3. Fits(k)' BY <2>2
  <2>4. job[t]' = k BY <2>1
  <2> QED BY <2>3, <2>4 DEF Fits
<1> QED BY <1>1, <1>2, <1>3 DEF ThemeInv

\* What a task expects is about the theme only.
LEMMA SameFits == ASSUME UNCHANGED <<shownVars, followVars>>, NEW k PROVE Fits(k) => Fits(k)'
  BY DEF Fits, Shown, ShellShows, shellVars, FileShown, InStep, Cause, shownVars, shellVars, followVars

\* A task that sets out to change the theme finds it in order, or is not the only one.
LEMMA SettingOut ==
  ASSUME ThemeInv, NEW t \in Task, job[t].at \notin ThemeAt,
         themeRace' = (themeRace \/ \E u \in Task \ {t} : Changing(u))
  PROVE  themeRace' \/ (~themeRace /\ Alone(t) /\ Shown)
<1> SUFFICES ASSUME ~themeRace' PROVE ~themeRace /\ Alone(t) /\ Shown OBVIOUS
<1>1. ~themeRace /\ Alone(t) BY DEF Alone
<1>2. Fits(job[t]) BY <1>1 DEF ThemeInv
<1> QED BY <1>1, <1>2 DEF Fits

-----------------------------------------------------------------------------
\* At the start nobody is at work, and everything is as it was read.
LEMMA LookInitially == LookInit => LookInv
<1> SUFFICES ASSUME LookInit PROVE LookInv OBVIOUS
<1> USE DEF LookInit
<1>1. \A t \in Task : job[t] = [at |-> "idle"] BY DEF Idle
<1>2. Blank \in Docs
  <2>1. Blank \in [Key -> {"unset", "low", "high", "on", "off"}] BY DEF Blank, Unset
  <2>2. \A k \in Key : Blank[k] = Unset BY DEF Blank
  <2> QED BY <2>1, <2>2 DEF Docs
<1>3. WritersInv BY <1>1 DEF WritersInv, Writing
<1>4. TomlInv
  <2>1. \A c \in Requester : ~Writing(c) BY <1>1 DEF Writing, Task
  <2>2. disk = saved /\ disk \in Docs /\ tmp = Nothing /\ fd = [c \in Requester |-> fd[c]] BY <1>2
  <2> QED BY <2>1, <2>2 DEF TomlInv
<1>5. DialInv
  <2>1. ~listening /\ dial = [d \in Dial |-> dial[d]] OBVIOUS
  <2>2. "settings" \in Task /\ "main" \in Task BY DEF Task
  <2>3. \A t \in Task : ~At(t, "document") BY <1>1 DEF At
  <2> QED BY <2>1, <2>2, <2>3 DEF DialInv
<1>6. ThemeInv
  <2>1. active.name \in Theme /\ active.body = 1 BY LookAssumption
  <2>2. \A t \in Task : job[t].at \notin ThemeAt /\ NamedTheme(job[t]) BY <1>1 DEF ThemeAt, NamedTheme
  <2>3. Shown BY <2>1 DEF Shown, ShellShows, shellVars, FileShown, InStep
  <2>4. \A t \in Task : Fits(job[t]) BY <2>2, <2>3 DEF Fits, ThemeAt
  <2>5. \A t \in Task : ~Changing(t) BY <2>2 DEF Changing, ThemeAt
  <2>6. Told
    <3>1. \A d \in Display : running[d] = {} OBVIOUS
    <3>2. desktop["gtk"] = Variant[active.name] /\ (active \notin Plain => desktop["sway"] = active) OBVIOUS
    <3> QED BY <3>1, <3>2 DEF Told, Coming, Orders, Display
  <2> QED BY <2>1, <2>2, <2>4, <2>5, <2>6 DEF ThemeInv
<1> QED BY <1>3, <1>4, <1>5, <1>6 DEF LookInv, SettingsInv

-----------------------------------------------------------------------------
(* The settings *)

\* What a step of one task does to the tasks.
LEMMA OneMoves ==
  ASSUME WritersInv, NEW t \in Task, NEW j, job' = [job EXCEPT ![t] = j]
  PROVE  job' = [u \in Task |-> job'[u]] /\ job'[t] = j /\ \A u \in Task \ {t} : job'[u] = job[u]
<1>1. job = [u \in Task |-> job[u]] BY DEF WritersInv
<1> QED BY <1>1

\* A task that sets out to write, or goes on, must be a request that knows what it writes.
LEMMA WritersTurn ==
  ASSUME WritersInv, NEW t \in Task, NEW j, job' = [job EXCEPT ![t] = j],
         j.at \in {"create", "fill", "rename", "apply"} =>
           t \in Requester /\ j \in WriteJob /\ j.value \in Choice(j.key)
  PROVE  WritersInv'
<1>1. job' = [u \in Task |-> job'[u]] /\ job'[t] = j /\ \A u \in Task \ {t} : job'[u] = job[u] BY OneMoves
<1>2. ASSUME NEW u \in Task, Writing(u)'
      PROVE  u \in Requester /\ job'[u] \in WriteJob /\ job'[u].value \in Choice(job'[u].key)
  <2>1. CASE u = t BY <1>1, <1>2, <2>1 DEF Writing
  <2>2. CASE u # t BY <1>1, <1>2, <2>2 DEF Writing, WritersInv
  <2> QED BY <2>1, <2>2
<1> QED BY <1>1, <1>2 DEF WritersInv

\* The files are as they should be if nobody touches them and no writer goes on.
LEMMA FileStays ==
  ASSUME WritersInv, TomlInv, NEW t \in Task, NEW j, job' = [job EXCEPT ![t] = j],
         UNCHANGED <<disk, tmp, fd, saved, overlap>>, j.at \notin {"create", "fill", "rename", "apply"}
  PROVE  TomlInv'
<1>1. job'[t] = j /\ \A u \in Task \ {t} : job'[u] = job[u] BY OneMoves
<1>2. \A c \in Requester : c \in Task BY DEF Task
<1>3. \A c \in Requester : Writing(c)' => Writing(c) /\ job'[c] = job[c] BY <1>1, <1>2 DEF Writing
<1>4. ASSUME NEW c \in Requester, Writing(c)', Writing(c) => OneWriter(c) PROVE OneWriter(c)'
  <2>1. job'[c] = job[c] /\ OneWriter(c) BY <1>3, <1>4
  <2> QED BY <2>1 DEF OneWriter
<1> QED BY <1>3, <1>4 DEF TomlInv

\* A step that takes a task neither to a file nor to a document leaves the settings as they are.
LEMMA SettingsTurn ==
  ASSUME SettingsInv, NEW t \in Task, NEW j, job' = [job EXCEPT ![t] = j],
         UNCHANGED <<fileVars, dialVars>>,
         j.at \notin {"create", "fill", "rename", "apply", "document"},
         job[t].at \notin {"create", "fill", "rename", "document"},
         job[t].at = "apply" => job[t].key \notin Dial
  PROVE  SettingsInv'
<1>1. job'[t] = j /\ \A u \in Task \ {t} : job'[u] = job[u] BY OneMoves DEF SettingsInv
<1>3. WritersInv' BY WritersTurn DEF SettingsInv
<1>4. TomlInv' BY FileStays DEF SettingsInv, fileVars
<1>5. DialInv'
  <2>1. DialInv BY DEF SettingsInv
  <2>2. /\ disk' = disk /\ touched' = touched /\ overlap' = overlap
        /\ bootDoc' = bootDoc /\ dial' = dial /\ dropped' = dropped /\ listening' = listening
        /\ overridden' = overridden /\ stale' = stale
    BY DEF fileVars, dialVars
  <2>3. \A u \in Task : (At(u, "document")' <=> At(u, "document")) /\ (At(u, "document") => job'[u] = job[u])
    BY <1>1 DEF At
  <2>4. "settings" \in Task /\ "main" \in Task /\ \A c \in Requester : c \in Task BY DEF Task
  <2>5. \A c \in Requester, d \in Dial :
          At(c, "apply") /\ job[c].key = d => At(c, "apply")' /\ job'[c].key = d
    BY <1>1, <2>4 DEF At
  <2> QED BY <2>1, <2>2, <2>3, <2>4, <2>5 DEF DialInv
<1> QED BY <1>3, <1>4, <1>5 DEF SettingsInv

\* A document with a setting put into it is one.
LEMMA WithIsDoc ==
  ASSUME NEW doc \in Docs, NEW k \in Key, NEW v \in Choice(k) PROVE With(doc, k, v) \in Docs
<1>1. v \in {"low", "high", "on", "off"} BY DEF Choice
<1>2. With(doc, k, v) \in [Key -> {"unset", "low", "high", "on", "off"}] BY <1>1 DEF With, Docs
<1>3. \A x \in Key : With(doc, k, v)[x] \in Choice(x) \cup {Unset} BY DEF With, Docs
<1> QED BY <1>2, <1>3 DEF Docs

\* An empty file is one.
LEMMA BlankIsDoc == Blank \in Docs
<1>1. Blank \in [Key -> {"unset", "low", "high", "on", "off"}] BY DEF Blank, Unset
<1>2. \A k \in Key : Blank[k] = Unset BY DEF Blank
<1> QED BY <1>1, <1>2 DEF Docs

\* No file at all is neither a document nor a garbled one.
LEMMA DocIsNot == Nothing \notin Docs /\ Nothing # Garbled
<1>1. \A doc \in Docs : doc \in [Key -> {"unset", "low", "high", "on", "off", "garbled"}] BY DEF Docs
<1>2. Garbled \in [Key -> {"unset", "low", "high", "on", "off", "garbled"}] BY DEF Garbled
<1> QED BY <1>1, <1>2, LookAssumption

\* The dials need only be looked at where the file, a dial or who is about to turn it changes.
LEMMA DialStays ==
  ASSUME WritersInv, DialInv, NEW t \in Task, NEW j, job' = [job EXCEPT ![t] = j],
         UNCHANGED dialVars, overlap => overlap', touched => touched', disk' = disk \/ touched',
         j.at # "document", job[t].at \notin {"apply", "document"}
  PROVE  DialInv'
<1>1. job'[t] = j /\ \A u \in Task \ {t} : job'[u] = job[u] BY OneMoves
<1>2. /\ bootDoc' = bootDoc /\ dial' = dial /\ dropped' = dropped /\ listening' = listening
      /\ overridden' = overridden /\ stale' = stale
  BY DEF dialVars
<1>3. \A u \in Task : (At(u, "document")' <=> At(u, "document")) /\ (At(u, "document") => job'[u] = job[u])
  BY <1>1 DEF At
<1>4. "settings" \in Task /\ "main" \in Task /\ \A c \in Requester : c \in Task BY DEF Task
<1>5. \A c \in Requester, d \in Dial :
        At(c, "apply") /\ job[c].key = d => At(c, "apply")' /\ job'[c].key = d
  BY <1>1, <1>4 DEF At
<1>6. touched' \/ (~touched /\ disk' = disk) OBVIOUS
<1> QED BY <1>2, <1>3, <1>4, <1>5, <1>6 DEF DialInv

\* A writer begins: it is the only one, or two have met.
LEMMA StepReadSettings == ASSUME LookInv, NEW c \in Requester, ReadSettings(c) PROVE LookInv'
<1> USE DEF LookInv, SettingsInv
<1>0. c \in Task /\ \A u \in Requester : u \in Task BY DEF Task
<1>a. PICK k \in Key : \E v \in Choice(k) :
        job' = [job EXCEPT ![c] = [at |-> "create", key |-> k, value |-> v, doc |-> With(disk, k, v)]]
  BY DEF ReadSettings, Goto
<1>1. PICK v \in Choice(k) :
        job' = [job EXCEPT ![c] = [at |-> "create", key |-> k, value |-> v, doc |-> With(disk, k, v)]]
  BY <1>a
<1>2. PICK j : j = [at |-> "create", key |-> k, value |-> v, doc |-> With(disk, k, v)] OBVIOUS
<1>3. job' = [job EXCEPT ![c] = j] BY <1>1, <1>2
<1>4. disk \in Docs BY DEF ReadSettings, TomlInv
<1>5. j \in WriteJob /\ j.value \in Choice(j.key)
  <2>1. v \in {"low", "high", "on", "off"} BY DEF Choice
  <2> QED BY <1>2, <1>4, <2>1, WithIsDoc DEF WriteJob
<1>6. job'[c] = j /\ \A u \in Task \ {c} : job'[u] = job[u] BY <1>0, <1>3, OneMoves
<1>7. WritersInv' BY <1>0, <1>3, <1>5, WritersTurn
<1>8. TomlInv'
  <2>1. disk' = disk /\ tmp' = tmp /\ fd' = fd /\ saved' = saved /\ (~overlap' => ~overlap /\ \A d \in Requester : ~Writing(d))
    BY DEF ReadSettings
  <2>2. ~overlap' => \A d \in Requester : Writing(d)' => d = c BY <1>0, <1>6, <2>1 DEF Writing
  <2>3. OneWriter(c)' BY <1>2, <1>6, <2>1 DEF OneWriter
  <2> QED BY <1>4, <2>1, <2>2, <2>3 DEF TomlInv
<1>9. DialInv'
  <2>1. j.at = "create" /\ job[c].at = "idle" BY <1>2 DEF ReadSettings, At
  <2>2. disk' = disk /\ touched' = touched /\ UNCHANGED dialVars /\ (overlap => overlap') BY DEF ReadSettings
  <2> QED BY <1>0, <1>3, <2>1, <2>2, DialStays
<1>10. ThemeInv' BY <1>0, <1>2, <1>3, SameFits, ThemeStays DEF ReadSettings, shownVars, At, ThemeAt
<1> QED BY <1>7, <1>8, <1>9, <1>10

\* The temporary file is emptied.
LEMMA StepCreateTmp == ASSUME LookInv, NEW c \in Requester, CreateTmp(c) PROVE LookInv'
<1> USE DEF LookInv, SettingsInv
<1>0. c \in Task /\ \A u \in Requester : u \in Task BY DEF Task
<1>1. PICK j : j = [job[c] EXCEPT !.at = "fill"] OBVIOUS
<1>2. job' = [job EXCEPT ![c] = j] BY <1>1 DEF CreateTmp, Goto
<1>3. job[c] \in WriteJob /\ job[c].value \in Choice(job[c].key) /\ job[c].at = "create"
  BY <1>0 DEF CreateTmp, At, WritersInv, Writing
<1>4. j \in WriteJob /\ j.at = "fill" /\ j.key = job[c].key /\ j.value = job[c].value /\ j.doc = job[c].doc
  BY <1>1, <1>3 DEF WriteJob
<1>6. job'[c] = j /\ \A u \in Task \ {c} : job'[u] = job[u] BY <1>0, <1>2, OneMoves
<1>7. WritersInv' BY <1>0, <1>2, <1>3, <1>4, WritersTurn
<1>8. TomlInv'
  <2>1. /\ disk' = disk /\ tmp' = Blank /\ fd' = [fd EXCEPT ![c] = "tmp"] /\ saved' = saved /\ overlap' = overlap
        /\ Writing(c)
    BY DEF CreateTmp, Writing, At
  <2>2. fd' = [u \in Requester |-> fd'[u]] /\ fd'[c] = "tmp" BY <2>1 DEF TomlInv
  <2>3. ~overlap => \A d \in Requester : Writing(d)' => d = c BY <1>0, <1>6, <2>1 DEF Writing, TomlInv
  <2>4. ~overlap => OneWriter(c)'
    <3>1. ~overlap => OneWriter(c) BY <2>1 DEF TomlInv
    <3> QED BY <1>3, <1>4, <1>6, <2>1, <2>2, <3>1 DEF OneWriter
  <2> QED BY <2>1, <2>2, <2>3, <2>4, BlankIsDoc DEF TomlInv
<1>9. DialInv' BY <1>0, <1>2, <1>3, <1>4, DialStays DEF CreateTmp
<1>10. ThemeInv' BY <1>0, <1>2, <1>3, <1>4, SameFits, ThemeStays DEF CreateTmp, shownVars, ThemeAt
<1> QED BY <1>7, <1>8, <1>9, <1>10

\* Alone, a writer finds its own empty file and fills it.
LEMMA StepFillTmp == ASSUME LookInv, NEW c \in Requester, FillTmp(c) PROVE LookInv'
<1> USE DEF LookInv, SettingsInv
<1>0. c \in Task /\ \A u \in Requester : u \in Task BY DEF Task
<1>1. PICK j : j = [job[c] EXCEPT !.at = "rename"] OBVIOUS
<1>2. job' = [job EXCEPT ![c] = j] BY <1>1 DEF FillTmp, Goto
<1>3. job[c] \in WriteJob /\ job[c].value \in Choice(job[c].key) /\ job[c].at = "fill"
  BY <1>0 DEF FillTmp, At, WritersInv, Writing
<1>4. /\ j \in WriteJob /\ j.at = "rename" /\ j.key = job[c].key /\ j.value = job[c].value /\ j.doc = job[c].doc
      /\ j.doc \in Docs
  BY <1>1, <1>3 DEF WriteJob
<1>6. job'[c] = j /\ \A u \in Task \ {c} : job'[u] = job[u] BY <1>0, <1>2, OneMoves
<1>7. WritersInv' BY <1>0, <1>2, <1>3, <1>4, WritersTurn
<1>8. TomlInv'
  <2>1. fd' = fd /\ saved' = saved /\ overlap' = overlap /\ Writing(c) BY <1>3 DEF FillTmp, Writing
  <2>2. \A old : Filled(old, j.doc) \subseteq Docs \cup {Garbled} BY <1>4 DEF Filled
  <2>3. disk' \in Docs \cup {Garbled} /\ tmp' \in Docs \cup {Garbled, Nothing}
    <3>1. tmp' \in Filled(tmp, j.doc) \/ tmp' = tmp BY <1>4 DEF FillTmp
    <3>2. disk' \in Filled(disk, j.doc) \/ disk' = disk BY <1>4 DEF FillTmp
    <3> QED BY <2>2, <3>1, <3>2 DEF TomlInv
  <2>4. ~overlap => \A d \in Requester : Writing(d)' => d = c BY <1>0, <1>6, <2>1 DEF Writing, TomlInv
  <2>5. ASSUME ~overlap PROVE disk' = disk /\ OneWriter(c)'
    <3>1. OneWriter(c) BY <2>1, <2>5 DEF TomlInv
    <3>2. fd[c] = "tmp" /\ tmp = Blank /\ j.doc = With(disk, j.key, j.value) BY <1>3, <1>4, <3>1 DEF OneWriter
    <3>3. disk' = disk BY <3>2 DEF FillTmp
    <3>4. tmp' \in Filled(Blank, j.doc) BY <1>4, <3>2 DEF FillTmp
    <3>5. tmp' = j.doc BY <3>4 DEF Filled
    <3> QED BY <1>4, <1>6, <3>2, <3>3, <3>5 DEF OneWriter
  <2> QED BY <2>1, <2>3, <2>4, <2>5 DEF TomlInv
<1>9. DialInv'
  <2>1. (touched => touched') /\ (disk' = disk \/ touched') BY DEF FillTmp
  <2> QED BY <1>0, <1>2, <1>3, <1>4, <2>1, DialStays DEF FillTmp
<1>10. ThemeInv' BY <1>0, <1>2, <1>3, <1>4, SameFits, ThemeStays DEF FillTmp, shownVars, ThemeAt
<1> QED BY <1>7, <1>8, <1>9, <1>10

\* Without its temporary file a writer gives up; with it the file is replaced.
LEMMA StepRenameTmp == ASSUME LookInv, NEW c \in Requester, RenameTmp(c) PROVE LookInv'
<1> USE DEF LookInv, SettingsInv
<1>0. c \in Task /\ \A u \in Requester : u \in Task BY DEF Task
<1>1. PICK j : j = IF tmp = Nothing THEN Idle ELSE [job[c] EXCEPT !.at = "apply"] OBVIOUS
<1>2. job' = [job EXCEPT ![c] = j] BY <1>1 DEF RenameTmp, Goto
<1>3. job[c] \in WriteJob /\ job[c].value \in Choice(job[c].key) /\ job[c].at = "rename"
  BY <1>0 DEF RenameTmp, At, WritersInv, Writing
<1>4. tmp # Nothing => /\ j \in WriteJob /\ j.at = "apply"
                       /\ j.key = job[c].key /\ j.value = job[c].value /\ j.doc = job[c].doc
  BY <1>1, <1>3 DEF WriteJob
<1>5. tmp = Nothing => j.at = "idle" BY <1>1 DEF Idle
<1>6. job'[c] = j /\ \A u \in Task \ {c} : job'[u] = job[u] BY <1>0, <1>2, OneMoves
<1>7. WritersInv' BY <1>0, <1>2, <1>3, <1>4, <1>5, WritersTurn
<1>8. TomlInv'
  <2>1. overlap' = overlap /\ Writing(c) BY <1>3 DEF RenameTmp, Writing
  <2>2. fd' = [u \in Requester |-> fd'[u]]
    <3>1. CASE tmp = Nothing BY <3>1 DEF RenameTmp, TomlInv
    <3>2. CASE tmp # Nothing BY <3>2 DEF RenameTmp
    <3> QED BY <3>1, <3>2
  <2>3. disk' \in Docs \cup {Garbled} /\ tmp' \in Docs \cup {Garbled, Nothing} BY DEF RenameTmp, TomlInv
  <2>4. ~overlap => \A d \in Requester : Writing(d)' => d = c BY <1>0, <1>6, <2>1 DEF Writing, TomlInv
  <2>5. ASSUME ~overlap PROVE disk' = saved' /\ disk' \in Docs /\ OneWriter(c)'
    <3>1. OneWriter(c) /\ disk = saved /\ disk \in Docs BY <2>1, <2>5 DEF TomlInv
    <3>2. tmp = job[c].doc /\ job[c].doc \in Docs /\ job[c].doc = With(disk, job[c].key, job[c].value)
      BY <1>3, <3>1 DEF OneWriter, WriteJob
    <3>3. tmp # Nothing BY <3>2, DocIsNot
    <3>4. disk' = tmp /\ saved' = [saved EXCEPT ![job[c].key] = job[c].value] BY <3>3 DEF RenameTmp
    <3>5. disk' = [disk EXCEPT ![job[c].key] = job[c].value] BY <3>2, <3>4 DEF With
    <3>6. job[c].key \in Key /\ disk = [k \in Key |-> disk[k]] BY <1>3, <3>1 DEF WriteJob, Docs
    <3>7. disk'[job[c].key] = job[c].value BY <3>5, <3>6
    <3>8. OneWriter(c)' BY <1>4, <1>6, <3>3, <3>7 DEF OneWriter
    <3> QED BY <3>1, <3>2, <3>4, <3>5, <3>8
  <2> QED BY <2>1, <2>2, <2>3, <2>4, <2>5 DEF TomlInv
<1>9. DialInv'
  <2>1. (touched => touched') /\ (disk' = disk \/ touched') BY DEF RenameTmp
  <2> QED BY <1>0, <1>2, <1>3, <1>4, <1>5, <2>1, DialStays DEF RenameTmp
<1>10. ThemeInv' BY <1>0, <1>2, <1>3, <1>4, <1>5, SameFits, ThemeStays DEF RenameTmp, shownVars, ThemeAt
<1> QED BY <1>7, <1>8, <1>9, <1>10

\* The user's own edit counts as one of the writers'.
LEMMA StepEditSettings == ASSUME LookInv, EditSettings PROVE LookInv'
<1> USE DEF LookInv, SettingsInv
<1>1. /\ job' = job /\ tmp' = tmp /\ fd' = fd /\ touched' /\ disk' = saved' /\ UNCHANGED dialVars
      /\ ~overlap' => \A t \in Requester : ~Writing(t)
  BY DEF EditSettings
<1>2. disk' \in Docs BY BlankIsDoc, WithIsDoc DEF EditSettings
<1>3. WritersInv' BY <1>1 DEF WritersInv, Writing
<1>4. TomlInv'
  <2>1. ~overlap' => \A t \in Requester : ~Writing(t)' BY <1>1 DEF Writing
  <2> QED BY <1>1, <1>2, <2>1 DEF TomlInv
<1>5. DialInv' BY <1>1 DEF DialInv, dialVars, At
<1>6. ThemeInv' BY SameFits, SameTold, ThemeAside DEF EditSettings, shownVars
<1> QED BY <1>3, <1>4, <1>5, <1>6

\* A dial turned by a request no longer follows the file.
LEMMA StepRequestDial == ASSUME LookInv, NEW c \in Requester, RequestDial(c) PROVE LookInv'
<1> USE DEF LookInv, SettingsInv
<1>1. /\ job' = job /\ UNCHANGED <<disk, tmp, fd, touched, saved, overlap, bootDoc, listening, stale>>
  BY DEF RequestDial, fileVars
<1>3. WritersInv' BY <1>1 DEF WritersInv, Writing
<1>4. TomlInv'
  <2>1. \A d \in Requester : (Writing(d)' <=> Writing(d)) /\ (OneWriter(d)' <=> OneWriter(d))
    BY <1>1 DEF Writing, OneWriter
  <2> QED BY <1>1, <2>1 DEF TomlInv
<1>5. DialInv'
  <2>1. PICK d \in Dial : \E v \in Choice(d) : Turn(d, v) /\ overridden' = overridden \cup {d}
    BY DEF RequestDial
  <2>2. PICK v \in Choice(d) : Turn(d, v) BY <2>1
  <2>3. /\ dial' = [e \in Dial |-> dial'[e]]
        /\ \A e \in Dial \ {d} : dial'[e] = dial[e] /\ (e \notin dropped' => e \notin dropped)
    BY <2>2 DEF Turn, DialInv
  <2>4. overridden' = overridden \cup {d} BY <2>1
  <2> QED BY <1>1, <2>3, <2>4 DEF DialInv, At
<1>6. ThemeInv' BY SameFits, SameTold, ThemeAside DEF RequestDial, shownVars
<1> QED BY <1>3, <1>4, <1>5, <1>6

\* A dial is turned to what its writer has left in the file.
LEMMA StepApplyDial == ASSUME LookInv, NEW c \in Requester, ApplyDial(c) PROVE LookInv'
<1> USE DEF LookInv, SettingsInv
<1>0. c \in Task /\ \A u \in Requester : u \in Task BY DEF Task
<1>1. job' = [job EXCEPT ![c] = Idle] /\ Idle.at = "idle" BY DEF ApplyDial, Goto, Idle
<1>2. job'[c] = Idle /\ \A u \in Task \ {c} : job'[u] = job[u] BY <1>0, <1>1, OneMoves
<1>3. UNCHANGED <<disk, tmp, fd, touched, saved, overlap, bootDoc, listening, overridden, stale>>
  BY DEF ApplyDial, fileVars
<1>4. job[c].at = "apply" /\ job[c].key \in Dial /\ Turn(job[c].key, job[c].value) BY DEF ApplyDial, At
<1>5. WritersInv' BY <1>0, <1>1, WritersTurn
<1>6. TomlInv' BY <1>0, <1>1, <1>3, FileStays
<1>7. DialInv'
  <2>1. \A u \in Task : (At(u, "document")' <=> At(u, "document")) /\ (At(u, "document") => job'[u] = job[u])
    BY <1>1, <1>2, <1>4 DEF At
  <2>2. "settings" \in Task /\ "main" \in Task BY DEF Task
  <2>3. /\ dial' = [d \in Dial |-> dial'[d]]
        /\ \A d \in Dial \ {job[c].key} : dial'[d] = dial[d] /\ (d \notin dropped' => d \notin dropped)
    BY <1>4 DEF Turn, DialInv
  <2>4. ASSUME listening, ~stale, ~overlap, ~touched, ~At("settings", "document"), ~At("main", "document"),
               NEW d \in Dial \ (overridden \cup dropped')
        PROVE  disk[d] \in {Unset, dial'[d]} \/ \E u \in Requester : At(u, "apply")' /\ job'[u].key = d
    <3>1. CASE d = job[c].key
      <4>1. disk[d] = job[c].value BY <1>4, <2>4, <3>1 DEF TomlInv, OneWriter, Writing
      <4>2. dial' = [dial EXCEPT ![d] = job[c].value] /\ dial = [e \in Dial |-> dial[e]]
        BY <1>4, <2>4, <3>1 DEF Turn, DialInv
      <4>3. dial'[d] = job[c].value BY <4>2
      <4> QED BY <4>1, <4>3
    <3>2. CASE d # job[c].key
      <4>0. d \in Dial \ (overridden \cup dropped) BY <2>3, <2>4, <3>2
      <4>1. disk[d] \in {Unset, dial[d]} \/ \E u \in Requester : At(u, "apply") /\ job[u].key = d
        BY <2>4, <4>0 DEF DialInv
      <4>2. ASSUME NEW u \in Requester, At(u, "apply"), job[u].key = d PROVE At(u, "apply")' /\ job'[u].key = d
        <5>1. job'[u] = job[u] BY <1>0, <1>2, <3>2, <4>2
        <5> QED BY <4>2, <5>1 DEF At
      <4>3. dial'[d] = dial[d] BY <2>3, <3>2
      <4> QED BY <4>1, <4>2, <4>3
    <3> QED BY <3>1, <3>2
  <2> QED BY <1>3, <2>1, <2>2, <2>3, <2>4 DEF DialInv
<1>8. ThemeInv' BY <1>0, <1>1, <1>4, SameFits, ThemeStays DEF ApplyDial, shownVars, ThemeAt
<1> QED BY <1>5, <1>6, <1>7, <1>8

\* A document that is the file's puts every dial in its place.
LEMMA StepApplyDoc == ASSUME LookInv, NEW t \in Task, ApplyDoc(t) PROVE LookInv'
<1> USE DEF LookInv, SettingsInv
<1>1. PICK j : j = [at |-> "follow", on |-> job[t].doc["follow"] = "on"] OBVIOUS
<1>2. job' = [job EXCEPT ![t] = j] /\ j.at = "follow" BY <1>1 DEF ApplyDoc, Goto
<1>3. job'[t] = j /\ \A u \in Task \ {t} : job'[u] = job[u] BY <1>2, OneMoves
<1>4. UNCHANGED <<disk, tmp, fd, touched, saved, overlap, bootDoc, listening>> BY DEF ApplyDoc, fileVars
<1>5. At(t, "document") /\ t \in {"settings", "main"} BY DEF ApplyDoc, DialInv
<1>6. WritersInv' BY <1>2, WritersTurn
<1>7. TomlInv' BY <1>2, <1>4, FileStays
<1>8. DialInv'
  <2>1. \A u \in Task : At(u, "document")' => At(u, "document") /\ job'[u] = job[u] /\ u # t BY <1>2, <1>3 DEF At
  <2>2. "settings" \in Task /\ "main" \in Task BY DEF Task
  <2>0. PICK lost \in SUBSET Dialled(job[t].doc) :
          /\ dial' = [d \in Dial |-> IF d \in Dialled(job[t].doc) \ lost THEN job[t].doc[d] ELSE dial[d]]
          /\ dropped' = IF listening THEN (dropped \ Dialled(job[t].doc)) \cup lost ELSE dropped
    BY DEF ApplyDoc
  <2>3. dial' = [d \in Dial |-> dial'[d]] BY <2>0
  <2>4. ASSUME listening, ~stale', ~overlap, ~touched, NEW d \in Dial \ dropped'
        PROVE  disk[d] \in {Unset, dial'[d]}
    <3>1. job[t].doc = disk
      <4>1. CASE t = "settings" BY <1>5, <2>4, <4>1 DEF DialInv
      <4>2. CASE t = "main"
        <5>1. job[t].doc = bootDoc BY <1>5, <4>2 DEF DialInv
        <5>2. disk = bootDoc BY <2>4, <4>2 DEF ApplyDoc
        <5> QED BY <5>1, <5>2
      <4> QED BY <1>5, <4>1, <4>2
    <3>2. disk \in Docs /\ d \in Key BY <2>4 DEF TomlInv, Key
    <3>3. disk[d] \in Choice(d) \cup {Unset} BY <3>2 DEF Docs
    <3>4. dial'[d] = IF d \in Dialled(disk) THEN disk[d] ELSE dial[d] BY <2>0, <2>4, <3>1
    <3> QED BY <3>3, <3>4 DEF Dialled
  <2>5. At("settings", "document")' => touched \/ job'["settings"].doc = disk BY <2>1, <2>2 DEF DialInv
  <2>6. At("main", "document")' => listening /\ job'["main"].doc = bootDoc BY <2>1, <2>2 DEF DialInv
  <2>7. \A u \in Task : At(u, "document")' => u \in {"settings", "main"} BY <2>1 DEF DialInv
  <2>8. \A d \in Dial \ (overridden' \cup dropped') : d \in Dial \ dropped' OBVIOUS
  <2> QED BY <1>4, <2>3, <2>4, <2>5, <2>6, <2>7, <2>8 DEF DialInv
<1>9. ThemeInv'
  <2>1. job[t].at = "document" BY <1>5 DEF At
  <2> QED BY <1>2, <2>1, SameFits, ThemeStays DEF ApplyDoc, shownVars, ThemeAt
<1> QED BY <1>6, <1>7, <1>8, <1>9

\* The watcher takes the file as it is.
LEMMA StepWatchSettings == ASSUME LookInv, WatchSettings PROVE LookInv'
<1> USE DEF LookInv, SettingsInv
<1>0. "settings" \in Task /\ "main" \in Task /\ "settings" # "main" BY DEF Task
<1>1. PICK j : j = [at |-> "document", doc |-> disk] OBVIOUS
<1>2. job' = [job EXCEPT !["settings"] = j] /\ j.at = "document" /\ j.doc = disk BY <1>1 DEF WatchSettings, Goto
<1>3. job'["settings"] = j /\ \A u \in Task \ {"settings"} : job'[u] = job[u] BY <1>0, <1>2, OneMoves
<1>4. UNCHANGED <<disk, tmp, fd, saved, overlap>> /\ UNCHANGED dialVars BY DEF WatchSettings
<1>5. job["settings"].at = "idle" BY DEF WatchSettings, At
<1>6. WritersInv' BY <1>0, <1>2, WritersTurn
<1>7. TomlInv' BY <1>0, <1>2, <1>4, FileStays
<1>8. DialInv'
  <2>1. At("settings", "document")' /\ job'["settings"].doc = disk' BY <1>2, <1>3, <1>4 DEF At
  <2>2. \A u \in Task \ {"settings"} : (At(u, "document")' <=> At(u, "document")) /\ job'[u] = job[u] BY <1>3 DEF At
  <2> QED BY <1>0, <1>4, <2>1, <2>2 DEF DialInv, dialVars
<1>9. ThemeInv' BY <1>0, <1>2, <1>5, SameFits, ThemeStays DEF WatchSettings, shownVars, ThemeAt
<1> QED BY <1>6, <1>7, <1>8, <1>9

\* From here on the dials are heard; those of the start are yet to come.
LEMMA StepRegisterModules == ASSUME LookInv, RegisterModules PROVE LookInv'
<1> USE DEF LookInv, SettingsInv
<1>0. "settings" \in Task /\ "main" \in Task /\ "settings" # "main" BY DEF Task
<1>1. PICK j : j = [at |-> "document", doc |-> bootDoc] OBVIOUS
<1>2. job' = [job EXCEPT !["main"] = j] /\ j.at = "document" /\ j.doc = bootDoc BY <1>1 DEF RegisterModules, Goto
<1>3. job'["main"] = j /\ \A u \in Task \ {"main"} : job'[u] = job[u] BY <1>0, <1>2, OneMoves
<1>4. UNCHANGED <<disk, tmp, fd, touched, saved, overlap, bootDoc, dial, dropped>> /\ listening' BY DEF RegisterModules, fileVars
<1>5. job["main"].at = "register" BY DEF RegisterModules, At
<1>6. WritersInv' BY <1>0, <1>2, WritersTurn
<1>7. TomlInv' BY <1>0, <1>2, <1>4, FileStays
<1>8. DialInv'
  <2>1. At("main", "document")' /\ job'["main"].doc = bootDoc' BY <1>2, <1>3, <1>4 DEF At
  <2>2. \A u \in Task \ {"main"} : (At(u, "document")' <=> At(u, "document")) /\ job'[u] = job[u] BY <1>3 DEF At
  <2> QED BY <1>0, <1>4, <2>1, <2>2 DEF DialInv
<1>9. ThemeInv' BY <1>0, <1>2, <1>5, SameFits, ThemeStays DEF RegisterModules, shownVars, ThemeAt
<1> QED BY <1>6, <1>7, <1>8, <1>9

-----------------------------------------------------------------------------
(* The theme *)

\* Nor does a step that leaves the tasks alone.
LEMMA SettingsAside == ASSUME SettingsInv, UNCHANGED <<job, fileVars, dialVars>> PROVE SettingsInv'
<1> USE DEF fileVars, dialVars
<1>1. WritersInv' BY DEF SettingsInv, WritersInv, Writing
<1>2. TomlInv'
  <2>1. \A c \in Requester : (Writing(c)' <=> Writing(c)) /\ (OneWriter(c)' <=> OneWriter(c)) BY DEF Writing, OneWriter
  <2> QED BY <2>1 DEF SettingsInv, TomlInv
<1>3. DialInv' BY DEF SettingsInv, DialInv, At
<1> QED BY <1>1, <1>2, <1>3 DEF SettingsInv

\* A task that is at it alone finds what it expects.
LEMMA AloneFits ==
  ASSUME ThemeInv, NEW t \in Task, job[t].at \in ThemeAt, ~themeRace PROVE Alone(t) /\ Fits(job[t])
<1>1. Changing(t) BY DEF Changing, ThemeAt
<1>2. Alone(t) BY <1>1 DEF ThemeInv, Alone
<1> QED BY <1>2 DEF ThemeInv

\* A theme chosen by hand.
LEMMA StepChooseTheme == ASSUME LookInv, NEW c \in Requester, ChooseTheme(c) PROVE LookInv'
<1> USE DEF LookInv
<1>0. c \in Task /\ job[c].at = "idle" BY DEF Task, ChooseTheme, At
<1>1. PICK n \in Theme : SetOut(c, ToLoad(n, "hand")) BY DEF ChooseTheme, HasPair
<1>2. PICK j : j = ToLoad(n, "hand") OBVIOUS
<1>3. /\ job' = [job EXCEPT ![c] = j] /\ j.at = "load" /\ j.name = n /\ j.why = "hand"
      /\ themeRace' = (themeRace \/ \E u \in Task \ {c} : Changing(u))
  BY <1>1, <1>2 DEF SetOut, Goto, ToLoad
<1>4. UNCHANGED <<themeFile, themeTouched, active, attached, shellVars, desktopVars, follow, scheme, inStep>>
      /\ UNCHANGED <<fileVars, dialVars>>
  BY DEF ChooseTheme, followVars
<1>5. SettingsInv' BY <1>0, <1>3, <1>4, SettingsTurn
<1>6. themeRace' \/ (~themeRace /\ Alone(c) /\ Shown) BY <1>0, <1>3, SettingOut DEF ThemeAt
<1>7. Shown => Fits(j)'
  BY <1>3, <1>4 DEF Fits, Shown, ShellShows, shellVars, FileShown, InStep, Cause, ThemeAt
<1>8. ThemeInv'
  <2>1. active'.name \in Theme /\ NamedTheme(j) BY <1>3, <1>4 DEF ThemeInv, NamedTheme
  <2> QED BY <1>0, <1>3, <1>4, <1>6, <1>7, <2>1, ThemeTurn DEF SettingsInv
<1> QED BY <1>5, <1>8

\* The file as it is read; one that cannot be loaded changes nothing.
LEMMA StepLoadTheme == ASSUME LookInv, NEW t \in Task, LoadTheme(t) PROVE LookInv'
<1> USE DEF LookInv
<1>1. PICK n : n = job[t].name OBVIOUS
<1>2. PICK j : j = IF themeFile[n] = 0 THEN Idle
                   ELSE [at |-> "install", theme |-> [name |-> n, body |-> themeFile[n]], why |-> job[t].why]
  OBVIOUS
<1>3. job' = [job EXCEPT ![t] = j] /\ job[t].at = "load" BY <1>1, <1>2 DEF LoadTheme, Goto, At
<1>4. UNCHANGED <<themeFile, themeTouched, active, attached, shellVars, desktopVars, themeRace, follow, scheme>>
      /\ UNCHANGED <<fileVars, dialVars>>
  BY DEF LoadTheme, shownVars
<1>5. n \in Theme BY <1>1, <1>3 DEF ThemeInv, NamedTheme
<1>6. CASE themeFile[n] = 0
  <2>1. j.at = "idle" BY <1>2, <1>6 DEF Idle
  <2>2. inStep' = (inStep /\ job[t].why # "system") BY <1>1, <1>6 DEF LoadTheme
  <2>3. SettingsInv' BY <1>3, <1>4, <2>1, SettingsTurn
  <2>4. ASSUME ~themeRace PROVE Alone(t) /\ Fits(j)'
    <3>1. Alone(t) /\ Fits(job[t]) BY <1>3, <2>4, AloneFits DEF ThemeAt
    <3>2. ShellShows /\ (FileShown \/ n = active.name) /\ Cause(job[t].why, n) BY <1>1, <1>3, <3>1 DEF Fits
    <3>3. ShellShows' BY <1>4, <3>2 DEF ShellShows, shellVars
    <3>4. FileShown' BY <1>4, <1>6, <3>2 DEF FileShown
    <3>5. InStep'
      <4>1. CASE job[t].why = "system" BY <2>2, <4>1 DEF InStep
      <4>2. CASE job[t].why # "system"
        <5>1. InStep BY <3>2, <4>2 DEF Cause
        <5> QED BY <1>4, <2>2, <5>1 DEF InStep
      <4> QED BY <4>1, <4>2
    <3> QED BY <2>1, <3>1, <3>3, <3>4, <3>5 DEF Fits, Shown
  <2>5. NamedTheme(j) /\ active'.name \in Theme BY <1>4, <2>1 DEF NamedTheme, ThemeInv
  <2>6. ThemeInv' BY <1>3, <1>4, <2>4, <2>5, ThemeTurn DEF SettingsInv
  <2> QED BY <2>3, <2>6
<1>7. CASE themeFile[n] # 0
  <2>1. /\ j.at = "install" /\ j.theme.name = n /\ j.theme.body = themeFile[n] /\ j.why = job[t].why
    BY <1>2, <1>7
  <2>2. inStep' = inStep BY <1>1, <1>7 DEF LoadTheme
  <2>3. SettingsInv' BY <1>3, <1>4, <2>1, SettingsTurn
  <2>4. ASSUME ~themeRace PROVE Alone(t) /\ Fits(j)'
    <3>1. Alone(t) /\ Fits(job[t]) BY <1>3, <2>4, AloneFits DEF ThemeAt
    <3>2. ShellShows /\ (FileShown \/ n = active.name) /\ Cause(job[t].why, n) BY <1>1, <1>3, <3>1 DEF Fits
    <3>3. ShellShows' /\ (FileShown' \/ n = active'.name) BY <1>4, <3>2 DEF ShellShows, shellVars, FileShown
    <3>4. Cause(job[t].why, n)' <=> Cause(j.why, n)' BY <1>3, <2>1 DEF Cause
    <3>5. Cause(j.why, n)' BY <1>4, <2>1, <2>2, <3>2 DEF Cause, InStep
    <3> QED BY <1>4, <2>1, <3>1, <3>3, <3>5 DEF Fits, ThemeAt
  <2>5. NamedTheme(j) /\ active'.name \in Theme BY <1>4, <1>5, <2>1 DEF NamedTheme, ThemeInv
  <2>6. ThemeInv' BY <1>3, <1>4, <2>4, <2>5, ThemeTurn DEF SettingsInv
  <2> QED BY <2>3, <2>6
<1> QED BY <1>6, <1>7

\* The theme as it was read becomes the active one.
LEMMA StepInstallTheme == ASSUME LookInv, NEW t \in Task, InstallTheme(t) PROVE LookInv'
<1> USE DEF LookInv
<1>1. PICK th : th = job[t].theme OBVIOUS
<1>2. PICK j : j = [at |-> "push", theme |-> th, shell |-> attached] OBVIOUS
<1>3. /\ job' = [job EXCEPT ![t] = j] /\ job[t].at = "install"
      /\ j.at = "push" /\ j.theme = th /\ j.shell = attached /\ active' = th
  BY <1>1, <1>2 DEF InstallTheme, Goto, At
<1>4. UNCHANGED <<themeFile, themeTouched, attached, shellVars, desktopVars, themeRace, follow, scheme>>
      /\ UNCHANGED <<fileVars, dialVars>>
  BY DEF InstallTheme
<1>5. th.name \in Theme BY <1>1, <1>3 DEF ThemeInv, NamedTheme
<1>6. SettingsInv' BY <1>3, <1>4, SettingsTurn
<1>7. ASSUME ~themeRace PROVE Alone(t) /\ Fits(j)'
  <2>1. Alone(t) /\ Fits(job[t]) BY <1>3, <1>7, AloneFits DEF ThemeAt
  <2>2. Cause(job[t].why, th.name) /\ (~themeTouched => th.body = themeFile[th.name])
    BY <1>1, <1>3, <2>1 DEF Fits
  <2>3. FileShown' BY <1>3, <1>4, <2>2 DEF FileShown
  <2>4. InStep'
    <3>0. inStep' = CASE job[t].why = "hand" -> FALSE [] job[t].why = "system" -> TRUE [] OTHER -> inStep
      BY DEF InstallTheme
    <3>1. CASE job[t].why = "hand" BY <3>0, <3>1 DEF InStep
    <3>2. CASE job[t].why = "system" BY <1>3, <1>4, <2>2, <3>2 DEF InStep, Cause
    <3>3. CASE job[t].why = "reload"
      <4>1. inStep' = inStep BY <3>0, <3>3
      <4>2. InStep /\ th.name = active.name BY <2>2, <3>3 DEF Cause
      <4> QED BY <1>3, <1>4, <4>1, <4>2 DEF InStep
    <3> QED BY <2>2, <3>1, <3>2, <3>3 DEF Cause
  <2> QED BY <1>3, <1>4, <2>1, <2>3, <2>4 DEF Fits, ThemeAt
<1>8. ThemeInv'
  <2>1. NamedTheme(j) /\ active'.name \in Theme BY <1>3, <1>5 DEF NamedTheme
  <2> QED BY <1>3, <1>4, <1>7, <2>1, ThemeTurn DEF SettingsInv
<1> QED BY <1>6, <1>8

\* The shell gets it.
LEMMA StepPushTheme == ASSUME LookInv, NEW t \in Task, PushTheme(t) PROVE LookInv'
<1> USE DEF LookInv
<1>1. PICK j : j = [at |-> "propagate"] OBVIOUS
<1>2. job' = [job EXCEPT ![t] = j] /\ job[t].at = "push" /\ j.at = "propagate" BY <1>1 DEF PushTheme, Goto, At
<1>3. UNCHANGED <<themeFile, themeTouched, active, attached, desktopVars, themeRace, follow, scheme, inStep>>
      /\ UNCHANGED <<fileVars, dialVars>>
  BY DEF PushTheme, followVars
<1>4. SettingsInv' BY <1>2, <1>3, SettingsTurn
<1>5. ASSUME ~themeRace PROVE Alone(t) /\ Fits(j)'
  <2>1. Alone(t) /\ Fits(job[t]) BY <1>2, <1>5, AloneFits DEF ThemeAt
  <2>2. job[t].theme = active /\ (attached => job[t].shell) /\ FileShown /\ InStep BY <1>2, <2>1 DEF Fits
  <2>3. ShellShows'
    <3>1. job[t].shell => Send(job[t].theme) BY DEF PushTheme
    <3> QED BY <1>3, <2>2, <3>1 DEF ShellShows, Send
  <2>4. FileShown' /\ InStep' BY <1>3, <2>2 DEF FileShown, InStep
  <2> QED BY <1>2, <2>1, <2>3, <2>4 DEF Fits, ThemeAt
<1>6. ThemeInv'
  <2>1. NamedTheme(j) /\ active'.name \in Theme BY <1>2, <1>3 DEF NamedTheme, ThemeInv
  <2> QED BY <1>2, <1>3, <1>5, <2>1, ThemeTurn DEF SettingsInv
<1> QED BY <1>4, <1>6

\* The desktop gets it.
LEMMA StepPropagate == ASSUME LookInv, NEW t \in Task, Propagate(t) PROVE LookInv'
<1> USE DEF LookInv
<1>1. PICK j : j = Idle OBVIOUS
<1>2. job' = [job EXCEPT ![t] = j] /\ job[t].at = "propagate" /\ j.at = "idle"
  BY <1>1 DEF Propagate, Goto, At, Idle
<1>3. UNCHANGED <<themeFile, themeTouched, active, attached, shellVars, themeRace, follow, scheme, inStep>>
      /\ UNCHANGED <<fileVars, dialVars>>
  BY DEF Propagate, followVars
<1>4. SettingsInv' BY <1>2, <1>3, SettingsTurn
<1>5. ASSUME ~themeRace PROVE Alone(t) /\ Fits(j)'
  <2>1. Alone(t) /\ Fits(job[t]) BY <1>2, <1>5, AloneFits DEF ThemeAt
  <2>2. ShellShows /\ FileShown /\ InStep BY <1>2, <2>1 DEF Fits
  <2>3. Shown' BY <1>3, <2>2 DEF Shown, ShellShows, shellVars, FileShown, InStep
  <2> QED BY <1>2, <2>1, <2>3 DEF Fits
<1>6. ThemeInv'
  <2>1. NamedTheme(j) /\ active'.name \in Theme BY <1>2, <1>3 DEF NamedTheme, ThemeInv
  <2>2. ASSUME NEW d \in Display \ unsure' PROVE Orders(active)[d] \subseteq Coming(d)'
    <3>1. running'[d] = running[d] \cup Orders(active)[d] /\ (Orders(active)[d] = {} \/ running[d] = {})
      BY DEF Propagate
    <3> QED BY <3>1 DEF Coming
  <2>3. Told' BY <1>3, <2>2 DEF Told, Orders
  <2> QED BY <1>2, <1>3, <1>5, <2>1, <2>3, ThemeTurn DEF SettingsInv
<1> QED BY <1>4, <1>6

\* A display shows what the one command for it said; if it failed, that is known.
LEMMA StepCommandEnds == ASSUME LookInv, CommandsInv, CommandEnds PROVE LookInv'
<1> USE DEF LookInv
<1>1. UNCHANGED <<job, themeFile, themeTouched, active, attached, shellVars, themeRace, followVars>>
      /\ UNCHANGED <<job, fileVars, dialVars>>
  BY DEF CommandEnds
<1>2. SettingsInv' BY <1>1, SettingsAside
<1>3. ASSUME NEW k, Fits(k) PROVE Fits(k)'
  BY <1>1, <1>3 DEF Fits, Shown, ShellShows, shellVars, FileShown, InStep, Cause, followVars
<1>4. ASSUME Told PROVE Told'
  <2>1. PICK d \in Display : \E what \in running[d] :
          /\ running' = [running EXCEPT ![d] = @ \ {what}]
          /\ \/ desktop' = [desktop EXCEPT ![d] = what] /\ UNCHANGED unsure
             \/ unsure' = unsure \cup {d} /\ UNCHANGED desktop
    BY DEF CommandEnds
  <2>2. PICK what \in running[d] :
          /\ running' = [running EXCEPT ![d] = @ \ {what}]
          /\ \/ desktop' = [desktop EXCEPT ![d] = what] /\ UNCHANGED unsure
             \/ unsure' = unsure \cup {d} /\ UNCHANGED desktop
    BY <2>1
  <2>3. ASSUME NEW e \in Display \ unsure' PROVE Orders(active)[e] \subseteq Coming(e)'
    <3>1. e \in Display \ unsure /\ Orders(active)[e] \subseteq Coming(e) BY <1>4, <2>2, <2>3 DEF Told
    <3>2. CASE e # d
      <4>1. running'[e] = running[e] /\ desktop'[e] = desktop[e] BY <2>2, <3>2 DEF CommandsInv
      <4> QED BY <3>1, <4>1 DEF Coming
    <3>3. CASE e = d
      <4>1. desktop'[d] = what BY <2>2, <2>3, <3>3 DEF CommandsInv
      <4>2. running[d] = {what} BY <2>2, <3>1, <3>3 DEF CommandsInv
      <4>3. running'[d] = {} BY <2>2, <4>2 DEF CommandsInv
      <4> QED BY <3>1, <3>3, <4>1, <4>2, <4>3 DEF Coming
    <3> QED BY <3>2, <3>3
  <2> QED BY <1>1, <2>3 DEF Told, Orders
<1>5. ThemeInv' BY <1>1, <1>3, <1>4, ThemeAside
<1> QED BY <1>2, <1>5

\* Only a display that is free is sent a command without a doubt.
LEMMA CommandsStep == CommandsInv /\ [LookNext]_lookVars => CommandsInv'
<1> SUFFICES ASSUME CommandsInv, [LookNext]_lookVars PROVE CommandsInv' OBVIOUS
<1>1. ASSUME NEW t \in Task, Propagate(t) PROVE CommandsInv'
  <2>1. ASSUME NEW d \in Display \ unsure', NEW x \in running'[d], NEW y \in running'[d] PROVE x = y
    <3>1. running'[d] = running[d] \cup Orders(active)[d]
          /\ ((Orders(active)[d] = {} /\ d \notin unsure) \/ running[d] = {})
      BY <1>1 DEF Propagate
    <3>2. \A v, w \in Orders(active)[d] : v = w BY DEF Orders, Display
    <3> QED BY <2>1, <3>1, <3>2 DEF CommandsInv
  <2>2. running' = [d \in Display |-> running'[d]] BY <1>1 DEF Propagate
  <2>3. desktop' = [d \in Display |-> desktop'[d]] BY <1>1 DEF Propagate, CommandsInv
  <2> QED BY <2>1, <2>2, <2>3 DEF CommandsInv
<1>2. CASE CommandEnds
  <2>1. PICK d \in Display : \E what \in running[d] :
          /\ running' = [running EXCEPT ![d] = @ \ {what}]
          /\ \/ desktop' = [desktop EXCEPT ![d] = what] /\ UNCHANGED unsure
             \/ unsure' = unsure \cup {d} /\ UNCHANGED desktop
    BY <1>2 DEF CommandEnds
  <2>2. \A e \in Display : running'[e] \subseteq running[e] BY <2>1 DEF CommandsInv
  <2>3. unsure \subseteq unsure' BY <2>1
  <2>4. running' = [e \in Display |-> running'[e]] /\ desktop' = [e \in Display |-> desktop'[e]]
    BY <2>1 DEF CommandsInv
  <2> QED BY <2>2, <2>3, <2>4 DEF CommandsInv
<1>3. ASSUME UNCHANGED desktopVars PROVE CommandsInv' BY <1>3 DEF CommandsInv, desktopVars
<1>4. ASSUME NEW c \in Requester, CallerStep(c) PROVE UNCHANGED desktopVars
  BY <1>4 DEF CallerStep, ReadSettings, CreateTmp, FillTmp, RenameTmp, RequestDial, ApplyDial, ChooseTheme,
              RequestFollow, FollowSet, shownVars
<1>5. ASSUME NEW t \in Task, TaskStep(t), ~Propagate(t) PROVE UNCHANGED desktopVars
  BY <1>5 DEF TaskStep, ApplyDoc, LoadTheme, InstallTheme, PushTheme, ApplyFollow, FollowSet, SyncScheme, shownVars
<1>6. EditSettings \/ WatchSettings \/ EditTheme \/ WatchThemes \/ PortalReports \/ Attach \/ CatchUp
        \/ RegisterModules \/ UNCHANGED lookVars => UNCHANGED desktopVars
  BY DEF EditSettings, WatchSettings, EditTheme, WatchThemes, PortalReports, Attach, CatchUp, RegisterModules,
         shownVars, lookVars
<1> QED BY <1>1, <1>2, <1>3, <1>4, <1>5, <1>6 DEF LookNext

\* An edited file is to be looked at.
LEMMA StepEditTheme == ASSUME LookInv, EditTheme PROVE LookInv'
<1> USE DEF LookInv
<1>1. /\ UNCHANGED <<job, active, attached, shellVars, desktopVars, themeRace, follow, scheme, inStep>>
      /\ UNCHANGED <<job, fileVars, dialVars>> /\ themeTouched'
  BY DEF EditTheme, followVars
<1>2. SettingsInv' BY <1>1, SettingsAside
<1>3. ASSUME NEW k, Fits(k) PROVE Fits(k)'
  BY <1>1, <1>3 DEF Fits, Shown, ShellShows, shellVars, FileShown, InStep, Cause
<1>4. ThemeInv' BY <1>1, <1>3, SameTold, ThemeAside
<1> QED BY <1>2, <1>4

\* The active theme is loaded again.
LEMMA StepWatchThemes == ASSUME LookInv, WatchThemes PROVE LookInv'
<1> USE DEF LookInv
<1>0. "themes" \in Task /\ job["themes"].at = "idle" BY DEF Task, WatchThemes, At
<1>1. PICK j : j = ToLoad(active.name, "reload") OBVIOUS
<1>2. /\ job' = [job EXCEPT !["themes"] = j] /\ j.at = "load" /\ j.name = active.name /\ j.why = "reload"
      /\ themeRace' = (themeRace \/ \E u \in Task \ {"themes"} : Changing(u))
  BY <1>1 DEF WatchThemes, SetOut, Goto, ToLoad
<1>3. UNCHANGED <<themeFile, active, attached, shellVars, desktopVars, follow, scheme, inStep>>
      /\ UNCHANGED <<fileVars, dialVars>>
  BY DEF WatchThemes, followVars
<1>4. SettingsInv' BY <1>0, <1>2, <1>3, SettingsTurn
<1>5. themeRace' \/ (~themeRace /\ Alone("themes") /\ Shown) BY <1>0, <1>2, SettingOut DEF ThemeAt
<1>6. Shown => Fits(j)' BY <1>2, <1>3 DEF Fits, Shown, ShellShows, shellVars, InStep, Cause, ThemeAt
<1>7. ThemeInv'
  <2>1. active'.name \in Theme /\ NamedTheme(j) BY <1>2, <1>3 DEF ThemeInv, NamedTheme
  <2> QED BY <1>0, <1>2, <1>3, <1>5, <1>6, <2>1, ThemeTurn DEF SettingsInv
<1> QED BY <1>4, <1>7

\* set_follow_system() takes up the preference at once; while there is none, or once it is
\* off, nobody can be at work for it.
LEMMA StepFollowSet ==
  ASSUME LookInv, NEW t \in Task, NEW on, FollowSet(t, on), job[t].at \in {"idle", "apply", "follow"},
         job[t].at = "apply" => job[t].key \notin Dial
  PROVE  LookInv'
<1> USE DEF LookInv
<1>1. /\ UNCHANGED <<themeFile, themeTouched, active, attached, shellVars, desktopVars, scheme, inStep>>
      /\ UNCHANGED <<fileVars, dialVars>> /\ follow' = on
  BY DEF FollowSet
<1>2. active'.name \in Theme BY <1>1 DEF ThemeInv
<1>3. CASE on /\ scheme # Nothing
  <2>1. PICK j : j = [at |-> "sync", scheme |-> scheme] OBVIOUS
  <2>2. /\ job' = [job EXCEPT ![t] = j] /\ j.at = "sync" /\ j.scheme = scheme
        /\ themeRace' = (themeRace \/ \E u \in Task \ {t} : Changing(u))
    BY <1>3, <2>1 DEF FollowSet, SetOut, Goto
  <2>3. SettingsInv' BY <1>1, <2>2, SettingsTurn
  <2>4. themeRace' \/ (~themeRace /\ Alone(t) /\ Shown) BY <2>2, SettingOut DEF ThemeAt
  <2>5. Shown => Fits(j)' BY <1>1, <1>3, <2>2 DEF Fits, Shown, ShellShows, shellVars, FileShown, ThemeAt
  <2>6. NamedTheme(j) BY <2>2 DEF NamedTheme
  <2>7. ThemeInv' BY <1>1, <1>2, <2>2, <2>4, <2>5, <2>6, ThemeTurn DEF SettingsInv
  <2> QED BY <2>3, <2>7
<1>4. CASE ~(on /\ scheme # Nothing)
  <2>1. job' = [job EXCEPT ![t] = Idle] /\ themeRace' = themeRace BY <1>4 DEF FollowSet, Goto
  <2>2. Idle.at = "idle" BY DEF Idle
  <2>3. SettingsInv' BY <1>1, <2>1, <2>2, SettingsTurn
  <2>4. ~follow' \/ scheme = Nothing BY <1>1, <1>4
  <2>5. InStep' BY <1>1, <2>4, LookAssumption DEF InStep
  <2>6. ASSUME NEW k, Fits(k) PROVE Fits(k)'
    BY <1>1, <2>4, <2>5, <2>6 DEF Fits, Shown, ShellShows, shellVars, FileShown, Cause, ThemeAt
  <2>7. ThemeInv' BY <1>1, <2>1, <2>2, <2>6, ThemeStays DEF SettingsInv, ThemeAt
  <2> QED BY <2>3, <2>7
<1> QED BY <1>3, <1>4

\* Requests and settings alike.
LEMMA StepFollow ==
  ASSUME LookInv, NEW t \in Task, (t \in Requester /\ RequestFollow(t)) \/ ApplyFollow(t) PROVE LookInv'
<1>0. "follow" \notin Dial BY LookAssumption
<1>1. CASE RequestFollow(t)
  <2>1. PICK on \in BOOLEAN : FollowSet(t, on) BY <1>1 DEF RequestFollow
  <2>2. job[t].at = "idle" BY <1>1 DEF RequestFollow, At
  <2> QED BY <2>1, <2>2, StepFollowSet
<1>2. CASE At(t, "apply") /\ job[t].key = "follow" /\ FollowSet(t, job[t].value = "on")
  <2>1. job[t].at = "apply" BY <1>2 DEF At
  <2> QED BY <1>0, <1>2, <2>1, StepFollowSet
<1>3. CASE At(t, "follow") /\ FollowSet(t, job[t].on) /\ ApplyFollow(t)
  <2>1. job[t].at = "follow" BY <1>3 DEF At
  <2> QED BY <1>3, <2>1, StepFollowSet
<1> QED BY <1>1, <1>2, <1>3 DEF ApplyFollow

\* Only a change of the preference counts, and only if it is followed.
LEMMA StepPortalReports == ASSUME LookInv, PortalReports PROVE LookInv'
<1> USE DEF LookInv
<1>0. "portal" \in Task /\ job["portal"].at = "idle" BY DEF Task, PortalReports, At
<1>1. PICK s \in {"dark", "light", "no-preference"} :
        /\ scheme' = s
        /\ IF s # scheme /\ follow THEN SetOut("portal", [at |-> "sync", scheme |-> s])
           ELSE UNCHANGED <<job, themeRace>>
  BY DEF PortalReports
<1>2. /\ UNCHANGED <<themeFile, themeTouched, active, attached, shellVars, desktopVars, follow, inStep>>
      /\ UNCHANGED <<fileVars, dialVars>>
  BY DEF PortalReports
<1>3. s # Nothing BY LookAssumption
<1>4. CASE s # scheme /\ follow
  <2>1. PICK j : j = [at |-> "sync", scheme |-> s] OBVIOUS
  <2>2. /\ job' = [job EXCEPT !["portal"] = j] /\ j.at = "sync" /\ j.scheme = s
        /\ themeRace' = (themeRace \/ \E u \in Task \ {"portal"} : Changing(u))
    BY <1>1, <1>4, <2>1 DEF SetOut, Goto
  <2>3. SettingsInv' BY <1>0, <1>2, <2>2, SettingsTurn
  <2>4. themeRace' \/ (~themeRace /\ Alone("portal") /\ Shown) BY <1>0, <2>2, SettingOut DEF ThemeAt
  <2>5. Shown => Fits(j)' BY <1>1, <1>2, <1>3, <2>2 DEF Fits, Shown, ShellShows, shellVars, FileShown, ThemeAt
  <2>6. active'.name \in Theme /\ NamedTheme(j) BY <1>2, <2>2 DEF ThemeInv, NamedTheme
  <2>7. ThemeInv' BY <1>0, <1>2, <2>2, <2>4, <2>5, <2>6, ThemeTurn DEF SettingsInv
  <2> QED BY <2>3, <2>7
<1>5. CASE ~(s # scheme /\ follow)
  <2>1. UNCHANGED <<job, themeRace>> /\ scheme' = s /\ (scheme' = scheme \/ ~follow) BY <1>1, <1>5
  <2>2. SettingsInv' BY <1>2, <2>1, SettingsAside
  <2>3. ASSUME NEW k, Fits(k) PROVE Fits(k)'
    <3>1. CASE scheme' = scheme BY <1>2, <2>3, <3>1 DEF Fits, Shown, ShellShows, shellVars, FileShown, InStep, Cause
    <3>2. CASE ~follow BY <1>2, <1>3, <2>1, <2>3, <3>2 DEF Fits, Shown, ShellShows, shellVars, FileShown, InStep, Cause
    <3> QED BY <2>1, <3>1, <3>2
  <2>4. ThemeInv' BY <1>2, <2>1, <2>3, SameTold, ThemeAside
  <2> QED BY <2>2, <2>4
<1> QED BY <1>4, <1>5

\* The pair of a theme of the wrong variant is of the right one.
LEMMA StepSyncScheme == ASSUME LookInv, NEW t \in Task, SyncScheme(t) PROVE LookInv'
<1> USE DEF LookInv
<1>1. PICK s : s = job[t].scheme OBVIOUS
<1>2. PICK off : off = (s \in {"dark", "light"} /\ Variant[active.name] # s) OBVIOUS
<1>3. PICK j : j = IF off /\ HasPair(active.name) THEN ToLoad(Pair[active.name], "system") ELSE Idle OBVIOUS
<1>4. /\ job' = [job EXCEPT ![t] = j] /\ job[t].at = "sync"
      /\ inStep' = IF off THEN inStep /\ HasPair(active.name) ELSE TRUE
  BY <1>1, <1>2, <1>3 DEF SyncScheme, Goto, At
<1>5. UNCHANGED <<themeFile, themeTouched, active, attached, shellVars, desktopVars, themeRace, follow, scheme>>
      /\ UNCHANGED <<fileVars, dialVars>>
  BY DEF SyncScheme, shownVars
<1>6. active.name \in Theme /\ active'.name \in Theme BY <1>5 DEF ThemeInv
<1>7. ASSUME ~themeRace
      PROVE  Alone(t) /\ ShellShows /\ FileShown /\ scheme # Nothing /\ (follow => s = scheme)
  <2>1. Alone(t) /\ Fits(job[t]) BY <1>4, <1>7, AloneFits DEF ThemeAt
  <2> QED BY <1>1, <1>4, <2>1 DEF Fits
<1>8. CASE off /\ HasPair(active.name)
  <2>1. j.at = "load" /\ j.name = Pair[active.name] /\ j.why = "system" BY <1>3, <1>8 DEF ToLoad
  <2>2. j.name \in Theme /\ Variant[j.name] = s
    <3>1. Variant[Pair[active.name]] \in {"dark", "light"} /\ Variant[active.name] \in {"dark", "light"}
          /\ Variant[Pair[active.name]] # Variant[active.name] /\ Pair[active.name] \in Theme
      BY <1>6, <1>8, LookAssumption DEF HasPair
    <3>2. s \in {"dark", "light"} /\ Variant[active.name] # s BY <1>2, <1>8
    <3> QED BY <2>1, <3>1, <3>2
  <2>3. SettingsInv' BY <1>4, <1>5, <2>1, SettingsTurn
  <2>4. ASSUME ~themeRace PROVE Alone(t) /\ Fits(j)'
    <3>1. Cause(j.why, j.name)' BY <1>5, <1>7, <2>1, <2>2, <2>4 DEF Cause
    <3>2. ShellShows' /\ FileShown' BY <1>5, <1>7, <2>4 DEF ShellShows, shellVars, FileShown
    <3> QED BY <1>7, <2>1, <2>4, <3>1, <3>2 DEF Fits, ThemeAt
  <2>5. NamedTheme(j) BY <2>1, <2>2 DEF NamedTheme
  <2>6. ThemeInv' BY <1>4, <1>5, <1>6, <2>1, <2>4, <2>5, ThemeTurn DEF SettingsInv
  <2> QED BY <2>3, <2>6
<1>9. CASE ~(off /\ HasPair(active.name))
  <2>1. j.at = "idle" BY <1>3, <1>9 DEF Idle
  <2>2. SettingsInv' BY <1>4, <1>5, <2>1, SettingsTurn
  <2>3. ASSUME ~themeRace PROVE Alone(t) /\ Fits(j)'
    <3>1. ShellShows' /\ FileShown' BY <1>5, <1>7, <2>3 DEF ShellShows, shellVars, FileShown
    <3>2. InStep'
      <4>1. CASE off BY <1>4, <1>9, <4>1 DEF InStep
      <4>2. CASE ~off
        <5>1. s \notin {"dark", "light"} \/ Variant[active.name] = s BY <1>2, <4>2
        <5> QED BY <1>5, <1>7, <2>3, <5>1 DEF InStep
      <4> QED BY <4>1, <4>2
    <3> QED BY <1>7, <2>1, <2>3, <3>1, <3>2 DEF Fits, Shown
  <2>4. NamedTheme(j) BY <2>1 DEF NamedTheme
  <2>5. ThemeInv' BY <1>4, <1>5, <1>6, <2>3, <2>4, ThemeTurn DEF SettingsInv
  <2> QED BY <2>2, <2>5
<1> QED BY <1>8, <1>9

\* A shell is attached and owed the theme.
LEMMA StepAttach == ASSUME LookInv, Attach PROVE LookInv'
<1> USE DEF LookInv
<1>0. "main" \in Task /\ job["main"].at = "idle" BY DEF Task, Attach, At
<1>1. PICK j : j = [at |-> "catchup", theme |-> active] OBVIOUS
<1>2. /\ job' = [job EXCEPT !["main"] = j] /\ j.at = "catchup" /\ j.theme = active
      /\ themeRace' = (themeRace \/ \E u \in Task \ {"main"} : Changing(u))
  BY <1>1 DEF Attach, SetOut, Goto
<1>3. UNCHANGED <<themeFile, themeTouched, active, shellVars, desktopVars, follow, scheme, inStep>>
      /\ UNCHANGED <<fileVars, dialVars>>
  BY DEF Attach, followVars
<1>4. SettingsInv' BY <1>0, <1>2, <1>3, SettingsTurn
<1>5. themeRace' \/ (~themeRace /\ Alone("main") /\ Shown) BY <1>0, <1>2, SettingOut DEF ThemeAt
<1>6. Shown => Fits(j)' BY <1>2, <1>3 DEF Fits, Shown, FileShown, InStep, ThemeAt
<1>7. ThemeInv'
  <2>1. active'.name \in Theme /\ NamedTheme(j) BY <1>2, <1>3 DEF ThemeInv, NamedTheme
  <2> QED BY <1>0, <1>2, <1>3, <1>5, <1>6, <2>1, ThemeTurn DEF SettingsInv
<1> QED BY <1>4, <1>7

\* It gets the theme.
LEMMA StepCatchUp == ASSUME LookInv, CatchUp PROVE LookInv'
<1> USE DEF LookInv
<1>0. "main" \in Task /\ job["main"].at = "catchup" BY DEF Task, CatchUp, At
<1>1. PICK j : j = [at |-> "register"] OBVIOUS
<1>2. job' = [job EXCEPT !["main"] = j] /\ j.at = "register" BY <1>1 DEF CatchUp, Goto
<1>3. UNCHANGED <<themeFile, themeTouched, active, attached, desktopVars, themeRace, follow, scheme, inStep>>
      /\ UNCHANGED <<fileVars, dialVars>> /\ Send(job["main"].theme)
  BY DEF CatchUp, followVars
<1>4. SettingsInv' BY <1>0, <1>2, <1>3, SettingsTurn
<1>5. ASSUME ~themeRace PROVE Alone("main") /\ Fits(j)'
  <2>1. Alone("main") /\ Fits(job["main"]) BY <1>0, <1>5, AloneFits DEF ThemeAt
  <2>2. job["main"].theme = active /\ FileShown /\ InStep BY <1>0, <2>1 DEF Fits
  <2>3. Shown' BY <1>3, <2>2 DEF Send, Shown, ShellShows, FileShown, InStep
  <2> QED BY <1>2, <2>1, <2>3 DEF Fits
<1>6. ThemeInv'
  <2>1. NamedTheme(j) /\ active'.name \in Theme BY <1>2, <1>3 DEF NamedTheme, ThemeInv
  <2> QED BY <1>0, <1>2, <1>3, <1>5, <2>1, ThemeTurn DEF SettingsInv
<1> QED BY <1>4, <1>6

-----------------------------------------------------------------------------
\* One lemma per action, put together.
LEMMA LookStep == LookInv /\ CommandsInv /\ [LookNext]_lookVars => LookInv'
<1> SUFFICES ASSUME LookInv, CommandsInv, [LookNext]_lookVars PROVE LookInv' OBVIOUS
<1>1. ASSUME NEW c \in Requester, CallerStep(c) PROVE LookInv'
  <2>0. c \in Task BY DEF Task
  <2> QED BY <1>1, <2>0, StepReadSettings, StepCreateTmp, StepFillTmp, StepRenameTmp, StepRequestDial,
             StepApplyDial, StepChooseTheme, StepFollow DEF CallerStep
<1>2. ASSUME NEW t \in Task, TaskStep(t) PROVE LookInv'
  BY <1>2, StepApplyDoc, StepLoadTheme, StepInstallTheme, StepPushTheme, StepPropagate, StepFollow,
     StepSyncScheme DEF TaskStep
<1>3. CASE UNCHANGED lookVars
  <2>1. SettingsInv' BY <1>3, SettingsAside DEF LookInv, lookVars
  <2>2. UNCHANGED <<shownVars, followVars>> /\ UNCHANGED <<job, active, desktopVars, themeRace>>
    BY <1>3 DEF lookVars, shownVars
  <2>3. \A k : Fits(k) => Fits(k)' BY <2>2, SameFits
  <2>4. ThemeInv' BY <2>2, <2>3, SameTold, ThemeAside DEF LookInv
  <2> QED BY <2>1, <2>4 DEF LookInv
<1> QED BY <1>1, <1>2, <1>3, StepEditSettings, StepWatchSettings, StepEditTheme, StepWatchThemes,
           StepCommandEnds, StepPortalReports, StepAttach, StepCatchUp, StepRegisterModules DEF LookNext

\* With everyone at rest the invariant is what was to be shown.
LEMMA LookIsKept == LookInv => AppearanceKept
<1> SUFFICES ASSUME LookInv PROVE AppearanceKept OBVIOUS
<1>1. SettingsKept
  <2>1. ~overlap => disk = saved BY DEF LookInv, SettingsInv, TomlInv
  <2>2. ASSUME \A t \in Task : job[t].at \notin {"create", "fill", "rename", "apply", "register", "document"},
               ~touched, listening, ~stale, ~overlap
        PROVE  \A d \in Dial \ (overridden \cup dropped) : disk[d] \in {Unset, dial[d]}
    <3>1. "settings" \in Task /\ "main" \in Task /\ \A c \in Requester : c \in Task BY DEF Task
    <3>2. \A t \in Task : ~At(t, "document") /\ ~At(t, "apply") BY <2>2 DEF At
    <3> QED BY <2>2, <3>1, <3>2 DEF LookInv, SettingsInv, DialInv
  <2> QED BY <2>1, <2>2 DEF SettingsKept
<1>2. OnDisplay
  <2> SUFFICES ASSUME \A t \in Task : ~Changing(t)
               PROVE  Told /\ (~themeRace => Shown)
    BY DEF Told, Coming, OnDisplay, Shown, ShellShows, shellVars, FileShown, InStep
  <2>1. \A t \in Task : job[t].at \notin ThemeAt BY DEF Changing, ThemeAt
  <2>2. Told BY <2>1 DEF LookInv, ThemeInv, ThemeAt
  <2>3. "main" \in Task /\ Alone("main") BY DEF Task, Alone
  <2>4. ~themeRace => Fits(job["main"]) BY <2>3 DEF LookInv, ThemeInv
  <2> QED BY <2>1, <2>2, <2>3, <2>4 DEF Fits
<1> QED BY <1>1, <1>2 DEF AppearanceKept

\* Writers that do not meet keep levshell.toml whole and what they wrote (write_setting), and
\* at rest the dials, the shell, the compositor and the toolkits show the file's settings and
\* the active theme, unless the last message or command for them was lost or overtaken.
THEOREM AppearanceIsKept == LookSpec => []AppearanceKept
<1>1. LookInit => CommandsInv BY DEF LookInit, CommandsInv, Display
<1>2. LookSpec => []CommandsInv BY <1>1, CommandsStep, PTL DEF LookSpec
<1>3. LookSpec => []LookInv BY <1>2, LookInitially, LookStep, PTL DEF LookSpec
<1> QED BY <1>3, LookIsKept, PTL
=============================================================================
