------------------------------ MODULE Attention ------------------------------
(***************************************************************************)
(* What may interrupt the user (levshell-modules): the session timer       *)
(* (session_timer.rs) announces its intervals, the theme service           *)
(* (theme.rs) announces presentation mode, telemetry raises an alert when  *)
(* its escalation tracker (escalation.rs) reaches Critical, ideation and   *)
(* ctl publish what can wait; and the notifications module                 *)
(* (notifications.rs), at the other end of a bounded lossy channel of the  *)
(* bus, decides what is shown from what it was told.                       *)
(*                                                                         *)
(* Handlers are atomic but for the points at which another thread can be   *)
(* seen to act: between the end of an interval and the start of the next,  *)
(* and between a change of presentation mode and its announcement.         *)
(***************************************************************************)
EXTENDS Naturals, Sequences, FiniteSets, Functions

CONSTANTS
  Widget,          \* telemetry widgets with an escalation tracker
  Workspace,
  Caller,          \* ctl connections that set presentation mode
  WorkSecs, BreakSecs, LongBreakSecs,
  UntilLong,       \* intervals_until_long_break
  Capacity,        \* of the notifications module's channel
  None,
  MaxTicks,        \* bound on the seconds the timer counts
  MaxInputs        \* bound on commands, samples, nudges and notifications

ASSUME AttentionAssumption ==
  /\ {WorkSecs, BreakSecs, LongBreakSecs, UntilLong, Capacity} \subseteq Nat \ {0}
  /\ {MaxTicks, MaxInputs} \subseteq Nat /\ IsFiniteSet(Workspace)
  /\ None \notin Workspace /\ None \notin BOOLEAN /\ None \notin {"idle", "work", "break"}

Gate == {"session", "presentation"}
Critical == 3  \* EscalationLevel: Ambient, Aware, Attention, Critical
Level == 0..Critical

VARIABLES
  phase, paused, elapsed, planned, workDone, project, \* SessionTimerModule
  next,         \* the phase advance() or "stop" is about to enter, or None
  booked,       \* per_ws_secs
  presenting,   \* ThemeService: presentation
  announcing,   \* per caller: the value it set and has yet to publish, or None
  level,        \* per widget: EscalationTracker::current
  inbox,        \* the notifications module's channel
  muted,        \* its flags: focus_work under "session", presentation
  shown,        \* history: whether it showed what it read last
  announced,    \* history: the presentation mode that was published last
  gone,         \* history: gates whose last event was lost
  worked,       \* history: seconds of work, without intervals that ended in no workspace
  recent,       \* history: per widget, the raw levels of its last three samples
  alerted,      \* history: widgets with no sample below Critical since their alert
  ticks, inputs \* counters for the bounds

timerVars == <<phase, paused, elapsed, planned, workDone, project, next, booked, worked, ticks>>
themeVars == <<presenting, announcing>>
trackerVars == <<level, recent, alerted>>
wireVars == <<inbox, announced, gone>>
filterVars == <<muted, shown>>
vars == <<timerVars, themeVars, trackerVars, wireVars, filterVars, inputs>>

Item == [kind : Gate, on : BOOLEAN] \cup [kind : {"alert"}]
        \cup [kind : {"nudge", "notify"}, urgent : BOOLEAN, quiet : BOOLEAN, sure : BOOLEAN]

TypeOK ==
  /\ phase \in {"idle", "work", "break"} /\ paused \in BOOLEAN
  /\ elapsed \in 0..planned /\ planned \in {0, WorkSecs, BreakSecs, LongBreakSecs}
  /\ workDone \in Nat /\ project \in Workspace \cup {None}
  /\ next \in {"idle", "work", "break", None}
  /\ booked \in [Workspace -> Nat] /\ worked \in Nat
  /\ presenting \in BOOLEAN /\ announcing \in [Caller -> BOOLEAN \cup {None}]
  /\ level \in [Widget -> Level] /\ recent \in [Widget -> [1..3 -> Level]]
  /\ alerted \subseteq Widget
  /\ inbox \in Seq(Item) /\ Len(inbox) <= Capacity
  /\ muted \in [Gate -> BOOLEAN] /\ announced \in BOOLEAN /\ gone \subseteq Gate
  /\ shown \in BOOLEAN /\ ticks \in 0..MaxTicks /\ inputs \in 0..MaxInputs
  /\ phase = "idle" => ~paused /\ planned = 0 /\ next = None
  /\ phase # "idle" /\ next = None => elapsed < planned

Init ==
  /\ phase = "idle" /\ paused = FALSE /\ elapsed = 0 /\ planned = 0
  /\ workDone = 0 /\ project = None /\ next = None
  /\ booked = [w \in Workspace |-> 0] /\ worked = 0
  /\ presenting = FALSE /\ announcing = [c \in Caller |-> None]
  /\ level = [w \in Widget |-> 0] /\ recent = [w \in Widget |-> [i \in 1..3 |-> 0]]
  /\ alerted = {}
  /\ inbox = <<>> /\ muted = [g \in Gate |-> FALSE]
  /\ announced = FALSE /\ gone = {}
  /\ shown = FALSE /\ ticks = 0 /\ inputs = 0

Input == inputs < MaxInputs /\ inputs' = inputs + 1

-----------------------------------------------------------------------------
(* EventBus::publish, as the notifications module is concerned by it. *)

Full == Len(inbox) = Capacity

PublishGate(g, on) ==
  /\ announced' = IF g = "presentation" THEN on ELSE announced
  /\ inbox' = IF Full THEN inbox ELSE Append(inbox, [kind |-> g, on |-> on])
  /\ gone' = IF Full THEN gone \cup {g} ELSE gone \ {g}

PublishItem(i) ==
  /\ inbox' = IF Full THEN inbox ELSE Append(inbox, i)
  /\ UNCHANGED <<announced, gone>>

-----------------------------------------------------------------------------
(* SessionTimerModule *)

\* break_secs()
BreakFor(n) == IF n > 0 /\ n % UntilLong = 0 THEN LongBreakSecs ELSE BreakSecs

\* enter()
EnterPhase(p) ==
  /\ phase' = p /\ paused' = FALSE /\ elapsed' = 0
  /\ planned' = CASE p = "idle" -> 0 [] p = "work" -> WorkSecs [] p = "break" -> BreakFor(workDone')
  /\ IF p = "idle" THEN UNCHANGED wireVars ELSE PublishGate("session", p = "work")

\* Mutant: only intervals that run their full time are booked.
EndFullOnly(secs, then) ==
  /\ phase # "idle"
  /\ next' = then
  /\ workDone' = IF phase = "work" THEN workDone + 1 ELSE workDone
  /\ booked' = IF phase = "work" /\ project # None /\ secs = planned
                 THEN [booked EXCEPT ![project] = @ + secs] ELSE booked
  /\ worked' = IF phase = "work" /\ project = None THEN worked - elapsed
               ELSE IF phase = "work" THEN worked + (secs - elapsed) ELSE worked
  /\ PublishGate("session", FALSE)
  /\ UNCHANGED <<phase, paused, planned, project>>

\* end_current(), with a new phase to enter next.
End(secs, then) ==
  /\ phase # "idle"
  /\ next' = then
  /\ workDone' = IF phase = "work" THEN workDone + 1 ELSE workDone
  /\ booked' = IF phase = "work" /\ project # None
                 THEN [booked EXCEPT ![project] = @ + secs] ELSE booked
  /\ worked' = IF phase = "work" /\ project = None THEN worked - elapsed
               ELSE IF phase = "work" THEN worked + (secs - elapsed) ELSE worked
  /\ PublishGate("session", FALSE)
  /\ UNCHANGED <<phase, paused, planned, project>>

Successor == IF phase = "work" THEN "break" ELSE "work"

\* The second half of advance() and of "stop".
Enter ==
  /\ next # None
  /\ next' = None
  /\ workDone' = IF next = "idle" THEN 0 ELSE workDone
  /\ EnterPhase(next)
  /\ UNCHANGED <<project, booked, worked, ticks, themeVars, trackerVars, filterVars, inputs>>

Start ==
  /\ phase = "idle"
  /\ workDone' = 0
  /\ EnterPhase("work")
  /\ UNCHANGED <<project, next, booked, worked>>

\* "pause", "resume", "start" of a paused interval.
Hold(stop) ==
  /\ phase # "idle" /\ paused = ~stop
  /\ paused' = stop
  /\ UNCHANGED <<phase, elapsed, planned, workDone, project, next, booked, worked, wireVars>>

Stop == End(elapsed, "idle") /\ UNCHANGED elapsed
Skip == End(elapsed, Successor) /\ UNCHANGED elapsed

WorkspaceChanged(w) ==
  /\ project' = w
  /\ UNCHANGED <<phase, paused, elapsed, planned, workDone, next, booked, worked, wireVars>>

\* on_event(), between two handlers; "toggle" is one of the commands.
Command ==
  /\ next = None /\ Input
  /\ Start \/ Hold(TRUE) \/ Hold(FALSE) \/ Stop \/ Skip \/ \E w \in Workspace : WorkspaceChanged(w)
  /\ UNCHANGED <<ticks, themeVars, trackerVars, filterVars>>

\* advance_one_second()
Tick ==
  /\ next = None /\ phase # "idle" /\ ~paused
  /\ ticks < MaxTicks /\ ticks' = ticks + 1
  /\ elapsed' = elapsed + 1
  /\ IF elapsed' >= planned
       THEN End(elapsed', Successor)
       ELSE /\ worked' = IF phase = "work" THEN worked + 1 ELSE worked
            /\ UNCHANGED <<phase, paused, planned, workDone, project, next, booked, wireVars>>
  /\ UNCHANGED <<themeVars, trackerVars, filterVars, inputs>>

-----------------------------------------------------------------------------
(* ThemeService::set_presentation *)

\* The flag changes under the lock ("on", "off" or "toggle").
SetPresentation(c) ==
  /\ announcing[c] = None /\ Input
  /\ presenting' \in BOOLEAN
  /\ announcing' = [announcing EXCEPT ![c] = presenting']
  /\ UNCHANGED <<timerVars, trackerVars, wireVars, filterVars>>

\* The event goes out after it.
AnnouncePresentation(c) ==
  /\ announcing[c] # None
  /\ announcing' = [announcing EXCEPT ![c] = None]
  /\ PublishGate("presentation", announcing[c])
  /\ UNCHANGED <<timerVars, presenting, trackerVars, filterVars, inputs>>

-----------------------------------------------------------------------------
(* EscalationTracker::step and what its callers do with the outcome. *)

\* Mutant: the raw level is adopted on the way up too.
StepAtOnce(raw, prev) == raw

\* One level up at a time, down at once.
Step(raw, prev) == IF raw > prev THEN prev + 1 ELSE raw

\* A telemetry module publishes a sample; the step into Critical is an alert.
Sample(w, raw) ==
  LET now == Step(raw, level[w]) IN
  /\ Input
  /\ level' = [level EXCEPT ![w] = now]
  /\ recent' = [recent EXCEPT ![w] = <<@[2], @[3], raw>>]
  /\ IF now = Critical /\ level[w] # Critical
       THEN PublishItem([kind |-> "alert"]) /\ alerted' = alerted \cup {w}
       ELSE /\ alerted' = IF raw < Critical THEN alerted \ {w} ELSE alerted
            /\ UNCHANGED wireVars
  /\ UNCHANGED <<timerVars, themeVars, filterVars>>

Working == phase = "work" /\ next = None

\* An ideation or review nudge, or a ctl notification with its urgency.
PublishLesser ==
  /\ Input
  /\ \E k \in {"nudge", "notify"}, u \in BOOLEAN :
       /\ k = "nudge" => ~u
       /\ PublishItem([kind |-> k, urgent |-> u, quiet |-> Working \/ announced, sure |-> gone = {}])
  /\ UNCHANGED <<timerVars, themeVars, trackerVars, filterVars>>

-----------------------------------------------------------------------------
(* NotificationsModule::on_event *)

Quiet == \E g \in Gate : muted[g]

\* Alerts always pass, and so does a notification that says it is critical.
Passes(i) == i.kind = "alert" \/ ~Quiet \/ (i.kind = "notify" /\ i.urgent)

\* Mutant: the end of a session opens both gates.
FlagsCleared(i) == [g \in Gate |-> i.on /\ (g = i.kind \/ muted[g])]

Flags(i) == [muted EXCEPT ![i.kind] = i.on]

\* The desktop's notification server may fail or hang; nothing is kept for later.
Receive ==
  /\ inbox # <<>>
  /\ inbox' = Tail(inbox)
  /\ LET i == Head(inbox) IN
       IF i.kind \in Gate THEN muted' = Flags(i) /\ UNCHANGED shown
       ELSE shown' = Passes(i) /\ UNCHANGED muted
  /\ UNCHANGED <<timerVars, themeVars, trackerVars, announced, gone, inputs>>

Next ==
  \/ Command \/ Tick \/ Enter
  \/ \E c \in Caller : SetPresentation(c) \/ AnnouncePresentation(c)
  \/ (\E w \in Widget, raw \in Level : Sample(w, raw)) \/ PublishLesser \/ Receive

Spec == Init /\ [][Next]_vars

-----------------------------------------------------------------------------
(* Properties. *)

\* Whatever else is in the channel and however late it is read: alerts and
\* critical notifications are always shown, anything else exactly if no work
\* interval was on (paused or not) and presentation mode was announced to be off
\* when it was published.  A lost event is made good by the next of its gate.
TreatedAsPublished ==
  [][Receive =>
       LET i == Head(inbox) IN
       /\ i.kind = "alert" => shown'
       /\ i.kind \in {"nudge", "notify"} /\ i.sure => (shown' <=> i.urgent \/ ~i.quiet)]_vars

\* No alert comes out of a single spike, for it is built up over three samples,
\* and none is repeated before a sample below Critical.
AlertJustified ==
  [][\A w \in Widget : level[w] # Critical /\ level'[w] = Critical =>
       w \notin alerted /\ \A n \in 1..3 : recent'[w][n] >= n]_vars

\* Every second of work is booked once, whether its interval runs out, is skipped
\* or stopped and whatever was paused, except where no workspace was known at its
\* end.
WorkBooked ==
  FoldFunction(+, 0, booked) + (IF Working THEN elapsed ELSE 0) = worked
=============================================================================
