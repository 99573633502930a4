------------------------------ MODULE SwayBridge ------------------------------
(***************************************************************************)
(* The bridge to the compositor (levshell-modules, sway/): one connection  *)
(* streams Sway's workspace and window events, another is asked for the    *)
(* list of workspaces after each.  The bridge announces the events on the  *)
(* bus and sends the list to the shell.  Sway goes on while it does, so an *)
(* answer may be newer than the event it was asked for.                    *)
(*                                                                         *)
(* Sway itself is external: a workspace exists while it has a window or    *)
(* the focus, and an event names the workspace it is about, focused or not.*)
(***************************************************************************)
EXTENDS Naturals, Sequences

CONSTANTS
  Space,       \* names of workspaces
  Caption,     \* window titles; a workspace has one window at most
  NoName,      \* no window, no workspace, an empty name
  BarSlots,    \* of the queue to the shell
  MaxSway      \* bound on what the user and Sway do

ASSUME SwayAssumption == BarSlots \in Nat \ {0} /\ MaxSway \in Nat

VARIABLES
  inFocus, windowOn, urgent, \* Sway: the focused workspace, the windows, the urgent workspaces
  subscribed, swayEvents,    \* the event stream
  bridge,      \* where start() and run_event_loop() stand
  answer,      \* the last answer of get_workspaces()
  focusedWindow, \* current_focused_window
  barQueue,    \* updates on their way to the shell
  bar,         \* the indicator as the shell has it
  announced,   \* history: the workspace of the last WorkspaceChanged
  behind,      \* history: a list that the shell should have got did not reach it
  swayMoves    \* counter for MaxSway

swayVars == <<inFocus, windowOn, urgent, swayEvents, swayMoves>>
bridgeVars == <<subscribed, bridge, answer, focusedWindow, barQueue, bar, announced>>

\* get_workspaces(), the focused one with it.
Listing == [spaces |-> {w \in Space : windowOn[w] # NoName} \cup {inFocus}, active |-> inFocus, urgent |-> urgent]

SwayInit ==
  /\ inFocus \in Space /\ windowOn = [w \in Space |-> NoName] /\ urgent = {}
  /\ subscribed = FALSE /\ swayEvents = <<>> /\ bridge = "connect"
  /\ answer = NoName /\ focusedWindow = NoName /\ barQueue = <<>> /\ bar = NoName
  /\ announced = NoName /\ behind = FALSE /\ swayMoves = 0

-----------------------------------------------------------------------------
(* Sway *)

About(change, w) == [type |-> "workspace", change |-> change, name |-> w]
Focused(t) == [type |-> "window", change |-> "focus", name |-> t]
Closed(t) == [type |-> "window", change |-> "close", name |-> t]
Maybe(condition, event) == IF condition THEN <<event>> ELSE <<>>

\* A change, with the events it sends to whoever is subscribed.
Sways(events) ==
  /\ swayMoves < MaxSway /\ swayMoves' = swayMoves + 1
  /\ swayEvents' = IF subscribed THEN swayEvents \o events ELSE swayEvents
  /\ behind' = (behind \/ bridge \in {"first", "subscribe"})
  /\ UNCHANGED bridgeVars

\* A workspace is made when it is entered, and goes away when it is left empty.
SwitchSpace ==
  \E w \in Space \ {inFocus} :
    /\ inFocus' = w /\ urgent' = urgent \ {w}
    /\ Sways(Maybe(windowOn[w] = NoName, About("init", w)) \o <<About("focus", w)>>
             \o Maybe(windowOn[w] # NoName, Focused(windowOn[w]))
             \o Maybe(w \in urgent, About("urgent", w))
             \o Maybe(windowOn[inFocus] = NoName, About("empty", inFocus)))
    /\ UNCHANGED windowOn

OpenTitle ==
  /\ windowOn[inFocus] = NoName
  /\ \E t \in Caption : windowOn' = [windowOn EXCEPT ![inFocus] = t] /\ Sways(<<Focused(t)>>)
  /\ UNCHANGED <<inFocus, urgent>>

\* What was the title of the focused workspace's window is no window's any more.
CloseTitle ==
  \E w \in Space :
    /\ windowOn[w] # NoName
    /\ windowOn' = [windowOn EXCEPT ![w] = NoName] /\ urgent' = urgent \ {w}
    /\ Sways(<<Closed(windowOn[w])>> \o Maybe(w # inFocus, About("empty", w)))
    /\ UNCHANGED inFocus

WindowCalls ==
  \E w \in Space \ (urgent \cup {inFocus}) :
    /\ windowOn[w] # NoName
    /\ urgent' = urgent \cup {w} /\ Sways(<<About("urgent", w)>>)
    /\ UNCHANGED <<inFocus, windowOn>>

\* Sway's configuration is read again: an event about no workspace.
SwayReloads == Sways(<<About("reload", NoName)>>) /\ UNCHANGED <<inFocus, windowOn, urgent>>

-----------------------------------------------------------------------------
(* start() *)

\* Without Sway the module is parked; when a later step fails it runs without its task.
StartFails ==
  /\ bridge \in {"connect", "subscribe"}
  /\ bridge' = "gone"
  /\ UNCHANGED <<swayVars, subscribed, answer, focusedWindow, barQueue, bar, announced, behind>>

QueryFirst ==
  /\ bridge = "connect" /\ bridge' = "first"
  /\ answer' = Listing
  /\ UNCHANGED <<swayVars, subscribed, focusedWindow, barQueue, bar, announced, behind>>

\* publish_indicator(): what does not fit is dropped.
Indicator == [list |-> answer, window |-> focusedWindow]
PublishIndicator(current) ==
  IF Len(barQueue) < BarSlots
  THEN barQueue' = Append(barQueue, Indicator) /\ behind' = ~current
  ELSE UNCHANGED barQueue /\ behind' = TRUE

PublishFirst ==
  /\ bridge = "first" /\ bridge' = "subscribe"
  /\ PublishIndicator(~behind)
  /\ UNCHANGED <<swayVars, subscribed, answer, focusedWindow, bar, announced>>

SubscribeSway ==
  /\ bridge = "subscribe" /\ bridge' = "next"
  /\ subscribed' = TRUE
  /\ UNCHANGED <<swayVars, answer, focusedWindow, barQueue, bar, announced, behind>>

-----------------------------------------------------------------------------
(* run_event_loop() *)

\* Mutant: only a change of the focus has the list read again.
LooksAtFocus(e) == e.change = "focus"

\* Of the windows' events only the focus.
LooksAt(e) == e.change \in {"focus", "init", "empty", "move", "rename", "reload", "urgent"}

NextEvent ==
  /\ bridge = "next" /\ swayEvents # <<>>
  /\ swayEvents' = Tail(swayEvents)
  /\ LET e == Head(swayEvents)
     IN  /\ bridge' = IF LooksAt(e) THEN "query" ELSE "next"
         /\ announced' = IF e.type = "workspace" /\ LooksAt(e) THEN e.name ELSE announced
         /\ focusedWindow' = IF e.type = "window" /\ LooksAt(e) THEN e.name ELSE focusedWindow
  /\ UNCHANGED <<inFocus, windowOn, urgent, swayMoves, subscribed, answer, barQueue, bar, behind>>

Query ==
  /\ bridge = "query" /\ bridge' = "publish"
  /\ answer' = Listing
  /\ UNCHANGED <<swayVars, subscribed, focusedWindow, barQueue, bar, announced, behind>>

\* The list stays as it is until the next event.
QueryFails ==
  /\ bridge = "query" /\ bridge' = "next"
  /\ behind' = TRUE
  /\ UNCHANGED <<swayVars, subscribed, answer, focusedWindow, barQueue, bar, announced>>

PublishList ==
  /\ bridge = "publish" /\ bridge' = "next"
  /\ PublishIndicator(TRUE)
  /\ UNCHANGED <<swayVars, subscribed, answer, focusedWindow, bar, announced>>

\* An error of the stream ends the task for good, and so does stop().
StreamEnds ==
  /\ bridge \in {"next", "query", "publish"} /\ bridge' = "gone"
  /\ UNCHANGED <<swayVars, subscribed, answer, focusedWindow, barQueue, bar, announced, behind>>

ShellDraws ==
  /\ barQueue # <<>>
  /\ bar' = Head(barQueue) /\ barQueue' = Tail(barQueue)
  /\ UNCHANGED <<swayVars, subscribed, bridge, answer, focusedWindow, announced, behind>>

SwayNext ==
  \/ SwitchSpace \/ OpenTitle \/ CloseTitle \/ WindowCalls \/ SwayReloads
  \/ StartFails \/ QueryFirst \/ PublishFirst \/ SubscribeSway
  \/ NextEvent \/ Query \/ QueryFails \/ PublishList \/ StreamEnds \/ ShellDraws

SwaySpec == SwayInit /\ [][SwayNext]_<<swayVars, bridgeVars, behind>>

-----------------------------------------------------------------------------
(* Properties *)

CaughtUp == bridge = "next" /\ swayEvents = <<>>

\* Whatever Sway did between an event and the list that was read for it, the bar
\* shows Sway's workspaces when the bridge has caught up: unless the list for the last
\* event was not read or not sent, or Sway changed between the first list and
\* the subscription and not since.
BarShowsSway == CaughtUp /\ barQueue = <<>> /\ ~behind => bar.list = Listing

\* "The active Sway workspace changed": when the bridge has caught up, the last
\* workspace it announced is the focused one.
AnnouncesActive == CaughtUp /\ announced # NoName => announced = inFocus
=============================================================================
