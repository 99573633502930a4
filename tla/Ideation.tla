------------------------------ MODULE Ideation ------------------------------
(***************************************************************************)
(* Nudges and the project pulse (levshell-modules): a tick of ideation     *)
(* (ideation/mod.rs) takes the list of projects, lists the notes, reads    *)
(* each one's links and then each neighbour, does the same for the         *)
(* references, and chooses (ideation/selector.rs) what to remind the user  *)
(* of; the pulse (project_pulse.rs) reads tasks and then events for its    *)
(* deadlines.  The store and the registry go on changing between any two   *)
(* of these reads.  Chance is choice: which kind is rolled, and which      *)
(* candidate is drawn.  Tags and links themselves do not change here.      *)
(***************************************************************************)
EXTENDS Naturals, SequencesExt, FiniteSets

CONSTANTS
  Proj,
  ProjTags,      \* per project: the tags of its metadata
  Notes, References,
  EntityTags,    \* per note or reference
  Links,         \* edges of the graph: pairs of entities
  Gone,          \* deleted, or nothing
  ScanLimit, MaxDeadlines, \* of the pulse
  MaxChanges     \* bound on the changes of store and registry

Entity == Notes \cup References

VARIABLES
  kinds,         \* the kinds with a weight, heaviest first (config)
  projects,      \* per project: [status, question, quiet] (the registry)
  entities,      \* per entity: [project, fresh], or Gone (the store)
  stage,         \* of the tick: "idle" or "loading"
  offered,       \* the projects, as listed when the tick began
  toList,        \* the kinds of entity still to be listed
  toRead,        \* entities listed whose links are still to be read
  ahead,         \* pairs of the entity being read and a neighbour still to be looked up
  recentOnes,    \* per entity listed: [project, fresh, neighbours], or Gone
  graphFailed,   \* history: a read of the graph failed in this tick
  held,          \* history: per project and entity, its rows since the tick began
  fired,         \* history: the last tick rolled to fire
  nudge,         \* what it delivered: [kind, project], or Gone
  agenda,        \* tasks and events in the store's order: [id, due, open, task] (the store)
  scanned,       \* the tasks that the pulse has read, or Gone
  pulseRead,      \* history: all it had read for what it shows
  deadlines,     \* what it shows
  changes

storeVars == <<projects, entities>>
tickVars == <<offered, toList, toRead, ahead, recentOnes, graphFailed>>
nudgeVars == <<kinds, storeVars, stage, tickVars, held, fired, nudge>>
pulseVars == <<agenda, scanned, pulseRead, deadlines>>
ideationVars == <<nudgeVars, pulseVars, changes>>

NudgeKind == {"open_question", "cross_connection", "blocked"}
Status == {"active", "blocked", "complete"}

\* Due: 0 is overdue or under way, 1 and 2 in the window, 3 after it or never.
Row(id, due, open, task) == [id |-> id, due |-> due, open |-> open, task |-> task]
Horizon == 2

IdeationInit ==
  /\ kinds \in {<<"open_question", "cross_connection", "blocked">>, <<"blocked", "cross_connection">>}
  /\ projects = [p \in Proj |-> [status |-> "active", question |-> FALSE, quiet |-> FALSE]]
  /\ \E p \in Proj \cup {Gone} :
       entities = [e \in Entity |-> [project |-> IF e \in References THEN p ELSE Gone, fresh |-> TRUE]]
  /\ stage = "idle" /\ offered = projects /\ toList = <<>> /\ toRead = {} /\ ahead = {}
  /\ recentOnes = [e \in Entity |-> Gone] /\ graphFailed = FALSE
  /\ held = [x \in Proj \cup Entity |-> {}] /\ fired = FALSE /\ nudge = Gone
  /\ agenda = <<Row(1, 2, TRUE, TRUE), Row(2, 1, TRUE, FALSE), Row(3, 1, FALSE, TRUE), Row(4, 0, TRUE, TRUE)>>
  /\ scanned = Gone /\ pulseRead = <<>> /\ deadlines = <<>> /\ changes = 0

Change == changes < MaxChanges /\ changes' = changes + 1

-----------------------------------------------------------------------------
(* Ideation *)

\* run_tick(): the projects as they are now.
BeginTick ==
  /\ stage = "idle" /\ stage' = "loading"
  /\ offered' = projects /\ toList' = <<Notes, References>>
  /\ recentOnes' = [e \in Entity |-> Gone] /\ graphFailed' = FALSE
  /\ held' = [x \in Proj \cup Entity |-> {IF x \in Proj THEN projects[x] ELSE entities[x]}]
  /\ fired' = FALSE /\ nudge' = Gone
  /\ UNCHANGED <<kinds, storeVars, toRead, ahead, pulseVars, changes>>

BetweenEntities == stage = "loading" /\ ahead = {}
AllRead == BetweenEntities /\ toList = <<>> /\ toRead = {}

\* load_recent_entities(): list_notes(), or list_references(), with the rows as they are now.
ListRows ==
  /\ BetweenEntities /\ toRead = {} /\ toList # <<>> /\ toList' = Tail(toList)
  /\ toRead' = {e \in Head(toList) : IF entities[e] = Gone THEN FALSE ELSE entities[e].fresh}
  /\ recentOnes' = [e \in Entity |->
       IF e \in toRead' THEN [project |-> entities[e].project, fresh |-> TRUE, neighbours |-> {}]
       ELSE recentOnes[e]]
  /\ UNCHANGED <<kinds, storeVars, stage, offered, ahead, graphFailed, held, fired, nudge, pulseVars, changes>>

LinkedTo(e) == {f \in Entity : {<<e, f>>, <<f, e>>} \cap Links # {}}

\* related_entities(): the edges of a listed row, which outlive it, to what is still there.  (Labels are read
\* one by one there; a neighbour that goes in between is missed at the latest when it is looked up.)
TakeEntity ==
  /\ BetweenEntities
  /\ \E e \in toRead, fails \in BOOLEAN :
       /\ toRead' = toRead \ {e} /\ graphFailed' = (graphFailed \/ fails)
       /\ ahead' = IF fails THEN {} ELSE {<<e, f>> : f \in {g \in LinkedTo(e) : entities[g] # Gone}}
  /\ UNCHANGED <<kinds, storeVars, stage, offered, toList, recentOnes, held, fired, nudge, pulseVars, changes>>

\* neighbour_project(): one neighbour, if it is still there and can be read.
ReadNeighbour ==
  /\ \E pair \in ahead, fails \in BOOLEAN :
       LET e == pair[1]
           now == entities[pair[2]]
           found == IF fails \/ now = Gone THEN {} ELSE {now.project} \ {Gone}
       IN  /\ ahead' = ahead \ {pair} /\ graphFailed' = (graphFailed \/ fails)
           /\ recentOnes' = [recentOnes EXCEPT ![e].neighbours = @ \cup found]
  /\ UNCHANGED <<kinds, storeVars, stage, offered, toList, toRead, held, fired, nudge, pulseVars, changes>>

\* Notes, references or tags that cannot be read fail the tick.
FailTick ==
  /\ BetweenEntities /\ ~AllRead
  /\ stage' = "idle" /\ toList' = <<>> /\ toRead' = {}
  /\ UNCHANGED <<kinds, storeVars, offered, ahead, recentOnes, graphFailed, held, fired, nudge, pulseVars, changes>>

Eligible == {p \in Proj : offered[p].status # "complete"}
Recent == {e \in Entity : IF recentOnes[e] = Gone THEN FALSE ELSE recentOnes[e].fresh}

\* pick_open_question(), pick_blocked_escalation(): what they draw from.
OpenQuestions == {p \in Eligible : offered[p].question}
Stuck == {p \in Eligible : offered[p].status = "blocked" \/ offered[p].quiet}

\* pick_cross_connection(): drawn links before shared tags, and never the entity's own project.
Linked(e) == (recentOnes[e].neighbours \cap Eligible) \ {recentOnes[e].project}
Tagged(e) == {p \in Eligible : p # recentOnes[e].project /\ ProjTags[p] \cap EntityTags[e] # {}}
Connections ==
  IF \E e \in Recent : Linked(e) # {} THEN UNION {Linked(e) : e \in Recent}
  ELSE UNION {Tagged(e) : e \in Recent}

Candidates(k) ==
  CASE k = "open_question" -> OpenQuestions [] k = "blocked" -> Stuck [] k = "cross_connection" -> Connections


\* select(): the kind that was rolled, then the others by weight.
Attempt(first) == LET Other(k) == k # first IN <<first>> \o SelectSeq(kinds, Other)

\* should_fire_this_tick(), select(), and the event.
Choose ==
  /\ AllRead /\ stage' = "idle"
  /\ \/ fired' = FALSE /\ UNCHANGED nudge
     \/ /\ fired' = TRUE
        /\ IF kinds = <<>> THEN UNCHANGED nudge
           ELSE \E first \in ToSet(kinds) :
                  LET Fruitful(k) == Candidates(k) # {}
                      order == SelectSeq(Attempt(first), Fruitful)
                  IN  IF order = <<>> THEN UNCHANGED nudge
                      ELSE \E p \in Candidates(order[1]) : nudge' = [kind |-> order[1], project |-> p]
  /\ UNCHANGED <<kinds, storeVars, tickVars, held, pulseVars, changes>>

\* What a tick in progress may come across.
Held ==
  held' = IF stage = "idle" THEN held
          ELSE [x \in Proj \cup Entity |-> held[x] \cup {IF x \in Proj THEN projects'[x] ELSE entities'[x]}]

\* A project or an entity is written, which gives it the date of now, or deleted.
StoreChanges ==
  /\ Change
  /\ \/ /\ \E p \in Proj, s \in Status, q \in BOOLEAN :
             projects' = [projects EXCEPT ![p] = [status |-> s, question |-> q, quiet |-> FALSE]]
        /\ UNCHANGED entities
     \/ /\ \E e \in {x \in Entity : entities[x] # Gone} :
             \/ \E p \in Proj \cup {Gone} : entities' = [entities EXCEPT ![e] = [project |-> p, fresh |-> TRUE]]
             \/ entities' = [entities EXCEPT ![e] = Gone]
        /\ UNCHANGED projects
  /\ Held /\ UNCHANGED <<kinds, stage, tickVars, fired, nudge, pulseVars>>

\* A date passes out of its window, the copy's as well: ages are those of the moment of the choice.  (One
\* that was written since it was read passed out before that, for all that the tick can tell.)
TimePasses ==
  /\ Change
  /\ \/ /\ \E p \in Proj :
             /\ stage = "loading" => offered[p] = projects[p]
             /\ projects' = [projects EXCEPT ![p].quiet = TRUE]
             /\ offered' = IF stage = "loading" THEN [offered EXCEPT ![p].quiet = TRUE] ELSE offered
        /\ UNCHANGED <<entities, recentOnes>>
     \/ /\ \E e \in {x \in Entity : entities[x] # Gone} :
             /\ recentOnes[e] # Gone => recentOnes[e].project = entities[e].project
             /\ entities' = [entities EXCEPT ![e].fresh = FALSE]
             /\ recentOnes' = IF recentOnes[e] = Gone THEN recentOnes ELSE [recentOnes EXCEPT ![e].fresh = FALSE]
        /\ UNCHANGED <<projects, offered>>
  /\ Held /\ UNCHANGED <<kinds, stage, toList, toRead, ahead, graphFailed, fired, nudge, pulseVars>>

NudgeNext ==
  BeginTick \/ ListRows \/ TakeEntity \/ ReadNeighbour \/ FailTick \/ Choose \/ StoreChanges \/ TimePasses

-----------------------------------------------------------------------------
(* The deadlines of the pulse *)

AtMost(s, n) == SubSeq(s, 1, IF Len(s) < n THEN Len(s) ELSE n)
IsDue(x) == x.open /\ x.due <= Horizon

\* list_tasks() stops after so many rows, those of no interest among them; they are left out after.
ScanTasks ==
  /\ scanned = Gone
  /\ LET Task(x) == x.task
     IN  scanned' \in {SelectSeq(AtMost(SelectSeq(agenda, Task), ScanLimit), IsDue), <<>>}
  /\ UNCHANGED <<agenda, pulseRead, deadlines, nudgeVars, changes>>

Sooner(x, y) == x.due < y.due

Soonest(s) == AtMost(SortSeq(s, Sooner), MaxDeadlines)

\* list_events() by their start, those that are not over; tasks and events by date, the first few.
ShowDeadlines ==
  /\ scanned # Gone /\ scanned' = Gone
  /\ LET Event(x) == ~x.task /\ IsDue(x)
     IN  pulseRead' \in {scanned \o SortSeq(SelectSeq(agenda, Event), Sooner), scanned}
  /\ deadlines' = Soonest(pulseRead')
  /\ UNCHANGED <<agenda, nudgeVars, changes>>

\* A row is updated, which puts it first, or an event is over.
AgendaChanges ==
  /\ Change
  /\ \E i \in DOMAIN agenda, d \in 0..Horizon + 1, o \in BOOLEAN :
       agenda' = <<[agenda[i] EXCEPT !.due = d, !.open = o]>> \o RemoveAt(agenda, i)
  /\ UNCHANGED <<scanned, pulseRead, deadlines, nudgeVars>>

PulseNext == ScanTasks \/ ShowDeadlines \/ AgendaChanges

-----------------------------------------------------------------------------
(* Properties *)

\* Reasons for a nudge, of rows of the store and the registry.
Asks(row) == row.question
Sticks(row) == row.status = "blocked" \/ row.quiet
Lives(row) == row.status # "complete"
Elsewhere(row, p) == IF row = Gone THEN FALSE ELSE row.fresh /\ row.project # p
Belongs(row, p) == IF row = Gone THEN FALSE ELSE row.project = p
Shares(e, p) == ProjTags[p] \cap EntityTags[e] # {}

\* A link to p from an entity of another project, at some moment since the tick began, or at all of them.
MayLink(e, p) ==
  /\ \E row \in held[e] : Elsewhere(row, p)
  /\ \E f \in LinkedTo(e) : \E row \in held[f] : Belongs(row, p)
MustLink(e, p) ==
  /\ \A row \in held[e] : Elsewhere(row, p)
  /\ \E f \in LinkedTo(e) : \A row \in held[f] : Belongs(row, p)

Possible(k, p) ==
  \/ k = "open_question" /\ \E row \in held[p] : Lives(row) /\ Asks(row)
  \/ k = "blocked" /\ \E row \in held[p] : Lives(row) /\ Sticks(row)
  \/ /\ k = "cross_connection" /\ \E row \in held[p] : Lives(row)
     /\ \E e \in Entity : MayLink(e, p) \/ (Shares(e, p) /\ \E row \in held[e] : Elsewhere(row, p))

\* A project that lives throughout and that a link leads to throughout, where the graph could be read.
CertainLink(p) ==
  ~graphFailed /\ (\A row \in held[p] : Lives(row)) /\ \E e \in Entity : MustLink(e, p)

Certain(k, p) ==
  /\ \A row \in held[p] : Lives(row)
  /\ \/ k = "open_question" /\ \A row \in held[p] : Asks(row)
     \/ k = "blocked" /\ \A row \in held[p] : Sticks(row)
     \/ /\ k = "cross_connection"
        /\ CertainLink(p) \/ \E e \in Entity : Shares(e, p) /\ \A row \in held[e] : Elsewhere(row, p)

\* Whatever changes between the reads of a tick: if it fires, it finds a nudge whenever some kind in use
\* had a reason for one during the whole tick, whichever was rolled first; the one it finds had its reason
\* at some moment of the tick; and shared tags do not make one while a link is there.
NudgeIsFound ==
  stage = "idle" /\ fired =>
    IF nudge = Gone THEN \A k \in ToSet(kinds), p \in Proj : ~Certain(k, p)
    ELSE /\ nudge.kind \in ToSet(kinds) /\ Possible(nudge.kind, nudge.project)
         /\ nudge.kind = "cross_connection" /\ (\E p \in Proj : CertainLink(p)) =>
              \E e \in Entity : MayLink(e, nudge.project)

\* The deadlines shown are in order, as many as there is room for, and none that was read for them and
\* left out is due before one of them.
SoonestFirst ==
  /\ \A i, j \in DOMAIN deadlines : i < j => deadlines[i].due <= deadlines[j].due
  /\ Len(deadlines) = IF Len(pulseRead) < MaxDeadlines THEN Len(pulseRead) ELSE MaxDeadlines
  /\ \A x \in ToSet(pulseRead) \ ToSet(deadlines), y \in ToSet(deadlines) : y.due <= x.due
=============================================================================
