------------------------------- MODULE Snapshot -------------------------------
(***************************************************************************)
(* Saving the desktop under a name and restoring it (levshell-modules,     *)
(* context_snapshot/).  Sway's tree is walked into the list of its windows,*)
(* workspace by workspace; the scratchpad and containers are not windows.  *)
(* All windows are of one application: windows of different ones are never *)
(* matched with each other.  Sway and the user act between the commands of *)
(* a restore, which may fail one by one.                                   *)
(***************************************************************************)
EXTENDS Naturals, Sequences, FiniteSets, SequencesExt

CONSTANTS
  Screen,     \* the workspaces, in the order of Sway's tree
  Title,      \* window titles
  MaxCons,    \* bound on the windows ever opened
  MaxHands,   \* bound on what the user does
  Empty

VARIABLES
  desktop,    \* the windows of the tree, as [con, space, title, cmd]
  front,      \* the workspace with the focus
  saving,     \* the file: [windows, front], or Empty
  plan,       \* restore_snapshot(): [moves, launches, front, done], or Empty
  starting,   \* the saved windows whose program was started and has none yet
  settled,    \* history: the desktop is as it was saved or restored last
  cons, hands \* counters for the bounds

snapshotVars == <<desktop, front, saving, plan, starting, settled, cons, hands>>

Spaces == Range(Screen)

\* The order of the tree: by workspace, then by age.
InTree(ws) == FlattenSeq([i \in DOMAIN Screen |-> SelectSeq(ws, LAMBDA w : w.space = Screen[i])])

SnapshotInit ==
  /\ desktop = <<>> /\ front = Screen[1]
  /\ saving = Empty /\ plan = Empty /\ starting = <<>> /\ settled = FALSE
  /\ cons = 0 /\ hands = 0

Hand == hands < MaxHands /\ hands' = hands + 1

-----------------------------------------------------------------------------
(* The user. *)

OpenWindow ==
  /\ Hand /\ cons < MaxCons /\ cons' = cons + 1
  /\ \E t \in Title, c \in BOOLEAN :
       desktop' = InTree(Append(desktop, [con |-> cons', space |-> front, title |-> t, cmd |-> c]))
  /\ settled' = FALSE
  /\ UNCHANGED <<front, saving, plan, starting>>

ChangeWindow ==
  /\ Hand
  /\ \E i \in DOMAIN desktop :
       \/ desktop' = RemoveAt(desktop, i)
       \/ \E s \in Spaces : desktop' = InTree([desktop EXCEPT ![i].space = s])
       \/ \E t \in Title : desktop' = [desktop EXCEPT ![i].title = t]
  /\ settled' = FALSE
  /\ UNCHANGED <<front, saving, plan, starting, cons>>

FocusSpace ==
  /\ Hand
  /\ front' \in Spaces
  /\ settled' = FALSE
  /\ UNCHANGED <<desktop, saving, plan, starting, cons>>

\* save_current(), capture_from_tree()
SaveSnapshot ==
  /\ Hand /\ plan = Empty
  /\ saving' = [windows |-> desktop, front |-> front]
  /\ settled' = (starting = <<>>)
  /\ UNCHANGED <<desktop, front, plan, starting, cons>>

\* delete_snapshot()
DeleteSnapshot ==
  /\ Hand /\ saving # Empty /\ plan = Empty
  /\ saving' = Empty /\ settled' = FALSE
  /\ UNCHANGED <<desktop, front, plan, starting, cons>>

-----------------------------------------------------------------------------
(* plan_restore() *)

\* Mutant: a window is matched again and again.
AnyMatch(s, live, used) ==
  LET titled == SelectInSeq(live, LAMBDA w : w.title = s.title)
  IN IF titled # 0 THEN titled ELSE SelectInSeq(live, LAMBDA w : w.con \notin used)

\* find_best_match(): the first unused window with the title, or else on the
\* workspace, or else any; 0 if there is none.
BestMatch(s, live, used) ==
  LET first(Test(_)) == SelectInSeq(live, LAMBDA w : w.con \notin used /\ Test(w))
      titled == first(LAMBDA w : w.title = s.title)
      there == first(LAMBDA w : w.space = s.space)
  IN IF titled # 0 THEN titled ELSE IF there # 0 THEN there ELSE first(LAMBDA w : TRUE)

Planned(p, s, live) ==
  LET i == BestMatch(s, live, p.used) IN
  IF i = 0
    THEN IF s.cmd THEN [p EXCEPT !.launches = Append(@, s)] ELSE [p EXCEPT !.skipped = @ + 1]
    ELSE [p EXCEPT !.used = @ \cup {live[i].con}, !.loose = @ \/ live[i].title # s.title,
                   !.moves = IF live[i].space = s.space THEN @
                             ELSE Append(@, [con |-> live[i].con, space |-> s.space])]

PlanFor(file, live) ==
  FoldLeft(LAMBDA p, s : Planned(p, s, live),
           [used |-> {}, moves |-> <<>>, launches |-> <<>>, skipped |-> 0, loose |-> FALSE, front |-> file.front],
           file.windows)

\* restore_snapshot(): the plan is made from one look at the tree...
BeginRestore ==
  /\ Hand /\ plan = Empty /\ saving # Empty
  /\ plan' = PlanFor(saving, desktop)
  /\ settled' = (/\ starting = <<>> /\ plan'.skipped = 0 /\ Cardinality(plan'.used) = Len(desktop)
                 /\ plan'.loose => plan'.launches = <<>>)
  /\ UNCHANGED <<desktop, front, saving, starting, cons>>

Moved(m) ==
  InTree([i \in DOMAIN desktop |->
    IF desktop[i].con = m.con THEN [desktop[i] EXCEPT !.space = m.space] ELSE desktop[i]])

\* ... and carried out command by command; one that fails is counted.
MoveWindow ==
  /\ plan # Empty /\ plan.moves # <<>>
  /\ \/ desktop' = Moved(Head(plan.moves)) /\ UNCHANGED settled
     \/ UNCHANGED desktop /\ settled' = FALSE
  /\ plan' = [plan EXCEPT !.moves = Tail(@)]
  /\ UNCHANGED <<front, saving, starting, cons, hands>>

\* "workspace ...; exec ...": one part may fail and not the other.  Sway answers once the
\* program is started.
Launch ==
  /\ plan # Empty /\ plan.moves = <<>> /\ plan.launches # <<>>
  /\ LET s == Head(plan.launches) IN
     /\ front' \in {front, s.space}
     /\ \/ starting' = Append(starting, s) /\ UNCHANGED settled
        \/ UNCHANGED starting /\ settled' = FALSE
  /\ plan' = [plan EXCEPT !.launches = Tail(@)]
  /\ UNCHANGED <<desktop, saving, cons, hands>>

\* A started program opens its window, with another title, elsewhere, or not at all.
ProgramShows ==
  /\ \E i \in DOMAIN starting :
       /\ starting' = RemoveAt(starting, i)
       /\ \/ /\ cons < MaxCons /\ cons' = cons + 1
             /\ \E t \in Title, at \in Spaces :
                  /\ desktop' = InTree(Append(desktop, [con |-> cons', space |-> at, title |-> t, cmd |-> TRUE]))
                  /\ settled' = (settled /\ t = starting[i].title /\ at = starting[i].space)
          \/ UNCHANGED <<desktop, cons>> /\ settled' = FALSE
  /\ UNCHANGED <<front, saving, plan, hands>>

FocusSaved ==
  /\ plan # Empty /\ plan.moves = <<>> /\ plan.launches = <<>>
  /\ \/ front' = plan.front /\ UNCHANGED settled
     \/ UNCHANGED front /\ settled' = FALSE
  /\ plan' = Empty
  /\ UNCHANGED <<desktop, saving, starting, cons, hands>>

SnapshotNext ==
  \/ OpenWindow \/ ChangeWindow \/ FocusSpace \/ SaveSnapshot \/ DeleteSnapshot
  \/ BeginRestore \/ MoveWindow \/ Launch \/ ProgramShows \/ FocusSaved

-----------------------------------------------------------------------------
(* Property. *)

\* The plan is "a no-op for an unchanged desktop", right after saving, and after a
\* restore whose commands all worked once the programs it started show: restoring
\* again moves nothing and starts nothing.  Before that it may move windows about,
\* and starts a program a second time, but none that shows already.  (Not so if a
\* saved window had to be skipped: it claims another's window the next time; nor if
\* there were windows the snapshot does not have: one with the right title on the
\* wrong workspace comes first; nor if one had to do for another title while a
\* program was started whose window bears that title.)  While it is carried out,
\* what it will start and what is there make up the saved windows, and no window is
\* moved twice.
RestoreSettles ==
  /\ settled /\ plan = Empty /\ saving # Empty =>
       LET again == PlanFor(saving, desktop) IN
       /\ front = saving.front
       /\ Len(again.launches) <= Len(starting)
       /\ starting = <<>> => again.moves = <<>>
  /\ plan # Empty =>
       /\ \A i, j \in DOMAIN plan.moves : plan.moves[i].con = plan.moves[j].con => i = j
       /\ settled => Len(desktop) + Len(starting) + Len(plan.launches) = Len(saving.windows)
=============================================================================
