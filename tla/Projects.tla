------------------------------- MODULE Projects -------------------------------
(***************************************************************************)
(* The project registry (levshell-projects): project files are upserted    *)
(* into the store and an index, at the start and whenever one changes; a   *)
(* stopwatch follows the focused workspace and books the time a project    *)
(* had.  The workspace watcher and the file watcher are two tasks that     *)
(* meet at the index, which each locks for one access at a time.           *)
(*                                                                         *)
(* Time passes only while no workspace event waits: events are taken to be *)
(* handled within the grain of the clock.                                  *)
(***************************************************************************)
EXTENDS Naturals, FiniteSets, Sequences

CONSTANTS
  Proj,       \* names of projects
  Space,      \* names of workspaces
  Sec,        \* grains of the clock in a second
  WsSlots,    \* of the registry's channel
  MaxHalf,    \* bound on the time that passes
  MaxDeeds,   \* bound on workspace switches and file changes
  Nobody

\* A file that declares no status leaves the row's.
Undeclared == "undeclared"
Status == {"active", "complete"}
File == [name : Proj, status : Status \cup {Undeclared}, spaces : SUBSET Space]
Entry == [status : Status, spaces : SUBSET Space, secs : Nat, spacesIn : SUBSET Space]
Stopwatch == [p : Proj, w : Space, since : Nat]

ASSUME RegistryAssumption ==
  /\ Sec \in Nat \ {0}
  /\ Nobody \notin Proj \cup Status \cup File \cup Entry \cup Stopwatch

VARIABLES
  prow,        \* projects table: the status per name, or Nobody
  entry,       \* by_id, by_name: per name an Entry, or Nobody
  watch,       \* FocusStopwatch::current, or Nobody
  wsEvents,    \* WorkspaceChanged events that wait for the registry
  follower,    \* the workspace watcher: where it stands
  loader,      \* the file watcher: where it stands
  boot,        \* the files read at the start and not registered yet
  measured,    \* history: per name, the time its stopwatch ran in closed intervals
  closings,    \* history: per name, how many intervals were closed
  crossed,     \* history: names whose run-time state changed while a reload held a copy
  fileOf,      \* history: per name, the file registered last
  half, deeds  \* counters for the bounds

registryVars == <<prow, entry, watch, wsEvents, follower, loader, boot, measured, closings, crossed, fileOf, half, deeds>>

Ready == [at |-> "idle"]

RegistryInit ==
  /\ prow = [p \in Proj |-> Nobody]
  /\ entry = prow
  /\ watch = Nobody /\ wsEvents = <<>> /\ follower = Ready /\ loader = Ready
  /\ boot = {[name |-> p, status |-> Undeclared, spaces |-> Space] : p \in Proj}
  /\ measured = [p \in Proj |-> 0] /\ closings = measured
  /\ crossed = {} /\ fileOf = prow
  /\ half = 0 /\ deeds = 0

Deed == deeds < MaxDeeds /\ deeds' = deeds + 1
Indexed == {p \in Proj : entry[p] # Nobody}

-----------------------------------------------------------------------------
(* upsert_from_file() *)

\* The first lines: the row of that name is updated, or inserted.
RowOf(f) ==
  IF f.status # Undeclared THEN f.status
  ELSE IF prow[f.name] = Nobody THEN "active" ELSE prow[f.name]

Upsert(f) ==
  /\ prow' = [prow EXCEPT ![f.name] = RowOf(f)]
  /\ loader' = [at |-> "copy", file |-> f, status |-> RowOf(f)]

\* load_from_dir(), before any task runs.
LoadFirst ==
  /\ loader = Ready /\ boot # {}
  /\ \E f \in boot : Upsert(f) /\ boot' = boot \ {f}
  /\ UNCHANGED <<entry, watch, wsEvents, follower, measured, closings, crossed, fileOf, half, deeds>>

\* spawn_watcher(): a file that cannot be parsed, or is gone, changes nothing.
ReloadFile ==
  /\ loader = Ready /\ boot = {} /\ Deed
  /\ \E f \in File : Upsert(f)
  /\ UNCHANGED <<entry, watch, wsEvents, follower, boot, measured, closings, crossed, fileOf, half>>

\* The run-time state is copied under the read lock...
CopyRuntime ==
  /\ loader.at = "copy"
  /\ LET p == loader.file.name IN
     loader' = [at |-> "store", file |-> loader.file,
                entry |-> [status |-> loader.status, spaces |-> loader.file.spaces,
                           secs |-> IF p \in Indexed THEN entry[p].secs ELSE 0,
                           spacesIn |-> IF p \in Indexed THEN entry[p].spacesIn ELSE {}]]
  /\ UNCHANGED <<prow, entry, watch, wsEvents, follower, boot, measured, closings, crossed, fileOf, half, deeds>>

\* ... and put back with the rest under the write lock.
StoreEntry ==
  /\ loader.at = "store"
  /\ entry' = [entry EXCEPT ![loader.file.name] = loader.entry]
  /\ fileOf' = [fileOf EXCEPT ![loader.file.name] = loader.file]
  /\ loader' = Ready
  /\ UNCHANGED <<prow, watch, wsEvents, follower, boot, measured, closings, crossed, half, deeds>>

-----------------------------------------------------------------------------
(* handle_workspace_change(), run by spawn_workspace_watcher() *)

\* find_by_workspace(): any of the projects that name w.
Owner(w) ==
  LET ps == {p \in Indexed : w \in entry[p].spaces} IN IF ps = {} THEN {Nobody} ELSE ps

\* The user focuses a workspace; the event is dropped if the channel is full.
SwitchTo ==
  /\ boot = {} /\ Deed
  /\ \E w \in Space : wsEvents' = IF Len(wsEvents) < WsSlots THEN Append(wsEvents, w) ELSE wsEvents
  /\ UNCHANGED <<prow, entry, watch, follower, loader, boot, measured, closings, crossed, fileOf, half>>

Resolve ==
  /\ follower = Ready /\ wsEvents # <<>>
  /\ wsEvents' = Tail(wsEvents)
  /\ \E p \in Owner(Head(wsEvents)) : follower' = [at |-> "stop", p |-> p, w |-> Head(wsEvents)]
  /\ UNCHANGED <<prow, entry, watch, loader, boot, measured, closings, crossed, fileOf, half, deeds>>

\* The stopwatch is taken.
StopWatch ==
  /\ follower.at = "stop"
  /\ watch' = Nobody
  /\ follower' = [at |-> "book", p |-> follower.p, w |-> follower.w, last |-> watch,
                  elapsed |-> IF watch = Nobody THEN 0 ELSE half - watch.since]
  /\ UNCHANGED <<prow, entry, wsEvents, loader, boot, measured, closings, crossed, fileOf, half, deeds>>

\* A reload that holds a copy of p's run-time state will undo what changes now.
Cross(p) == crossed' = IF loader.at = "store" /\ loader.file.name = p THEN crossed \cup {p} ELSE crossed

\* The time is booked in whole seconds and the workspace that was left struck out.
BookedTo(e, last, elapsed) ==
  [e EXCEPT !.secs = @ + elapsed \div Sec, !.spacesIn = @ \ {last.w}]

BookTime ==
  /\ follower.at = "book"
  /\ LET last == follower.last IN
     IF last = Nobody
       THEN UNCHANGED <<entry, measured, closings, crossed>>
       ELSE /\ entry' = [entry EXCEPT ![last.p] = BookedTo(@, last, follower.elapsed)]
            /\ measured' = [measured EXCEPT ![last.p] = @ + follower.elapsed]
            /\ closings' = [closings EXCEPT ![last.p] = @ + 1]
            /\ Cross(last.p)
  /\ follower' = IF follower.p = Nobody THEN Ready
                 ELSE [at |-> "enter", p |-> follower.p, w |-> follower.w]
  /\ UNCHANGED <<prow, watch, wsEvents, loader, boot, fileOf, half, deeds>>

\* Mutant: the workspace is not put down with the project that is entered.
EnterUnlisted ==
  /\ follower.at = "enter"
  /\ watch' = [p |-> follower.p, w |-> follower.w, since |-> half]
  /\ follower' = Ready
  /\ UNCHANGED <<prow, entry, wsEvents, loader, boot, measured, closings, crossed, fileOf, half, deeds>>

\* The project that is entered, and its stopwatch.
EnterProject ==
  /\ follower.at = "enter"
  /\ entry' = [entry EXCEPT ![follower.p].spacesIn = @ \cup {follower.w}]
  /\ watch' = [p |-> follower.p, w |-> follower.w, since |-> half]
  /\ Cross(follower.p)
  /\ follower' = Ready
  /\ UNCHANGED <<prow, wsEvents, loader, boot, measured, closings, fileOf, half, deeds>>

HalfSecond ==
  /\ half < MaxHalf /\ half' = half + 1
  /\ follower = Ready /\ wsEvents = <<>>
  /\ UNCHANGED <<prow, entry, watch, wsEvents, follower, loader, boot, measured, closings, crossed, fileOf, deeds>>

RegistryNext ==
  \/ LoadFirst \/ ReloadFile \/ CopyRuntime \/ StoreEntry
  \/ SwitchTo \/ Resolve \/ StopWatch \/ BookTime \/ EnterProject
  \/ HalfSecond

RegistrySpec == RegistryInit /\ [][RegistryNext]_registryVars

-----------------------------------------------------------------------------
(* Property. *)

\* "editing projects/foo.toml shouldn't reset the focus counter": unless a
\* reload held a copy of its run-time state at that moment, a project loses less
\* than a second of each interval its stopwatch ran, however often its file
\* changes; nobody ever gains any.  Between two workspace events, and with the
\* same exception, the active workspaces of a project are the one its stopwatch
\* runs for.  The index has the workspaces and status of the file read last.
FocusTimeKept ==
  /\ \A p \in Indexed :
       /\ Sec * entry[p].secs <= measured[p]
       /\ p \notin crossed => measured[p] - Sec * entry[p].secs <= (Sec - 1) * closings[p]
       /\ p \notin crossed /\ follower = Ready =>
            entry[p].spacesIn = IF watch # Nobody /\ watch.p = p THEN {watch.w} ELSE {}
  /\ \A p \in Proj : fileOf[p] # Nobody =>
       /\ entry[p].spaces = fileOf[p].spaces
       /\ fileOf[p].status \in {Undeclared, entry[p].status}
=============================================================================
