-------------------------------- MODULE Feeds --------------------------------
(***************************************************************************)
(* Modules that watch something and keep a widget up to date               *)
(* (levshell-modules): new papers on arXiv (arxiv_watch.rs), LaTeX builds  *)
(* (latex_status.rs), the processes that use most (proc_sniper), and the   *)
(* reference library read from the store (reference_library.rs).  They     *)
(* share nothing: each has a next-state relation of its own.               *)
(***************************************************************************)
EXTENDS Naturals, SequencesExt, FiniteSets

CONSTANTS
  MaxPapers, MaxVersions, \* bounds on the matching papers that are submitted, and on the versions of each
  Window,       \* max_results of the query
  MaxSeen,      \* of SeenSet
  Dir,          \* directories with LaTeX documents
  ResultTicks,
  Pid,
  Ref, Note,    \* rows of the store
  RecentRefs,       \* references whose links are looked up
  Torn,         \* a file cut short, a build or a value that is not there
  MaxFeeds      \* bound on the steps of the world

\* What a paper is known by: its number with its version.
Id == [paper : 1..MaxPapers, version : 1..MaxVersions]

\* An id is not forgotten while its paper is in the window only if the set holds it and all
\* versions of what may share the window with it; it holds 2000 and the window is 20 unless configured.
ASSUME FeedsAssumption ==
  /\ {MaxPapers, MaxSeen} \subseteq Nat /\ {Window, MaxVersions} \subseteq Nat \ {0}
  /\ (2 * Window - 2) * MaxVersions + 1 <= MaxSeen
  /\ ResultTicks \in Nat \ {0}
  /\ IsFiniteSet(Note)
  /\ Torn \notin Seq(Id) /\ Torn \notin [Pid -> Nat \cup {Torn}] /\ Torn \notin Nat \cup BOOLEAN \cup Dir

VARIABLES
  papers,       \* how many have been submitted, the newest last (the world)
  version,      \* per paper: its newest version (the world)
  seen, lastNew, \* ArxivWatchModule: SeenSet::order, last_new
  seenFile,     \* arxiv_seen.json, or Torn
  shownPapers,  \* the badge
  announcedAs,  \* history: per id, how often it was announced as new
  unwritten,    \* history: the ids seen since the last write of the file that worked
  lostIds,      \* history: the ids a restart did not find in the file for that, or because it was cut short
  builds,       \* per directory: the outcome the engine there will have, or Torn (the world)
  logs,         \* per directory: whether the newest log has an error (the world)
  latexPhase, tracked, ttl, \* LatexStatusModule
  probed,       \* the scan that tick awaits, its outcome Torn until the log is read; or Torn
  resultOf,     \* history: the directory whose build the last result is of
  rebuilt,      \* history: the directories with a build since a log was last read
  logUnread,    \* history: no log was read for the last result
  jiffies,      \* per pid: CPU time of its process, or Torn (the world)
  spent,        \* history: per pid, CPU time in the gap between the two samples
  firstSample,  \* ProcessSniperModule: the sample the gap began with, or Torn
  listed,       \* the list shown: pid and difference
  shelf, edges, \* references and their links to notes (the world)
  reading,      \* ReferenceLibraryModule::refresh: the rows still to be looked up, or Torn
  rows,         \* its rows so far
  library,      \* the widget's rows
  happened

paperVars == <<papers, version, seen, lastNew, seenFile, shownPapers, announcedAs, unwritten, lostIds>>
latexVars == <<builds, logs, latexPhase, tracked, ttl, probed, resultOf, rebuilt, logUnread>>
sniperVars == <<jiffies, spent, firstSample, listed>>
libraryVars == <<shelf, edges, reading, rows, library>>
feedVars == <<paperVars, latexVars, sniperVars, libraryVars, happened>>

FeedsInit ==
  /\ papers = 0 /\ version = [p \in 1..MaxPapers |-> 1]
  /\ seen = <<>> /\ lastNew = {} /\ seenFile = <<>> /\ shownPapers = {}
  /\ announcedAs = [x \in Id |-> 0] /\ unwritten = {} /\ lostIds = {}
  /\ builds = [d \in Dir |-> Torn] /\ logs = [d \in Dir |-> FALSE]
  /\ latexPhase = "idle" /\ tracked = Torn /\ ttl = 0 /\ probed = Torn
  /\ resultOf \in Dir /\ rebuilt = {} /\ logUnread = FALSE
  /\ jiffies = [p \in Pid |-> 0] /\ spent = [p \in Pid |-> 0] /\ firstSample = Torn /\ listed = {}
  /\ shelf = Ref /\ edges = Ref \X Note \X {"cites", "scaffolds"}
  /\ reading = Torn /\ rows = {} /\ library = {}
  /\ happened = 0

Happens == happened < MaxFeeds /\ happened' = happened + 1

-----------------------------------------------------------------------------
(* arXiv *)

\* fetch(), parse_atom(): the newest matching papers, newest first, each in its newest version.
Entry(p) == [paper |-> p, version |-> version[p]]
Feed == [i \in 1..(IF papers < Window THEN papers ELSE Window) |-> Entry(papers + 1 - i)]

\* Those of the feed that are not in the set, in its order.
NewPapers == FlattenSeq([i \in DOMAIN Feed |-> IF Feed[i] \notin ToSet(seen) THEN <<Feed[i]>> ELSE <<>>])

\* SeenSet::insert one after the other, with eviction from the front.
Remember(s, fresh) ==
  LET all == s \o fresh IN SubSeq(all, IF Len(all) > MaxSeen THEN Len(all) - MaxSeen + 1 ELSE 1, Len(all))

\* Mutant: only the last batch is written down.
PersistBatch(fresh) == seenFile' = fresh

\* persist_seen(): the whole list.
Persist(fresh) == seenFile' = Remember(seen, fresh)

\* poll(): what is fresh takes the place of the last batch; the write may fail unnoticed.
Poll ==
  /\ seen' = Remember(seen, NewPapers)
  /\ announcedAs' = [x \in Id |-> announcedAs[x] + IF x \in ToSet(NewPapers) THEN 1 ELSE 0]
  /\ lastNew' = IF NewPapers # <<>> THEN ToSet(NewPapers) ELSE lastNew
  /\ shownPapers' = lastNew'
  /\ \/ NewPapers # <<>> /\ Persist(NewPapers) /\ unwritten' = {}
     \/ NewPapers # <<>> /\ UNCHANGED seenFile /\ unwritten' = unwritten \cup ToSet(NewPapers)
     \/ NewPapers = <<>> /\ UNCHANGED <<seenFile, unwritten>>
  /\ UNCHANGED <<papers, version, lostIds, latexVars, sniperVars, libraryVars, happened>>

\* on_event("ack"): whatever there is counts as looked at.
Acknowledge ==
  /\ Happens
  /\ lastNew' = {} /\ shownPapers' = {}
  /\ UNCHANGED <<papers, version, seen, seenFile, announcedAs, unwritten, lostIds, latexVars, sniperVars, libraryVars>>

\* The daemon restarts: only the file survives, and one cut short is no file.
RestartFeeds ==
  /\ Happens
  /\ \/ UNCHANGED seenFile /\ lostIds' = lostIds \cup unwritten
     \/ seenFile # <<>> /\ seenFile' = Torn /\ lostIds' = lostIds \cup ToSet(seen)
  /\ unwritten' = {}
  /\ seen' = IF seenFile' = Torn THEN <<>> ELSE seenFile'
  /\ lastNew' = {} /\ shownPapers' = {}
  /\ UNCHANGED <<papers, version, announcedAs, latexVars, sniperVars, libraryVars>>

Submit ==
  /\ papers < MaxPapers /\ papers' = papers + 1
  /\ UNCHANGED <<version, seen, lastNew, seenFile, shownPapers, announcedAs, unwritten, lostIds, latexVars, sniperVars,
                 libraryVars, happened>>

\* The authors replace a paper: it keeps its place in the feed and gets another id.
Revise ==
  /\ Happens
  /\ \E p \in 1..papers : version[p] < MaxVersions /\ version' = [version EXCEPT ![p] = @ + 1]
  /\ UNCHANGED <<papers, seen, lastNew, seenFile, shownPapers, announcedAs, unwritten, lostIds, latexVars, sniperVars,
                 libraryVars>>

ArxivNext == Poll \/ Acknowledge \/ RestartFeeds \/ Submit \/ Revise

-----------------------------------------------------------------------------
(* LaTeX *)

Engines == {d \in Dir : builds[d] # Torn}

\* probe(): an engine that runs, or else how the one that was tracked ended, which its log tells.
Scan ==
  /\ probed = Torn
  /\ \/ \E d \in Engines : probed' = [engine |-> d, failed |-> FALSE]
     \/ Engines = {} /\ probed' = [engine |-> Torn, failed |-> Torn]
  /\ UNCHANGED <<builds, logs, latexPhase, tracked, ttl, resultOf, rebuilt, logUnread, paperVars, sniperVars,
                 libraryVars, happened>>

ReadLog ==
  /\ probed # Torn /\ probed.failed = Torn
  /\ probed' = [probed EXCEPT !.failed = IF tracked = Torn THEN FALSE ELSE logs[tracked]]
  /\ rebuilt' = IF tracked = Torn THEN rebuilt ELSE {}
  /\ logUnread' = (logUnread /\ tracked = Torn)
  /\ UNCHANGED <<builds, logs, latexPhase, tracked, ttl, resultOf, paperVars, sniperVars, libraryVars, happened>>

\* The log is not there, or the thread that scans dies: the default Probe, which is that of a build
\* that ended without an error.
ScanFails ==
  /\ probed # Torn => probed.failed = Torn
  /\ probed' = [engine |-> Torn, failed |-> FALSE]
  /\ logUnread' = (logUnread \/ tracked # Torn)
  /\ UNCHANGED <<builds, logs, latexPhase, tracked, ttl, resultOf, rebuilt, paperVars, sniperVars, libraryVars, happened>>

\* apply(), when no engine runs any more.
Ends ==
  /\ tracked # Torn /\ tracked' = Torn
  /\ latexPhase' = IF probed.failed THEN "error" ELSE "success"
  /\ ttl' = ResultTicks /\ resultOf' = tracked

\* apply(), as long as the result is shown.
Fades ==
  /\ tracked = Torn /\ UNCHANGED <<tracked, resultOf>>
  /\ IF latexPhase \in {"success", "error"}
     THEN /\ ttl' = ttl - 1
          /\ latexPhase' = IF ttl' = 0 THEN "idle" ELSE latexPhase
     ELSE UNCHANGED <<ttl, latexPhase>>

\* apply(), when an engine runs, be it the same or the next.
Compiles ==
  /\ tracked' = probed.engine /\ latexPhase' = "compiling" /\ UNCHANGED <<ttl, resultOf>>

Apply ==
  /\ probed # Torn /\ probed.failed # Torn /\ probed' = Torn
  /\ \/ probed.engine # Torn /\ Compiles
     \/ probed.engine = Torn /\ (Ends \/ Fades)
  /\ UNCHANGED <<builds, logs, rebuilt, logUnread, paperVars, sniperVars, libraryVars, happened>>

\* An engine starts with a new log, and leaves it when it ends.
BuildsChange ==
  /\ Happens
  /\ \E d \in Dir :
       /\ rebuilt' = rebuilt \cup {d}
       /\ \/ /\ builds[d] = Torn
             /\ \E outcome \in BOOLEAN : builds' = [builds EXCEPT ![d] = outcome]
             /\ logs' = [logs EXCEPT ![d] = FALSE]
          \/ builds[d] # Torn /\ logs' = [logs EXCEPT ![d] = ~builds[d]] /\ builds' = [builds EXCEPT ![d] = Torn]
  /\ UNCHANGED <<latexPhase, tracked, ttl, probed, resultOf, logUnread, paperVars, sniperVars, libraryVars>>

LatexNext == Scan \/ ReadLog \/ ScanFails \/ Apply \/ BuildsChange

-----------------------------------------------------------------------------
(* The process list *)

\* publish_top(): one sample, and after a gap another.
FirstSample ==
  /\ firstSample = Torn /\ firstSample' = jiffies /\ spent' = [p \in Pid |-> 0]
  /\ UNCHANGED <<jiffies, listed, paperVars, latexVars, libraryVars, happened>>

\* A pid that was not there before has used nothing; one that was taken over may show less.
UsedSince(p) ==
  LET j0 == IF firstSample[p] = Torn THEN jiffies[p] ELSE firstSample[p]
  IN  IF jiffies[p] > j0 THEN jiffies[p] - j0 ELSE 0

SecondSample ==
  /\ firstSample # Torn /\ firstSample' = Torn
  /\ listed' = {<<p, UsedSince(p)>> : p \in {q \in Pid : jiffies[q] # Torn}}
  /\ UNCHANGED <<jiffies, spent, paperVars, latexVars, libraryVars, happened>>

\* kill(): the user names a pid of the list; who has it now is signalled.
KillListed ==
  /\ Happens
  /\ \E row \in listed :
       /\ jiffies[row[1]] # Torn /\ jiffies' = [jiffies EXCEPT ![row[1]] = Torn]
  /\ UNCHANGED <<spent, firstSample, listed, paperVars, latexVars, libraryVars>>

ProcessesChange ==
  /\ Happens
  /\ \E p \in Pid :
       \/ /\ jiffies[p] # Torn
          /\ jiffies' = [jiffies EXCEPT ![p] = @ + 1]
          /\ spent' = [spent EXCEPT ![p] = IF firstSample = Torn THEN @ ELSE @ + 1]
       \/ jiffies[p] # Torn /\ jiffies' = [jiffies EXCEPT ![p] = Torn] /\ UNCHANGED spent
       \/ jiffies[p] = Torn /\ jiffies' = [jiffies EXCEPT ![p] = 0] /\ UNCHANGED spent
  /\ UNCHANGED <<firstSample, listed, paperVars, latexVars, libraryVars>>

SniperNext == FirstSample \/ SecondSample \/ KillListed \/ ProcessesChange

-----------------------------------------------------------------------------
(* The reference library *)

\* related_entities(), with one entry per edge; the notes among them are counted once each.
LinkedNotes(r) == {e[2] : e \in {f \in edges : f[1] = r}}

\* refresh(): the references are listed first, the links of those touched last looked up one by one.
BeginRefresh ==
  /\ reading = Torn /\ rows' = {}
  /\ reading' \in {s \in SUBSET shelf : Cardinality(s) = IF Cardinality(shelf) < RecentRefs THEN Cardinality(shelf) ELSE RecentRefs}
  /\ UNCHANGED <<shelf, edges, library, paperVars, latexVars, sniperVars, happened>>

\* A look-up that fails counts none.
LookUp ==
  /\ reading # Torn
  /\ \E r \in reading :
       /\ reading' = reading \ {r}
       /\ \E linked \in {Cardinality(LinkedNotes(r)), 0} : rows' = rows \cup {[ref |-> r, linked |-> linked]}
  /\ UNCHANGED <<shelf, edges, library, paperVars, latexVars, sniperVars, happened>>

PublishLibrary ==
  /\ reading = {} /\ reading' = Torn /\ library' = rows
  /\ UNCHANGED <<shelf, edges, rows, paperVars, latexVars, sniperVars, happened>>

ShelfChanges ==
  /\ Happens
  /\ \/ \E r \in shelf : shelf' = shelf \ {r} /\ edges' = {e \in edges : e[1] # r}
     \/ \E e \in edges : edges' = edges \ {e} /\ UNCHANGED shelf
     \/ \E r \in Ref \ shelf : shelf' = shelf \cup {r} /\ UNCHANGED edges
  /\ UNCHANGED <<reading, rows, library, paperVars, latexVars, sniperVars>>

LibraryNext == BeginRefresh \/ LookUp \/ PublishLibrary \/ ShelfChanges

FeedsSpec == FeedsInit /\ [][ArxivNext \/ LatexNext \/ SniperNext \/ LibraryNext]_feedVars

-----------------------------------------------------------------------------
(* Properties *)

\* No version of a paper is announced twice, restarts and later versions included, unless a restart
\* lost it, because no write had worked since it was seen or the file was cut short: neither
\* acknowledging, nor a later batch, nor the cap brings it back, nor a write that failed before one
\* that worked.
AnnouncedOnce == \A x \in Id \ lostIds : announcedAs[x] <= 1

\* A build is shown as under way exactly as long as one is tracked, so a result replaces it at
\* the next scan without an engine and goes away after its ticks: no widget hangs in "compiling".
\* The result is what the log of that directory says, unless none was read or there was a build
\* since.
BuildIsReported ==
  /\ (tracked # Torn) = (latexPhase = "compiling")
  /\ latexPhase \in {"success", "error"} =>
       /\ ttl \in 1..ResultTicks
       /\ resultOf \notin rebuilt /\ ~logUnread => (latexPhase = "error") = logs[resultOf]

\* A process is never charged more than was used under its pid between the two samples, taken
\* over or new as it may be.
ChargedFairly == firstSample = Torn => \A row \in listed : row[2] <= spent[row[1]]

\* A note that is linked in several ways counts once.
LinksCountedOnce == \A row \in library : row.linked <= Cardinality(Note)

\* Versions of papers are announced once, builds with the result their log has, CPU time charged
\* to who spent it, and links counted once.
FeedsTold == AnnouncedOnce /\ BuildIsReported /\ ChargedFairly /\ LinksCountedOnce

=============================================================================
