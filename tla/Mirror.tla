-------------------------------- MODULE Mirror --------------------------------
(***************************************************************************)
(* The import-only sync adapters of levshell-sync (CalDAV, Zotero,         *)
(* AnkiConnect, MLflow, Weights & Biases) and the store they fill.  A pass *)
(* reads the source, walks its items in order and then removes what it did *)
(* not meet; every call of the store is a step, and the engine's timeout   *)
(* or a shutdown may cancel the pass between any two.  The source changes, *)
(* servers go away, configuration is reloaded and the user attaches rows   *)
(* to projects while it runs.                                              *)
(*                                                                         *)
(* One adapter is looked at at a time: the engine runs each in a task of   *)
(* its own, and each touches the rows of its own provider only.  A         *)
(* calendar, a library, a deck and a tracker's project are a "collection". *)
(***************************************************************************)
EXTENDS Store

CONSTANTS
  ListingOrder,    \* the order in which a source lists its items
  Bbt,             \* citation keys that users give to Zotero items
  CollectionOf,    \* per external id
  Annotated,       \* external ids of Zotero items with annotations
  Overridden,      \* of .ics files with a second VEVENT of the same UID
  MaxEdits,        \* bound on changes of the source and attachments
  MaxFaults,       \* bound on outages, reloads and cancelled passes
  MaxBoth          \* bound on the two together

ASSUME MirrorAssumption ==
  /\ Ext \subseteq Nat /\ IsFiniteSet(Ext) /\ Id \subseteq Nat
  /\ Ext \cap Bbt = {} /\ Key = Ext \cup Bbt
  /\ DOMAIN CollectionOf = Ext /\ Annotated \cup Overridden \subseteq Ext
  /\ ListingOrder \in Seq(Ext) /\ ToSet(ListingOrder) = Ext /\ IsInjective(ListingOrder)
  /\ {1, 2, 3} \subseteq Id /\ MaxEdits \in Nat /\ MaxFaults \in Nat /\ MaxBoth \in Nat /\ 0..MaxEdits \subseteq Body
  /\ None \notin Id \cup Key
  /\ Provider \subseteq {"caldav", "zotero", "ankiconnect", "mlflow", "wandb"}

Collection == {CollectionOf[x] : x \in Ext}

VARIABLES
  adapter,   \* the one looked at
  source,    \* per external id: what the source holds, or None
  down,      \* collections that do not answer
  config,    \* enabled, the collections wanted, and those with a client
  db,        \* the store
  fresh,     \* the next id
  pass,      \* the running sync(), or None
  edits, faults, cancels, \* counters for the bounds
  clash      \* history: some Zotero key was claimed by a second item or row

world == <<adapter, source, down, config>>
bounds == <<edits, faults, cancels, clash>>
vars == <<world, db, fresh, pass, bounds>>

\* ver counts all changes of the content, mark those the change marker covers.
\* bad: cannot be fetched or parsed (CalDAV), is suspended or buried (Anki).
Item == [ver : Body, mark : Body, key : Key \cup {None}, bad : BOOLEAN]

Entry == [ext : Ext, ver : Body, mark : Body, key : Key \cup {None}, bad : BOOLEAN]
Call == {"tags", "note", "refresh", "draft", "edge", "metrics", "meta", "clear"}
Job == [ext : Ext, id : Id, project : OptId, note : OptId, ver : Body, mark : Body,
        next : Seq(Call)]
Pass ==
  [unlisted : SUBSET Collection, todo : Seq(Entry), left : UNION {[S -> Id] : S \in SUBSET Ext},
   claimed : SUBSET Key, job : Job \cup {None}, clean : BOOLEAN]

ASSUME RecordAssumption == None \notin Job /\ None \notin Pass

TypeOK ==
  /\ adapter \in Provider
  /\ source \in [Ext -> Item \cup {None}] /\ down \subseteq Collection
  /\ config.enabled \in BOOLEAN /\ config.built \subseteq config.wanted
  /\ config.wanted \subseteq Collection
  /\ \A id \in DOMAIN db.row : id \in Id /\ id < fresh /\ db.row[id] \in Row
  /\ \A id \in DOMAIN db.meta : db.meta[id] \in SyncMetadata
  /\ db.edge \subseteq Relation /\ DOMAIN db.tag \subseteq Id
  /\ Consistent(db)
  /\ pass # None => pass \in Pass
  /\ edits \in 0..MaxEdits /\ faults \in 0..MaxFaults /\ cancels \in 0..faults

TableOf ==
  [caldav |-> "event", zotero |-> "ref", ankiconnect |-> "flashcard",
   mlflow |-> "experiment", wandb |-> "experiment"]

Tracker == {"mlflow", "wandb"}   \* these never delete, and read their
                                 \* configuration once, when they are built
project == 1   \* the row of the project in a tracker's configuration
native == 2    \* a row no adapter made: the user's task or reference

NativeRows ==
  IF adapter = "zotero" THEN {NewReference(0, k) : k \in Key}
                        ELSE {[table |-> "task", body |-> 0, project |-> None]}

Init ==
  /\ adapter \in Provider
  /\ source = [x \in Ext |-> None] /\ down = {}
  /\ config = [enabled |-> TRUE, wanted |-> Collection, built |-> Collection]
  /\ \E known \in IF adapter \in Tracker THEN BOOLEAN ELSE {TRUE}, r \in NativeRows :
       LET p == IF known THEN Insert(Empty, project, NewProject(0)) ELSE Empty
       IN db = Insert(p, native, r)
  /\ fresh = 3 /\ pass = None
  /\ edits = 0 /\ faults = 0 /\ cancels = 0 /\ clash = FALSE

-----------------------------------------------------------------------------
(* The world. *)

ImageOf(x) ==
  {id \in DOMAIN db.meta : db.meta[id].ext = x}
    \cup (IF pass = None \/ pass.job = None \/ pass.job.ext # x THEN {} ELSE {pass.job.id})

\* A second item or another row has this citation key.
Claimed(x, k) ==
  \/ \E y \in Ext \ {x} : source[y] # None /\ source[y].key = k
  \/ \E id \in Rows(db, "ref") \ ImageOf(x) : db.row[id].citekey = k

Edited == edits < MaxEdits /\ edits + faults < MaxBoth /\ edits' = edits + 1
Disturbed == pass' = IF pass = None THEN None ELSE [pass EXCEPT !.clean = FALSE]

\* What an adapter compares does not cover all of an item: not the metrics a running
\* MLflow run logs, a W&B run's name, commit or summary, the attachments and
\* annotations of a Zotero item, the tags of a card's note.
Unmarked == {"mlflow", "wandb", "zotero", "ankiconnect"}

\* An item appears or changes, in a way its marker shows or not.
Change(x) ==
  /\ Edited
  /\ \E k \in IF adapter = "zotero" THEN {None} \cup Bbt ELSE {None},
        b \in IF adapter \in {"caldav", "ankiconnect"} THEN BOOLEAN ELSE {FALSE},
        quiet \in IF adapter \in Unmarked /\ source[x] # None THEN BOOLEAN ELSE {FALSE} :
       /\ source' = [source EXCEPT ![x] =
            [ver |-> edits', mark |-> IF quiet THEN @.mark ELSE edits', key |-> k, bad |-> b]]
       /\ clash' = (clash \/ (adapter = "zotero" /\ (Claimed(x, k) \/ Claimed(x, x))))
  /\ Disturbed
  /\ UNCHANGED <<adapter, down, config, db, fresh, faults, cancels>>

Vanish(x) ==
  /\ source[x] # None
  /\ Edited
  /\ source' = [source EXCEPT ![x] = None]
  /\ Disturbed
  /\ UNCHANGED <<adapter, down, config, db, fresh, faults, cancels, clash>>

Fault == faults < MaxFaults /\ edits + faults < MaxBoth /\ faults' = faults + 1

Outage(c) ==
  /\ c \notin down
  /\ Fault
  /\ down' = down \cup {c}
  /\ UNCHANGED <<adapter, source, config, db, fresh, pass, edits, cancels, clash>>

Recovery(c) ==
  /\ c \in down
  /\ down' = down \ {c}
  /\ UNCHANGED <<adapter, source, config, db, fresh, pass, bounds>>

\* attach() and detach(): one column of one row, by the table it is in.
SetEntityProject(id, p) ==
  LET t == db.row[id].table
      link == [project |-> p]
  IN Update(db, id, CASE t = "note" -> NotePatch(link)
                      [] t = "ref" -> ReferencePatch(link)
                      [] t = "flashcard" -> FlashcardPatch(link)
                      [] t = "event" -> EventPatch(link)
                      [] t = "task" -> TaskPatch(link))

Attach(id) ==
  /\ Edited
  /\ Exists(db, id) /\ Exists(db, project)
  /\ db.row[id].table \notin {"project", "experiment"}
  /\ \E p \in {project, None} : db' = SetEntityProject(id, p)
  /\ UNCHANGED <<world, fresh, pass, faults, cancels, clash>>

-----------------------------------------------------------------------------
(* Configuration, as the adapters' watchers apply it. *)

Enabled(w, b) == [enabled |-> TRUE, wanted |-> w, built |-> b]
Disabled == [config EXCEPT !.enabled = FALSE]

\* A calendar whose password cannot be resolved gets no client and is left out.
BuildCalendars(w) == {Enabled(w, b) : b \in SUBSET w}

CaldavReload == (UNION {BuildCalendars(w) : w \in SUBSET Collection}) \cup {Disabled}

\* library_ids; an empty list is every library.
ZoteroReload == {Enabled(w, w) : w \in SUBSET Collection \ {{}}} \cup {Disabled}

\* deck_filter, a query that may find nothing.
AnkiReload == {Enabled(w, w) : w \in SUBSET Collection} \cup {Disabled}

\* A file that cannot be parsed changes nothing; removing it disables the adapter.
Reload ==
  /\ adapter \notin Tracker
  /\ Fault /\ Disturbed
  /\ config' \in CASE adapter = "caldav" -> CaldavReload
                   [] adapter = "zotero" -> ZoteroReload
                   [] adapter = "ankiconnect" -> AnkiReload
  /\ UNCHANGED <<adapter, source, down, db, fresh, edits, cancels, clash>>

-----------------------------------------------------------------------------
(* Reading the source. *)

EntryOf(x) ==
  [ext |-> x, ver |-> source[x].ver, mark |-> source[x].mark, key |-> source[x].key, bad |-> source[x].bad]

\* The present items of some collections, in the order of the listing.
Listed(cols) ==
  FlattenSeq([i \in DOMAIN ListingOrder |->
    LET x == ListingOrder[i]
    IN IF source[x] # None /\ CollectionOf[x] \in cols THEN <<EntryOf(x)>> ELSE <<>>])

\* One server or file holds all collections but for CalDAV.
Reachable == down = {}

\* PROPFIND: the collection itself and entries without an ETag are left out.
ListEntries(c) == IF c \in down THEN None ELSE Listed({c})

\* GET: what it returns may be newer than the ETag of the listing, or gone.
FetchIcs(e) ==
  IF source[e.ext] = None \/ CollectionOf[e.ext] \in down \/ source[e.ext].bad
    THEN [e EXCEPT !.bad = TRUE]
    ELSE [e EXCEPT !.ver = source[e.ext].ver, !.bad = FALSE]

\* A recurring event's .ics holds its base and an override under one UID.
Translate(entries) ==
  FlattenSeq([i \in 1..Len(entries) |->
    IF entries[i].ext \in Overridden THEN <<entries[i], entries[i]>> ELSE <<entries[i]>>])

CaldavProbe == config.enabled /\ \E c \in config.built : ListEntries(c) # None
ZoteroProbe == config.enabled /\ Reachable   \* the file is there
AnkiProbe == config.enabled /\ Reachable     \* and speaks version 6
MlflowProbe == config.enabled /\ Reachable
WandbProbe == config.enabled /\ Reachable

\* read_items(), less the libraries that are not wanted.
ZoteroRead == Listed(config.wanted)
\* find_cards() and cards_info(), in batches.
AnkiRead == Listed(config.wanted)
\* search_runs() and fetch_runs(): one page of the newest.
MlflowRead == Listed(config.wanted)
WandbRead == Listed(config.wanted)

Start(unlisted, todo) ==
  pass' = [unlisted |-> unlisted, todo |-> todo, left |-> MetaOf(db, adapter),
           claimed |-> {}, job |-> None, clean |-> config.built = config.wanted]

\* sync() up to its loop, after a probe() that found the source healthy.
Begin ==
  /\ pass = None
  /\ \/ adapter = "caldav" /\ CaldavProbe /\ Start(config.built, <<>>)
     \/ adapter = "zotero" /\ ZoteroProbe /\ Start({}, ZoteroRead)
     \/ adapter = "ankiconnect" /\ AnkiProbe /\ Start({}, AnkiRead)
     \/ adapter = "mlflow" /\ MlflowProbe /\ Start({}, MlflowRead)
     \/ adapter = "wandb" /\ WandbProbe /\ Start({}, WandbRead)
  /\ UNCHANGED <<world, db, fresh, bounds>>

Free == pass # None /\ pass.job = None

\* CalDAV lists one calendar after the other; one that fails is skipped.
ListCalendar ==
  /\ Free /\ pass.todo = <<>>
  /\ \E c \in pass.unlisted :
       LET entries == ListEntries(c) IN
         pass' = [pass EXCEPT !.unlisted = @ \ {c},
                              !.todo = IF entries = None THEN <<>> ELSE Translate(entries),
                              !.clean = @ /\ entries # None]
  /\ UNCHANGED <<world, db, fresh, bounds>>

-----------------------------------------------------------------------------
(* What each adapter writes for an item: the row or patch, and the calls    *)
(* of the store that follow it, in their order.                             *)

CaldavInsert(e) == [row |-> NewEvent(e.ver), next |-> <<"meta">>]
CaldavUpdate(e) == [row |-> EventPatch([body |-> e.ver]), next |-> <<"meta">>]

\* build_payload(): a key that is taken already yields to the item's own.
Citekey(e) == IF e.key = None \/ e.key \in pass.claimed THEN e.ext ELSE e.key

\* An item with annotations gets a literature note; without them there is no call.
ScaffoldCalls(e) == IF e.ext \in Annotated THEN <<"note">> ELSE <<>>

\* Mutant: the tags are written last, and the metadata never.
ZoteroInsertForgetful(e) ==
  [row |-> NewReference(e.ver, Citekey(e)), next |-> ScaffoldCalls(e) \o <<"tags">>]

ZoteroInsert(e) ==
  [row |-> NewReference(e.ver, Citekey(e)),
   next |-> <<"tags">> \o ScaffoldCalls(e) \o <<"meta">>]
ZoteroUpdate(e) ==
  [row |-> ReferencePatch([body |-> e.ver, citekey |-> Citekey(e)]),
   next |-> <<"tags">> \o ScaffoldCalls(e) \o <<"meta">>]

AnkiInsert(e) == [row |-> NewFlashcard(e.ver), next |-> <<"tags", "meta">>]
AnkiUpdate(e) == [row |-> FlashcardPatch([body |-> e.ver]), next |-> <<"tags", "meta">>]

\* Metrics and times of a new run need an update of their own.
TrackerInsert == [row |-> NewExperiment(project), next |-> <<"metrics", "meta">>]
MlflowUpdate(e) == [row |-> ExperimentPatch([body |-> e.ver]), next |-> <<"meta">>]
WandbUpdate(e) == [row |-> ExperimentPatch([body |-> e.ver]), next |-> <<"meta">>]

Insertion(e) ==
  CASE adapter = "caldav" -> CaldavInsert(e)
    [] adapter = "zotero" -> ZoteroInsert(e)
    [] adapter = "ankiconnect" -> AnkiInsert(e)
    [] adapter \in Tracker -> TrackerInsert

Revision(e) ==
  CASE adapter = "caldav" -> CaldavUpdate(e)
    [] adapter = "zotero" -> ZoteroUpdate(e)
    [] adapter = "ankiconnect" -> AnkiUpdate(e)
    [] adapter = "mlflow" -> MlflowUpdate(e)
    [] adapter = "wandb" -> WandbUpdate(e)

-----------------------------------------------------------------------------
(* Applying one item. *)

JobFor(e, id, p, next) ==
  [ext |-> e.ext, id |-> id, project |-> p, note |-> None, ver |-> e.ver,
   mark |-> e.mark, next |-> next]

\* The item is done with: it is off the list of those to delete.
Taken(e) ==
  [pass EXCEPT !.todo = Tail(@), !.left = Drop(@, {e.ext}), !.claimed = @ \cup {Citekey(e)}]

\* A refused row is skipped by Zotero, and ends the pass of a tracker.
ApplyInsert(e) ==
  LET new == Insertion(e) IN
    IF Allowed(db, fresh, new.row)
      THEN /\ db' = Insert(db, fresh, new.row)
           /\ fresh' = fresh + 1 /\ fresh' \in Id
           /\ pass' = [Taken(e) EXCEPT !.job = JobFor(e, fresh, None, new.next)]
      ELSE /\ pass' = IF adapter = "zotero" THEN [Taken(e) EXCEPT !.clean = FALSE] ELSE None
           /\ UNCHANGED <<db, fresh>>

\* An update that fails ends the pass with what it has not done.
ApplyUpdate(e, id) ==
  LET new == Revision(e) IN
    /\ IF CanUpdate(db, id, new.row)
         THEN /\ db' = Update(db, id, new.row)
              /\ pass' = [Taken(e) EXCEPT !.job = JobFor(e, id, db.row[id].project, new.next)]
         ELSE /\ pass' = None /\ UNCHANGED db
    /\ UNCHANGED fresh

\* Mutant: whatever has been imported once is taken to be unchanged.
UnchangedOnce(e) == TRUE

\* The marker stored with the row is the one of the listing.
Unchanged(e) == db.meta[pass.left[e.ext]].hash = e.mark

\* is_syncable(): suspended and buried cards are passed over.
Syncable(e) == ~e.bad

\* One turn of the loop in sync(), up to its first write.
Apply ==
  /\ Free /\ pass.todo # <<>>
  /\ LET e == IF adapter = "caldav" THEN FetchIcs(Head(pass.todo)) ELSE Head(pass.todo) IN
       \/ /\ ~Syncable(e)
          /\ pass' = [pass EXCEPT !.todo = Tail(@), !.clean = @ /\ adapter # "caldav"]
          /\ UNCHANGED <<db, fresh>>
       \/ /\ Syncable(e) /\ e.ext \notin DOMAIN pass.left
          /\ ApplyInsert(e)
       \/ /\ Syncable(e) /\ e.ext \in DOMAIN pass.left
          /\ IF Unchanged(e) THEN pass' = Taken(e) /\ UNCHANGED <<db, fresh>>
             ELSE IF adapter \in Tracker \/ Exists(db, pass.left[e.ext])
               THEN ApplyUpdate(e, pass.left[e.ext])
             ELSE ApplyInsert(e)
  /\ UNCHANGED <<world, bounds>>

-----------------------------------------------------------------------------
(* The calls that follow, one step each. *)

Done ==
  LET rest == Tail(pass.job.next)
  IN pass' = [pass EXCEPT !.job = IF rest = <<>> THEN None ELSE [@ EXCEPT !.next = rest]]

\* scaffold_note_for_reference() looks for the note of the reference; refreshes it, or
\* inserts one and then its edge.
FindNote ==
  /\ pass' = [pass EXCEPT !.job.next =
                 <<IF Scaffold(db, pass.job.id) = None THEN "draft" ELSE "refresh">> \o Tail(@)]
  /\ UNCHANGED <<db, fresh>>

DraftNote ==
  /\ db' = Insert(db, fresh, NewNote(pass.job.ver, pass.job.project))
  /\ fresh' = fresh + 1 /\ fresh' \in Id
  /\ pass' = [pass EXCEPT !.job.note = fresh, !.job.next = <<"edge">> \o Tail(@)]

\* The store after a call other than these.  Nobody else relates notes to references,
\* so the note to refresh is the one that was found.
After(j, call) ==
  CASE call = "tags" -> SetTags(db, j.id, j.ver)
    [] call = "refresh" -> Update(db, Scaffold(db, j.id), NotePatch([body |-> j.ver]))
    [] call = "edge" -> AddRelation(db, ScaffoldEdge(j.note, j.id))
    [] call = "metrics" -> Update(db, j.id, ExperimentPatch([body |-> j.ver]))
    [] call = "meta" -> SetMeta(db, j.id, [provider |-> adapter, ext |-> j.ext, hash |-> j.mark])
    [] call = "clear" -> ClearMeta(db, j.id)

DoCall ==
  /\ pass # None /\ pass.job # None
  /\ \/ Head(pass.job.next) = "note" /\ FindNote
     \/ Head(pass.job.next) = "draft" /\ DraftNote
     \/ /\ Head(pass.job.next) \notin {"note", "draft"}
        /\ db' = After(pass.job, Head(pass.job.next))
        /\ Done /\ UNCHANGED fresh
  /\ UNCHANGED <<world, bounds>>

\* Mutant: what one calendar does not have is deleted before the next is listed.
WalkedOne == Free /\ pass.todo = <<>>

Walked == Free /\ pass.todo = <<>> /\ pass.unlisted = {}

\* apply_delete() of what the walk did not meet: first the row, then its metadata.
ApplyDelete ==
  /\ Walked /\ adapter \notin Tracker
  /\ \E x \in DOMAIN pass.left :
       /\ db' = Delete(db, pass.left[x])
       /\ pass' = [pass EXCEPT !.left = Drop(@, {x}),
                     !.job = JobFor([ext |-> x, ver |-> 0, mark |-> 0], pass.left[x], None, <<"clear">>)]
  /\ UNCHANGED <<world, fresh, bounds>>

Finish ==
  /\ Walked
  /\ adapter \in Tracker \/ DOMAIN pass.left = {}
  /\ pass' = None
  /\ UNCHANGED <<world, db, fresh, bounds>>

\* The engine's timeout, or a shutdown.
Cancel ==
  /\ pass # None
  /\ Fault /\ cancels' = cancels + 1
  /\ pass' = None
  /\ UNCHANGED <<world, db, fresh, edits, clash>>

Sync == ListCalendar \/ Apply \/ DoCall \/ ApplyDelete \/ Finish

Next ==
  \/ \E x \in Ext : Change(x) \/ Vanish(x)
  \/ \E c \in Collection : Outage(c) \/ Recovery(c)
  \/ \E id \in Id : Attach(id)
  \/ Reload \/ Begin \/ Sync \/ Cancel

Spec == Init /\ [][Next]_vars

\* The engine polls for ever, and a pass is never left waiting.
FairSpec == Spec /\ WF_vars(Begin) /\ WF_vars(Sync)

-----------------------------------------------------------------------------
(* Properties. *)

\* What the configuration asks for and the source can give.
Wanted(x) ==
  source[x] # None /\ ~source[x].bad /\ CollectionOf[x] \in config.wanted

\* Metadata whose row is gone: a deletion was cancelled after its first step.
Ghosts == {id \in DOMAIN db.meta : ~Exists(db, id)}
Haunted(x) == LET m == MetaOf(db, adapter) IN x \in DOMAIN m /\ m[x] \in Ghosts

\* One item and the row that is its image.  A row may be older than its item by
\* what the change marker does not show.
Shows(x) ==
  LET m == MetaOf(db, adapter) IN
    IF Wanted(x)
      THEN /\ x \in DOMAIN m /\ IsA(db, m[x], TableOf[adapter])
           /\ db.row[m[x]].body \in source[x].mark..source[x].ver
      ELSE x \in DOMAIN m => adapter \in Tracker

Completes ==
  /\ Free /\ pass.todo = <<>> /\ pass.unlisted = {}
  /\ pass' = None /\ cancels' = cancels

\* After a pass that met no failure and during which nothing changed, every item
\* of the collections wanted has exactly its row and the rest have none, whatever
\* failed, changed or was cancelled before it (sync() of each adapter).  Items
\* whose deletion was cut off between its two calls are excepted: the metadata
\* left behind makes the item look unchanged if it comes back.
Mirrors ==
  [][Completes /\ pass.clean => \A x \in Ext : Haunted(x) \/ Shows(x)]_vars

InHand == IF pass = None \/ pass.job = None THEN {} ELSE {pass.job.id, pass.job.note}

\* Rows without metadata: a pass was cancelled before it wrote them.
Strays == Rows(db, TableOf[adapter]) \ (DOMAIN db.meta \cup InHand \cup {native})

\* No pass leaves anything half done behind it but one that was cancelled, and
\* each of those at most one row without its metadata, one entry of metadata
\* without its row and one literature note nobody will find again; and
\* a reference has at most one literature note at a time.
StraysAreCancelled ==
  /\ Cardinality(Strays) <= cancels
  /\ Cardinality(Ghosts \ InHand) <= cancels
  /\ Cardinality(Rows(db, "note") \ ({e.from : e \in db.edge} \cup InHand)) <= cancels
  /\ \A id \in Rows(db, "ref") : Cardinality(Incoming(db, id, "scaffolded_from")) <= 1

Scaffolds == {e.from : e \in db.edge}

\* Whatever a pass does, the rows it did not import stay as they are, and a row
\* that survives keeps the project its user gave it: the patches of the adapters
\* leave the column alone.
UsersDataKept ==
  [][Sync => \A id \in DOMAIN db.row :
       /\ id \notin DOMAIN db.meta \cup Scaffolds \cup InHand
            => Exists(db', id) /\ db'.row[id] = db.row[id]
       /\ Exists(db', id) /\ "project" \in DOMAIN db.row[id]
            => db'.row[id].project = db.row[id].project]_vars

\* At any moment, in the middle of a pass too, the archive of levctl export can
\* be imported into an empty store, and gives back the same store: no row is
\* inserted before a row it refers to.  (The variables keep their types and the
\* rows the constraints of the schema.)
Restorable == TypeOK /\ Import(Empty, Export(db)) = db

\* What the code leaves to the user, or to the next edit, to repair.  The citation
\* key of a reference without metadata stays taken.
Excused ==
  \/ clash \/ ~config.enabled \/ down # {}
  \/ adapter = "zotero" /\ Strays # {}
  \/ config.built # config.wanted \/ config.wanted = {}
  \/ adapter = "caldav" /\ \E x \in Ext : source[x] # None /\ source[x].bad
  \/ adapter \in Tracker /\ ~Exists(db, project)

\* Once source, servers and configuration stay as they are, the store comes to
\* mirror the source and stays so, whatever servers went away and came back and
\* whatever passes were cancelled, unless two items claim one citation key or the
\* configuration does not allow it.  A cancelled pass is made good but for a Zotero
\* item whose row it had just inserted, and an item whose row it had just deleted.
Converges == <>[](Excused \/ \A x \in Ext : Haunted(x) \/ Shows(x))

\* "overrides share the base UID, which means last-override-wins within one .ics"
\* (caldav/mod.rs): no more than one row per .ics file.
LastOverrideWins ==
  cancels = 0 => Cardinality(Rows(db, "event")) <= Cardinality(Ext)
=============================================================================
