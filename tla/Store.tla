-------------------------------- MODULE Store --------------------------------
(***************************************************************************)
(* The unified store (levshell-data): one SQLite connection behind a       *)
(* mutex, so that every public function is one atomic step, and a caller   *)
(* that needs two of them can be interrupted between the two.  The module  *)
(* has no variables: its operators take the contents of the database and   *)
(* return them changed, or say whether the statement would be refused.     *)
(*                                                                         *)
(* A row keeps the columns that constraints and callers tell apart: its    *)
(* table, the version of the content it shows ("body", NULL columns        *)
(* included), its foreign keys and a reference's citation key.  Ids are    *)
(* UUID v7: unique over all tables and increasing.                         *)
(***************************************************************************)
EXTENDS Naturals, Sequences, FiniteSets, SequencesExt, TLC

CONSTANTS
  Id, Body, Key,   \* row ids (naturals), content versions, citation keys
  Provider, Ext,   \* sync adapters, and the external ids they know
  None

\* EntityType, and the names of the columns that refer to such a row.
EntityType == {"project", "note", "ref", "flashcard", "event", "task", "experiment"}

OptId == Id \cup {None}

Project == [table : {"project"}, body : Body]
Note == [table : {"note"}, body : Body, project : OptId]
Reference == [table : {"ref"}, body : Body, citekey : Key, project : OptId]
Flashcard == [table : {"flashcard"}, body : Body, note : OptId, ref : OptId, project : OptId]
Event == [table : {"event"}, body : Body, project : OptId]
Task == [table : {"task"}, body : Body, project : OptId]
Experiment == [table : {"experiment"}, body : Body, project : Id]
Row == Project \cup Note \cup Reference \cup Flashcard \cup Event \cup Task \cup Experiment

Relation == [from : Id, to : Id, kind : {"wiki_link", "scaffolded_from"}]
SyncMetadata == [provider : Provider, ext : Ext, hash : Body]

\* The tables: rows, entity_relations, entity_tags (whose tags a row carries, as
\* the version of the content they came with) and sync_metadata, which the code
\* keeps per entity and provider; no entity here has two providers.
Empty == [row |-> <<>>, edge |-> {}, tag |-> <<>>, meta |-> <<>>]

Exists(db, id) == id \in DOMAIN db.row
IsA(db, id, t) == Exists(db, id) /\ db.row[id].table = t
Rows(db, t) == {id \in DOMAIN db.row : db.row[id].table = t}

Drop(f, S) == [x \in DOMAIN f \ S |-> f[x]]
Put(f, x, v) == [y \in DOMAIN f \cup {x} |-> IF y = x THEN v ELSE f[y]]

-----------------------------------------------------------------------------
(* Constraints of the schema. *)

Links(r) == DOMAIN r \cap {"project", "note", "ref"}

\* PRAGMA foreign_keys is on: a reference is NULL or to a row of its table.
LinksHold(db, r) ==
  \A f \in Links(r) : IF r[f] = None THEN r.table # "experiment" ELSE IsA(db, r[f], f)

\* idx_refs_citekey is unique.
KeyFree(db, id, r) ==
  r.table = "ref" =>
    \A other \in Rows(db, "ref") \ {id} : db.row[other].citekey # r.citekey

Allowed(db, id, r) == LinksHold(db, r) /\ KeyFree(db, id, r)

\* Every row obeys them, and every experiment has its project.
Consistent(db) == \A id \in DOMAIN db.row : Allowed(db, id, db.row[id])

-----------------------------------------------------------------------------
(* INSERT, UPDATE with a patch of columns, DELETE. *)

Insert(db, id, r) == [db EXCEPT !.row = Put(@, id, r)]

\* Columns the patch leaves out keep their value.
Patched(r, patch) ==
  [c \in DOMAIN r \cup DOMAIN patch |-> IF c \in DOMAIN patch THEN patch[c] ELSE r[c]]
Update(db, id, patch) == [db EXCEPT !.row[id] = Patched(@, patch)]

CanUpdate(db, id, patch) == Exists(db, id) /\ Allowed(db, id, Patched(db.row[id], patch))

\* ON DELETE CASCADE takes the experiments of a project, ON DELETE SET NULL
\* clears every other reference; nothing clears tags, relations or metadata.
Delete(db, id) ==
  LET taken == {id} \cup {e \in Rows(db, "experiment") : db.row[e].project = id}
      rest == Drop(db.row, taken)
      Unlinked(r) == [f \in DOMAIN r |-> IF f \in Links(r) /\ r[f] = id THEN None ELSE r[f]]
  IN [db EXCEPT !.row = [i \in DOMAIN rest |-> Unlinked(rest[i])]]

\* The columns a new row gets.  insert_experiment() leaves metrics and times out.
NewProject(body) == [table |-> "project", body |-> body]
NewNote(body, p) == [table |-> "note", body |-> body, project |-> p]
NewReference(body, key) ==
  [table |-> "ref", body |-> body, citekey |-> key, project |-> None]
NewFlashcard(body) ==
  [table |-> "flashcard", body |-> body, note |-> None, ref |-> None, project |-> None]
NewEvent(body) == [table |-> "event", body |-> body, project |-> None]
NewExperiment(p) == [table |-> "experiment", body |-> 0, project |-> p]

\* The columns an UPDATE can set: those given, COALESCE or CASE WHEN for the rest.
Given(changes, columns) == [c \in DOMAIN changes \cap columns |-> changes[c]]

NotePatch(changes) == Given(changes, {"body", "project"})
ReferencePatch(changes) == Given(changes, {"body", "citekey", "project"})
FlashcardPatch(changes) == Given(changes, {"body", "note", "ref", "project"})

\* Mutant: a project that is not given is taken for NULL.
EventPatchClears(changes) == Given(Patched([project |-> None], changes), {"body", "project"})

EventPatch(changes) == Given(changes, {"body", "project"})
TaskPatch(changes) == Given(changes, {"body", "project"})
ExperimentPatch(changes) == Given(changes, {"body"})

-----------------------------------------------------------------------------
(* Relations, tags, provenance. *)

AddRelation(db, e) == [db EXCEPT !.edge = @ \cup {e}]

\* list_relations_to()
Incoming(db, id, kind) == {e \in db.edge : e.to = id /\ e.kind = kind}

\* The adapters' write_tags() and replace_tags() leave a row with these tags.
SetTags(db, id, tags) == [db EXCEPT !.tag = Put(@, id, tags)]

SetMeta(db, id, m) == [db EXCEPT !.meta = Put(@, id, m)]
ClearMeta(db, id) == [db EXCEPT !.meta = Drop(@, {id})]

\* list_sync_metadata_by_provider(), as the map from external ids the adapters
\* build of it: of several rows for one external id the last one stays.
MetaOf(db, p) ==
  LET mine == {id \in DOMAIN db.meta : db.meta[id].provider = p}
  IN [x \in {db.meta[id].ext : id \in mine} |->
        CHOOSE id \in mine : db.meta[id].ext = x
          /\ \A other \in mine : db.meta[other].ext = x => other <= id]

-----------------------------------------------------------------------------
(* scaffold_note_for_reference(): the steps between its awaits. *)

\* The first note with an edge of our kind to the reference, or None.
Scaffold(db, ref) ==
  LET notes == {e.from : e \in Incoming(db, ref, "scaffolded_from")}
  IN IF notes = {} THEN None ELSE CHOOSE n \in notes : \A m \in notes : n <= m

ScaffoldEdge(note, ref) == [from |-> note, to |-> ref, kind |-> "scaffolded_from"]

-----------------------------------------------------------------------------
(* export_all() and import_all(). *)

\* Mutant: experiments before their projects.
TablesReordered == <<"experiment", "note", "ref", "flashcard", "event", "task", "project">>

\* TABLES, in the order in which rows are inserted.
Tables == <<"project", "note", "ref", "flashcard", "event", "task", "experiment">>

\* The snapshot: one set of rows per table, and the three tables without rows of
\* their own.
Export(db) ==
  [rows |-> [t \in EntityType |-> [id \in Rows(db, t) |-> db.row[id]]],
   edge |-> db.edge, tag |-> db.tag, meta |-> db.meta]

\* What is in the store before the rows of table k go in.
Earlier(snap, k) ==
  LET inserted == {Tables[j] : j \in 1..(k - 1)}
  IN [id \in UNION {DOMAIN snap.rows[t] : t \in inserted} |->
        LET t == CHOOSE u \in inserted : id \in DOMAIN snap.rows[u] IN snap.rows[t][id]]

\* An INSERT of one table fails: nothing it refers to may come later.
Refused(db, snap) ==
  \E k \in DOMAIN Tables : \E id \in DOMAIN snap.rows[Tables[k]] :
    ~LinksHold([db EXCEPT !.row = Earlier(snap, k)], snap.rows[Tables[k]][id])

\* None if the import is refused: the store is not empty, or a statement fails.
Import(db, snap) ==
  IF db # Empty \/ Refused(db, snap) THEN None
  ELSE [row |-> Earlier(snap, Len(Tables) + 1), edge |-> snap.edge, tag |-> snap.tag, meta |-> snap.meta]
=============================================================================
