---------------------------- MODULE ObsidianSync ----------------------------
(***************************************************************************)
(* The Obsidian adapter of levshell-sync (obsidian/mod.rs): sync() walks   *)
(* the vault, compares every file with the sync_metadata row that has its  *)
(* path, inserts or updates notes, deletes those whose file is gone, and   *)
(* rebuilds the wiki_link edges of the notes it wrote.  Every store call   *)
(* is one atomic step; between two of them the vault may change, a ctl     *)
(* command may attach a note to a project, and sync() may be cut off: by   *)
(* the engine's timeout, a store error, or the end of the daemon.          *)
(*                                                                         *)
(* Ids are UUIDv7, so a later insert has a larger id and, since a row is   *)
(* only ever added for the newest note, sync_metadata is scanned in the    *)
(* order of ids.  A body stands for its hash.                              *)
(***************************************************************************)
EXTENDS Naturals, FiniteSets

CONSTANTS
  File,           \* paths a vault file may have
  Body,           \* contents below the frontmatter
  Front,          \* frontmatter tag lists
  LinksOf,        \* LinksOf[b]: the files the wiki links of b name
  None,
  MaxId,          \* bound on the notes ever inserted
  MaxEdits,       \* bound on changes to the vault
  MaxTouches,     \* bound on project attachments
  MaxInterrupts   \* bound on syncs that are cut off

ASSUME VaultAssumption ==
  /\ LinksOf \in [Body -> SUBSET File]
  /\ None \notin File \cup Body \cup Front \cup (1..MaxId)
  /\ MaxId \in Nat /\ MaxEdits \in Nat /\ MaxTouches \in Nat /\ MaxInterrupts \in Nat

Id == 1..MaxId
Content == [body : Body, front : Front]

VARIABLES
  vault,       \* [File -> Content or None]
  unreadable,  \* files that exist and that read_to_string fails on
  note,        \* [Id -> Body or None]: the notes table
  tags,        \* [Id -> Front or None]: entity_tags
  ext, hash,   \* [Id -> File or None], [Id -> Body or None]: sync_metadata
  newer,       \* notes with updated_at after their row's last_synced_at
  edges,       \* wiki_link relations, as pairs of ids
  lastId,      \* the newest id
  pc,          \* the next call of sync(); "idle" and "done" between syncs
  entries,     \* files of the walk that remain
  index,       \* by_external_id: [File -> Id or None]
  cur,         \* the file and id in hand, and the content that was read
  linkUpdates, \* link_updates: ids and bodies
  pending,     \* edges that remain to be removed or added
  conflicts,   \* report.conflicts
  walked,      \* history: the files the walk found
  calm,        \* history: no vault change since this sync began
  touched,     \* history: notes attached since their row was written, the one in hand aside
  torn,        \* history: notes whose update or delete was cut off before the row was told
  edits, touches, interrupts  \* counters for the bounds

sourceVars == <<vault, unreadable, calm, edits>>
storeVars == <<note, tags, ext, hash, newer, edges, lastId>>
heldVars == <<pending, walked>>
localVars == <<pc, entries, index, cur, linkUpdates, conflicts, heldVars>>
touchVars == <<touched, touches>>
cutVars == <<torn, interrupts>>
vars == <<sourceVars, storeVars, localVars, touchVars, cutVars>>

Present == {f \in File : vault[f] # None}
Notes == {i \in Id : note[i] # None}
RowsOf(f) == {i \in Id : ext[i] = f}
Newest(i, f) == i \in RowsOf(f) /\ \A r \in RowsOf(f) : r <= i
Hand == [file : File \cup {None}, id : 0..MaxId, content : Content \cup {None}]
NoEntry == [file |-> None, id |-> 0, content |-> None]

TypeOK ==
  /\ vault \in [File -> Content \cup {None}]
  /\ unreadable \subseteq File
  /\ note \in [Id -> Body \cup {None}]
  /\ tags \in [Id -> Front \cup {None}]
  /\ ext \in [Id -> File \cup {None}]
  /\ hash \in [Id -> Body \cup {None}]
  /\ newer \subseteq Id
  /\ edges \subseteq Id \X Id
  /\ lastId \in 0..MaxId
  /\ pc \in {"idle", "list", "files", "get", "insert", "update", "tags", "row",
             "stale", "strip", "incoming", "delete", "clear", "links", "done"}
  /\ entries \subseteq File
  /\ index \in [File -> Id \cup {None}]
  /\ cur \in Hand
  /\ linkUpdates \subseteq Id \X Body
  /\ pending \subseteq Id \X Id
  /\ conflicts \subseteq File
  /\ walked \subseteq File
  /\ calm \in BOOLEAN
  /\ touched \subseteq Id /\ torn \subseteq Id
  /\ edits \in 0..MaxEdits /\ touches \in 0..MaxTouches /\ interrupts \in 0..MaxInterrupts

Init ==
  /\ vault = [f \in File |-> None]
  /\ unreadable = {}
  /\ note = [i \in Id |-> None]
  /\ tags = [i \in Id |-> None]
  /\ ext = [i \in Id |-> None]
  /\ hash = [i \in Id |-> None]
  /\ newer = {}
  /\ edges = {}
  /\ lastId = 0
  /\ pc = "idle"
  /\ entries = {}
  /\ index = [f \in File |-> None]
  /\ cur = NoEntry
  /\ linkUpdates = {}
  /\ pending = {}
  /\ conflicts = {}
  /\ walked = {}
  /\ calm = TRUE
  /\ touched = {}
  /\ torn = {}
  /\ edits = 0
  /\ touches = 0
  /\ interrupts = 0

-----------------------------------------------------------------------------
(***************************************************************************)
(* The world around sync()                                                 *)
(***************************************************************************)
\* The user writes, edits or deletes a file; it can be read afterwards.
EditVault ==
  /\ edits < MaxEdits
  /\ edits' = edits + 1
  /\ \E f \in File, c \in Content \cup {None} :
       /\ vault[f] # c
       /\ vault' = [vault EXCEPT ![f] = c]
       /\ unreadable' = unreadable \ {f}
  /\ calm' = FALSE
  /\ UNCHANGED <<storeVars, localVars, touchVars, cutVars>>

\* A file cannot be read for now (permissions, bytes that are not UTF-8).
LoseAccess ==
  /\ edits < MaxEdits
  /\ edits' = edits + 1
  /\ \E f \in Present \ unreadable : unreadable' = unreadable \cup {f}
  /\ calm' = FALSE
  /\ UNCHANGED <<vault, storeVars, localVars, touchVars, cutVars>>

\* sync() has already compared updated_at of this note and works on it.
Looked(i) == pc \in {"update", "tags", "row"} /\ cur.id = i

\* ProjectRegistry::attach or detach: update_note with a project, which stamps
\* updated_at.
Touch ==
  /\ touches < MaxTouches
  /\ touches' = touches + 1
  /\ \E i \in Notes :
       /\ newer' = newer \cup {i}
       /\ touched' = touched \cup (IF Looked(i) THEN {} ELSE {i})
  /\ UNCHANGED <<sourceVars, note, tags, ext, hash, edges, lastId, localVars, cutVars>>

\* The note in hand was updated or deleted, and its row tells of what was there before.
Half == pc \in {"tags", "row", "clear"} /\ ext[cur.id] # None

\* sync() is dropped where it stands: what the store was told stays.
Interrupt ==
  /\ pc \notin {"idle", "done"}
  /\ interrupts < MaxInterrupts
  /\ interrupts' = interrupts + 1
  /\ pc' = "idle"
  /\ entries' = {}
  /\ index' = [f \in File |-> None]
  /\ cur' = NoEntry
  /\ linkUpdates' = {}
  /\ pending' = {}
  /\ conflicts' = {}
  /\ torn' = torn \cup (IF Half THEN {cur.id} ELSE {})
  /\ UNCHANGED <<walked, sourceVars, storeVars, touchVars>>

-----------------------------------------------------------------------------
(***************************************************************************)
(* sync()                                                                  *)
(***************************************************************************)
\* walk_vault(): the files that are there now.
Walk ==
  /\ pc \in {"idle", "done"}
  /\ pc' = "list"
  /\ entries' = Present
  /\ walked' = Present
  /\ linkUpdates' = {}
  /\ conflicts' = {}
  /\ calm' = TRUE
  /\ UNCHANGED <<vault, unreadable, edits, storeVars, index, cur, pending, touchVars, cutVars>>

\* list_sync_metadata_by_provider(): of several rows with a path the last one
\* collected, the newest, stays in the map.
ListRows ==
  /\ pc = "list"
  /\ pc' = "files"
  /\ index' \in {x \in [File -> Id \cup {None}] :
                  \A f \in File : IF RowsOf(f) = {} THEN x[f] = None ELSE Newest(x[f], f)}
  /\ UNCHANGED <<entries, cur, linkUpdates, conflicts, heldVars, sourceVars, storeVars,
                 touchVars, cutVars>>

Readable(f) == f \in Present \ unreadable

\* A file that cannot be read is skipped; its row stays in the map.
SkipUnreadable(f) ==
  /\ pc = "files"
  /\ f \in entries
  /\ ~Readable(f)
  /\ entries' = entries \ {f}
  /\ UNCHANGED <<pc, index, cur, linkUpdates, conflicts, heldVars, sourceVars, storeVars,
                 touchVars, cutVars>>

\* The hash of the body is the row's: nothing to do.
SkipUnchanged(f) ==
  /\ pc = "files"
  /\ f \in entries
  /\ Readable(f)
  /\ index[f] # None
  /\ hash[index[f]] = vault[f].body
  /\ entries' = entries \ {f}
  /\ index' = [index EXCEPT ![f] = None]
  /\ UNCHANGED <<pc, cur, linkUpdates, conflicts, heldVars, sourceVars, storeVars,
                 touchVars, cutVars>>

\* A new file is inserted; one with another hash is looked up in the store.
TakeUp(f) ==
  /\ pc = "files"
  /\ f \in entries
  /\ Readable(f)
  /\ index[f] # None => hash[index[f]] # vault[f].body
  /\ entries' = entries \ {f}
  /\ index' = [index EXCEPT ![f] = None]
  /\ cur' = [file |-> f, id |-> IF index[f] = None THEN 0 ELSE index[f], content |-> vault[f]]
  /\ pc' = IF index[f] = None THEN "insert" ELSE "get"
  /\ UNCHANGED <<linkUpdates, conflicts, heldVars, sourceVars, storeVars, touchVars, cutVars>>

\* Mutant: the conflict is not reported.
GetNoteSilently ==
  /\ pc = "get"
  /\ pc' = IF note[cur.id] = None THEN "insert" ELSE "update"
  /\ UNCHANGED <<entries, index, cur, linkUpdates, conflicts, heldVars, sourceVars, storeVars,
                 touchVars, cutVars>>

\* get_note(): a row whose note is gone leads to an insert; a note modified
\* since the row was written is a conflict.
GetNote ==
  /\ pc = "get"
  /\ pc' = IF note[cur.id] = None THEN "insert" ELSE "update"
  /\ conflicts' = IF note[cur.id] # None /\ cur.id \in newer
                  THEN conflicts \cup {cur.file} ELSE conflicts
  /\ UNCHANGED <<entries, index, cur, linkUpdates, heldVars, sourceVars, storeVars,
                 touchVars, cutVars>>

InsertNote ==
  /\ pc = "insert"
  /\ lastId < MaxId
  /\ lastId' = lastId + 1
  /\ note' = [note EXCEPT ![lastId'] = cur.content.body]
  /\ cur' = [cur EXCEPT !.id = lastId']
  /\ pc' = "tags"
  /\ UNCHANGED <<tags, ext, hash, newer, edges, entries, index, linkUpdates, conflicts,
                 heldVars, sourceVars, touchVars, cutVars>>

\* update_note() stamps updated_at.
UpdateNote ==
  /\ pc = "update"
  /\ note' = [note EXCEPT ![cur.id] = cur.content.body]
  /\ newer' = newer \cup {cur.id}
  /\ pc' = "tags"
  /\ UNCHANGED <<tags, ext, hash, edges, lastId, entries, index, cur, linkUpdates,
                 conflicts, heldVars, sourceVars, touchVars, cutVars>>

\* write_tags() and replace_tags(): afterwards the note has the file's tags.
WriteTags ==
  /\ pc = "tags"
  /\ tags' = [tags EXCEPT ![cur.id] = cur.content.front]
  /\ pc' = "row"
  /\ UNCHANGED <<note, ext, hash, newer, edges, lastId, entries, index, cur, linkUpdates,
                 conflicts, heldVars, sourceVars, touchVars, cutVars>>

\* Mutant: the file is read again for its hash.
WriteRowAfresh ==
  /\ pc = "row"
  /\ ext' = [ext EXCEPT ![cur.id] = cur.file]
  /\ hash' = [hash EXCEPT ![cur.id] = IF Readable(cur.file) THEN vault[cur.file].body
                                                         ELSE cur.content.body]
  /\ newer' = newer \ {cur.id}
  /\ touched' = touched \ {cur.id}
  /\ torn' = torn \ {cur.id}
  /\ linkUpdates' = linkUpdates \cup {<<cur.id, cur.content.body>>}
  /\ cur' = NoEntry
  /\ pc' = "files"
  /\ UNCHANGED <<note, tags, edges, lastId, entries, index, conflicts, heldVars, sourceVars,
                 touches, interrupts>>

\* set_sync_metadata(), keyed by the entity.
WriteRow ==
  /\ pc = "row"
  /\ ext' = [ext EXCEPT ![cur.id] = cur.file]
  /\ hash' = [hash EXCEPT ![cur.id] = cur.content.body]
  /\ newer' = newer \ {cur.id}
  /\ touched' = touched \ {cur.id}
  /\ torn' = torn \ {cur.id}
  /\ linkUpdates' = linkUpdates \cup {<<cur.id, cur.content.body>>}
  /\ cur' = NoEntry
  /\ pc' = "files"
  /\ UNCHANGED <<note, tags, edges, lastId, entries, index, conflicts, heldVars, sourceVars,
                 touches, interrupts>>

FilesDone ==
  /\ pc = "files"
  /\ entries = {}
  /\ pc' = "stale"
  /\ UNCHANGED <<entries, index, cur, linkUpdates, conflicts, heldVars, sourceVars,
                 storeVars, touchVars, cutVars>>

-----------------------------------------------------------------------------
\* apply_delete() of a row left in the map.
TakeStale(f) ==
  /\ pc = "stale"
  /\ index[f] # None
  /\ cur' = [NoEntry EXCEPT !.file = f, !.id = index[f]]
  /\ index' = [index EXCEPT ![f] = None]
  /\ pc' = "strip"
  /\ UNCHANGED <<entries, linkUpdates, conflicts, heldVars, sourceVars, storeVars,
                 touchVars, cutVars>>

\* clear_relations_from(): the edges from the note.
StripFrom ==
  /\ pc = "strip"
  /\ edges' = {e \in edges : e[1] # cur.id}
  /\ pc' = "incoming"
  /\ UNCHANGED <<note, tags, ext, hash, newer, lastId, entries, index, cur, linkUpdates,
                 conflicts, heldVars, sourceVars, touchVars, cutVars>>

\* Mutant: incoming edges are left to the sources.
ListNoIncoming ==
  /\ pc = "incoming"
  /\ pending' = {}
  /\ pc' = "delete"
  /\ UNCHANGED <<entries, index, cur, linkUpdates, conflicts, walked, sourceVars,
                 storeVars, touchVars, cutVars>>

\* list_relations_to(): the edges to it,
ListIncoming ==
  /\ pc = "incoming"
  /\ pending' = {e \in edges : e[2] = cur.id}
  /\ pc' = "delete"
  /\ UNCHANGED <<entries, index, cur, linkUpdates, conflicts, walked, sourceVars,
                 storeVars, touchVars, cutVars>>

\* and remove_relation() of one after the other.
RemoveEdge ==
  /\ pc = "delete"
  /\ \E e \in pending :
       /\ edges' = edges \ {e}
       /\ pending' = pending \ {e}
  /\ UNCHANGED <<note, tags, ext, hash, newer, lastId, pc, entries, index, cur, linkUpdates,
                 conflicts, walked, sourceVars, touchVars, cutVars>>

\* delete_note() leaves tags and metadata where they are.
DeleteNote ==
  /\ pc = "delete"
  /\ pending = {}
  /\ note' = [note EXCEPT ![cur.id] = None]
  /\ newer' = newer \ {cur.id}
  /\ touched' = touched \ {cur.id}
  /\ pc' = "clear"
  /\ UNCHANGED <<tags, ext, hash, edges, lastId, entries, index, cur, linkUpdates,
                 conflicts, heldVars, sourceVars, touches, cutVars>>

\* Mutant: the row outlives its note.
ClearRowKeeps ==
  /\ pc = "clear"
  /\ cur' = NoEntry
  /\ pc' = "stale"
  /\ UNCHANGED <<note, tags, ext, hash, newer, edges, lastId, entries, index, linkUpdates, conflicts,
                 heldVars, sourceVars, touchVars, cutVars>>

\* clear_sync_metadata().
ClearRow ==
  /\ pc = "clear"
  /\ ext' = [ext EXCEPT ![cur.id] = None]
  /\ hash' = [hash EXCEPT ![cur.id] = None]
  /\ torn' = torn \ {cur.id}
  /\ cur' = NoEntry
  /\ pc' = "stale"
  /\ UNCHANGED <<note, tags, newer, edges, lastId, entries, index, linkUpdates, conflicts,
                 heldVars, sourceVars, touchVars, interrupts>>

StaleDone ==
  /\ pc = "stale"
  /\ \A f \in File : index[f] = None
  /\ pc' = "links"
  /\ UNCHANGED <<entries, index, cur, linkUpdates, conflicts, heldVars, sourceVars,
                 storeVars, touchVars, cutVars>>

-----------------------------------------------------------------------------
\* populate_wiki_link_edges(): the edges of one note, from the rows there are.
Targets(i, b) == {t \in Id \ {i} : \E f \in LinksOf[b] : Newest(t, f)}

\* clear_relations_from() of a note that was written,
ClearLinks(u) ==
  /\ pc = "links"
  /\ pending = {}
  /\ u \in linkUpdates
  /\ edges' = {e \in edges : e[1] # u[1]}
  /\ pending' = {<<u[1], t>> : t \in Targets(u[1], u[2])}
  /\ linkUpdates' = linkUpdates \ {u}
  /\ UNCHANGED <<note, tags, ext, hash, newer, lastId, pc, entries, index, cur, conflicts,
                 walked, sourceVars, touchVars, cutVars>>

\* and add_relation() of one target after the other.
AddLink ==
  /\ pc = "links"
  /\ \E e \in pending :
       /\ edges' = edges \cup {e}
       /\ pending' = pending \ {e}
  /\ UNCHANGED <<note, tags, ext, hash, newer, lastId, pc, entries, index, cur, linkUpdates,
                 conflicts, walked, sourceVars, touchVars, cutVars>>

Finish ==
  /\ pc = "links"
  /\ linkUpdates = {} /\ pending = {}
  /\ pc' = "done"
  /\ UNCHANGED <<entries, index, cur, linkUpdates, conflicts, heldVars, sourceVars,
                 storeVars, touchVars, cutVars>>

FileStep(f) == SkipUnreadable(f) \/ SkipUnchanged(f) \/ TakeUp(f) \/ TakeStale(f)

Sync ==
  \/ Walk \/ ListRows \/ \E f \in File : FileStep(f)
  \/ GetNote \/ InsertNote \/ UpdateNote \/ WriteTags \/ WriteRow \/ FilesDone
  \/ StripFrom \/ ListIncoming \/ RemoveEdge \/ DeleteNote \/ ClearRow \/ StaleDone
  \/ (\E u \in linkUpdates : ClearLinks(u)) \/ AddLink \/ Finish

Next == EditVault \/ LoseAccess \/ Touch \/ Interrupt \/ Sync

Spec == Init /\ [][Next]_vars

\* The engine calls sync() again and again, and the store answers.
FairSpec == Spec /\ WF_vars(Sync)

-----------------------------------------------------------------------------
(***************************************************************************)
(* Properties                                                              *)
(***************************************************************************)
\* A row's hash is the body its note has, unless sync() has that note in hand or was
\* cut off between writing or deleting it and telling the row.  So an equal hash may
\* be trusted after a cut-off anywhere else; after one there it may not: the next
\* sync skips the file if it has gone back to what the row tells of.
HashTellsTruth ==
  \A i \in Id : ext[i] # None => note[i] = hash[i] \/ i \in torn \/ (Half /\ i = cur.id)

\* While no sync was cut off: after a sync of a vault that kept still, every
\* file has one note and every note a file ("Each .md file becomes one Note"),
\* and at any time every edge joins two notes that exist, "so the graph never
\* references ghost notes".
NotesMirrorFiles ==
  interrupts = 0 =>
    /\ pc = "done" /\ calm /\ unreadable = {} =>
         /\ \A f \in Present : Cardinality({i \in RowsOf(f) : note[i] = vault[f].body}) = 1
         /\ Cardinality(Notes) = Cardinality(Present)
    /\ \A e \in edges : {e[1], e[2]} \subseteq Notes

\* Once the vault is left alone rows and notes come to mirror it and stay so, whatever
\* was cut off before: every file has a row with its hash, whose note has its body
\* unless a write of it was torn, and no row is left of a file that is gone.  And then
\* nothing is written any more.
Mirrored ==
  /\ \A f \in Present : \E i \in RowsOf(f) :
       hash[i] = vault[f].body /\ (note[i] = vault[f].body \/ i \in torn)
  /\ \A i \in Id : ext[i] \in Present \cup {None}
Converges == <>[](unreadable # {} \/ Mirrored) /\ <>[][UNCHANGED storeVars]_vars

\* "every stale sync_metadata row points at a vault file that no longer exists.
\* Delete both the Note and the metadata."
DeletesOnlyTheGone == [][DeleteNote => cur.file \notin walked]_vars

\* "emit a conflict entry in the report when the local copy had been modified
\* since last sync": no modification is written over without one, except one
\* made while that very note is in hand.
ConflictsReported == [][WriteRow /\ cur.id \in touched => cur.file \in conflicts]_vars
=============================================================================
