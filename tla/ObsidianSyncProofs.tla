-------------------------- MODULE ObsidianSyncProofs --------------------------
(***************************************************************************)
(* Proofs about ObsidianSync for every value of its constants: the         *)
(* variables keep their types, a row tells of its note, an uncut sync      *)
(* mirrors the vault, and conflicts are reported.                          *)
(***************************************************************************)
EXTENDS ObsidianSync, FiniteSetTheorems, TLAPS

\* The note in hand has the body that is about to be written into its row.
Written == pc \in {"tags", "row"} => note[cur.id] = cur.content.body

\* What is in hand in the steps that use it.
InHand ==
  /\ pc \in {"get", "update", "tags", "row", "strip", "incoming", "delete", "clear"} => cur.id \in Id
  /\ pc \in {"get", "insert", "update", "tags", "row"} => cur.file \in File /\ cur.content \in Content

\* Rows, and the ids sync() holds, are of notes that were inserted.
NoneAhead ==
  /\ \A i \in Id : ext[i] # None => i <= lastId
  /\ \A f \in File : index[f] # None => index[f] <= lastId
  /\ cur.id <= lastId

IInv == TypeOK /\ Written /\ InHand /\ NoneAhead /\ HashTellsTruth

-----------------------------------------------------------------------------
\* An empty store and an empty vault satisfy the invariant.
LEMMA InitIInv == Init => IInv
<1> SUFFICES ASSUME Init PROVE IInv
  OBVIOUS
<1> USE VaultAssumption
<1>1. TypeOK
  BY DEF Init, TypeOK, NoEntry, Hand, Id
<1>2. Written /\ InHand
  BY DEF Init, Written, InHand
<1>3. HashTellsTruth /\ NoneAhead
  BY DEF Init, HashTellsTruth, NoneAhead, NoEntry
<1> QED
  BY <1>1, <1>2, <1>3 DEF IInv

\* The types, one step per action.
LEMMA TypeStep == ASSUME TypeOK, InHand, [Next]_vars PROVE TypeOK'
<1> USE VaultAssumption DEF TypeOK, Id, sourceVars, storeVars, localVars, heldVars, cutVars, touchVars
<1>a. NoEntry \in Hand
  BY DEF NoEntry, Hand
<1>b. cur.file \in File \cup {None} /\ cur.id \in 0..MaxId /\ cur.content \in Content \cup {None}
  BY DEF Hand
<1>1. CASE EditVault
  <2>1. PICK f \in File, c \in Content \cup {None} :
          vault' = [vault EXCEPT ![f] = c] /\ unreadable' = unreadable \ {f}
    BY <1>1 DEF EditVault
  <2>2. edits' \in 0..MaxEdits
    BY <1>1 DEF EditVault
  <2> QED
    BY <1>1, <2>1, <2>2 DEF EditVault
<1>2. CASE LoseAccess
  <2>1. PICK f \in File : unreadable' = unreadable \cup {f}
    BY <1>2 DEF LoseAccess, Present
  <2>2. edits' \in 0..MaxEdits /\ unreadable' \subseteq File
    BY <1>2, <2>1 DEF LoseAccess
  <2> QED
    BY <1>2, <2>2 DEF LoseAccess
<1>3. CASE Touch
  <2>1. PICK i \in Id :
          /\ newer' = newer \cup {i}
          /\ touched' = touched \cup (IF Looked(i) THEN {} ELSE {i})
    BY <1>3 DEF Touch, Notes
  <2>2. touches' \in 0..MaxTouches
    BY <1>3 DEF Touch
  <2>3. newer' \subseteq Id /\ touched' \subseteq Id
    BY <2>1
  <2> QED
    BY <1>3, <2>2, <2>3 DEF Touch
<1>4. CASE Interrupt
  <2>1. torn' \subseteq Id
    BY <1>4 DEF Interrupt, Half, InHand
  <2> QED
    BY <1>4, <1>a, <2>1 DEF Interrupt
<1>5. CASE Walk
  BY <1>5 DEF Walk, Present
<1>6. CASE ListRows
  BY <1>6 DEF ListRows
<1>7. ASSUME NEW f \in File, FileStep(f) PROVE TypeOK'
  <2>1. CASE SkipUnreadable(f)
    BY <2>1 DEF SkipUnreadable
  <2>2. CASE SkipUnchanged(f)
    BY <2>2 DEF SkipUnchanged
  <2>3. CASE TakeUp(f)
    <3>1. vault[f] \in Content
      BY <2>3 DEF TakeUp, Readable, Present
    <3>2. cur' \in Hand
      <4>1. (IF index[f] = None THEN 0 ELSE index[f]) \in 0..MaxId
        OBVIOUS
      <4> QED
        BY <2>3, <3>1, <4>1 DEF TakeUp, Hand
    <3>3. index' \in [File -> 1..MaxId \cup {None}] /\ entries' \subseteq File
      BY <2>3 DEF TakeUp
    <3> QED
      BY <2>3, <3>2, <3>3 DEF TakeUp
  <2>4. CASE TakeStale(f)
    <3>1. cur' = [file |-> f, id |-> index[f], content |-> None] /\ index[f] \in Id
      BY <2>4 DEF TakeStale, NoEntry
    <3>2. cur' \in Hand
      BY <3>1 DEF Hand
    <3> QED
      BY <2>4, <3>2 DEF TakeStale
  <2> QED
    BY <1>7, <2>1, <2>2, <2>3, <2>4 DEF FileStep
<1>8. CASE GetNote
  BY <1>8 DEF GetNote, InHand
<1>9. CASE InsertNote
  <2>1. lastId' \in Id /\ lastId' = lastId + 1
    BY <1>9 DEF InsertNote
  <2>2. cur' \in Hand
    <3>1. cur' = [file |-> cur.file, id |-> lastId', content |-> cur.content]
      BY <1>9 DEF InsertNote, Hand
    <3> QED
      BY <1>b, <2>1, <3>1 DEF Hand
  <2>3. cur.content.body \in Body
    BY <1>9 DEF InsertNote, InHand, Content
  <2>4. note' \in [Id -> Body \cup {None}]
    BY <1>9, <2>1, <2>3 DEF InsertNote
  <2>5. lastId' \in 0..MaxId /\ pc' = "tags"
    BY <1>9, <2>1 DEF InsertNote
  <2> QED
    BY <1>9, <2>2, <2>4, <2>5 DEF InsertNote
<1>10. CASE UpdateNote
  BY <1>10 DEF UpdateNote, InHand, Content
<1>11. CASE WriteTags
  BY <1>11 DEF WriteTags, InHand, Content
<1>12. CASE WriteRow
  <2>1. cur.content.body \in Body /\ cur.file \in File /\ cur.id \in Id
    BY <1>12 DEF WriteRow, InHand, Content
  <2>2. <<cur.id, cur.content.body>> \in Id \X Body
    BY <2>1
  <2>3. linkUpdates' \subseteq Id \X Body
    BY <1>12, <2>2 DEF WriteRow
  <2>4. ext' \in [Id -> File \cup {None}] /\ hash' \in [Id -> Body \cup {None}]
    BY <1>12, <2>1 DEF WriteRow
  <2> QED
    BY <1>12, <1>a, <2>3, <2>4 DEF WriteRow
<1>13. CASE FilesDone
  BY <1>13 DEF FilesDone
<1>14. CASE StripFrom \/ ListIncoming \/ RemoveEdge
  <2>1. edges' \subseteq edges /\ pending' \subseteq edges \cup pending
    BY <1>14 DEF StripFrom, ListIncoming, RemoveEdge
  <2> QED
    BY <1>14, <2>1 DEF StripFrom, ListIncoming, RemoveEdge
<1>15. CASE DeleteNote
  BY <1>15 DEF DeleteNote
<1>16. CASE ClearRow
  BY <1>16, <1>a, <1>b DEF ClearRow
<1>17. CASE StaleDone
  BY <1>17 DEF StaleDone
<1>18. ASSUME NEW u \in linkUpdates, ClearLinks(u) PROVE TypeOK'
  <2>1. edges' \subseteq edges /\ pending' \subseteq Id \X Id
    BY <1>18 DEF ClearLinks, Targets
  <2> QED
    BY <1>18, <2>1 DEF ClearLinks
<1>21. CASE AddLink
  <2>1. edges' \subseteq edges \cup pending /\ pending' \subseteq pending
    BY <1>21 DEF AddLink
  <2> QED
    BY <1>21, <2>1 DEF AddLink
<1>19. CASE Finish
  BY <1>19 DEF Finish
<1>20. CASE UNCHANGED vars
  BY <1>20 DEF vars
<1> QED
  BY <1>1, <1>2, <1>3, <1>4, <1>5, <1>6, <1>7, <1>8, <1>9, <1>10, <1>11, <1>12, <1>13,
     <1>14, <1>15, <1>16, <1>17, <1>18, <1>19, <1>20, <1>21 DEF Next, Sync

\* What is in hand, one step per action that takes something up or uses it.
LEMMA HandStep == ASSUME TypeOK, InHand, [Next]_vars PROVE InHand'
<1> USE VaultAssumption DEF TypeOK, InHand, Id, storeVars, localVars, heldVars, cutVars, NoEntry
<1>1. CASE EditVault \/ LoseAccess \/ Touch \/ UNCHANGED vars
  BY <1>1 DEF EditVault, LoseAccess, Touch, vars
<1>2. CASE Interrupt \/ Walk \/ ListRows \/ FilesDone \/ StaleDone \/ Finish
  BY <1>2 DEF Interrupt, Walk, ListRows, FilesDone, StaleDone, Finish
<1>3. ASSUME NEW f \in File, FileStep(f) PROVE InHand'
  <2>1. CASE SkipUnreadable(f) \/ SkipUnchanged(f)
    BY <2>1 DEF SkipUnreadable, SkipUnchanged
  <2>2. CASE TakeUp(f)
    <3>1. vault[f] \in Content
      BY <2>2 DEF TakeUp, Readable, Present
    <3>2. cur' = [file |-> f, id |-> IF index[f] = None THEN 0 ELSE index[f], content |-> vault[f]]
      BY <2>2 DEF TakeUp
    <3>3. index[f] # None => index[f] \in 1..MaxId
      OBVIOUS
    <3> QED
      BY <2>2, <3>1, <3>2, <3>3 DEF TakeUp
  <2>3. CASE TakeStale(f)
    BY <2>3 DEF TakeStale
  <2> QED
    BY <1>3, <2>1, <2>2, <2>3 DEF FileStep
<1>4. CASE GetNote \/ UpdateNote \/ WriteTags
  BY <1>4 DEF GetNote, UpdateNote, WriteTags
<1>5. CASE InsertNote
  BY <1>5 DEF InsertNote
<1>6. CASE WriteRow \/ StripFrom \/ ListIncoming \/ RemoveEdge \/ DeleteNote \/ ClearRow
  BY <1>6 DEF WriteRow, StripFrom, ListIncoming, RemoveEdge, DeleteNote, ClearRow
<1>7. CASE (\E u \in linkUpdates : ClearLinks(u)) \/ AddLink
  BY <1>7 DEF ClearLinks, AddLink
<1> QED
  BY <1>1, <1>2, <1>3, <1>4, <1>5, <1>6, <1>7 DEF Next, Sync

\* Only the insert, the update and the delete write the notes table.
LEMMA WrittenStep == ASSUME TypeOK, InHand, Written, [Next]_vars PROVE Written'
<1> USE VaultAssumption DEF TypeOK, InHand, Written, Id, storeVars, localVars, heldVars, cutVars, NoEntry
<1>1. CASE EditVault \/ LoseAccess \/ Touch \/ UNCHANGED vars
  BY <1>1 DEF EditVault, LoseAccess, Touch, vars
<1>2. CASE Interrupt \/ Walk \/ ListRows \/ FilesDone \/ StaleDone \/ Finish
  BY <1>2 DEF Interrupt, Walk, ListRows, FilesDone, StaleDone, Finish
<1>3. ASSUME NEW f \in File, FileStep(f) PROVE Written'
  BY <1>3 DEF FileStep, SkipUnreadable, SkipUnchanged, TakeUp, TakeStale
<1>4. CASE GetNote \/ WriteTags \/ WriteRow \/ StripFrom \/ ListIncoming \/ RemoveEdge \/ DeleteNote \/ ClearRow
  BY <1>4 DEF GetNote, WriteTags, WriteRow, StripFrom, ListIncoming, RemoveEdge, DeleteNote, ClearRow
<1>5. CASE InsertNote
  BY <1>5 DEF InsertNote
<1>6. CASE UpdateNote
  BY <1>6 DEF UpdateNote
<1>7. CASE (\E u \in linkUpdates : ClearLinks(u)) \/ AddLink
  BY <1>7 DEF ClearLinks, AddLink
<1> QED
  BY <1>1, <1>2, <1>3, <1>4, <1>5, <1>6, <1>7 DEF Next, Sync

\* Ids grow, and nothing is taken into hand that has no row or was not inserted.
LEMMA AheadStep == ASSUME TypeOK, InHand, NoneAhead, [Next]_vars PROVE NoneAhead'
<1> USE VaultAssumption DEF TypeOK, InHand, NoneAhead, Id, storeVars, localVars, heldVars, cutVars, NoEntry
<1>1. CASE EditVault \/ LoseAccess \/ Touch \/ UNCHANGED vars
  BY <1>1 DEF EditVault, LoseAccess, Touch, vars
<1>2. CASE Interrupt \/ Walk \/ FilesDone \/ StaleDone \/ Finish
  BY <1>2 DEF Interrupt, Walk, FilesDone, StaleDone, Finish
<1>3. CASE ListRows
  BY <1>3 DEF ListRows, Newest, RowsOf
<1>4. ASSUME NEW f \in File, FileStep(f) PROVE NoneAhead'
  <2>1. CASE SkipUnreadable(f) \/ SkipUnchanged(f)
    BY <2>1 DEF SkipUnreadable, SkipUnchanged
  <2>2. CASE TakeUp(f)
    <3>1. (IF index[f] = None THEN 0 ELSE index[f]) <= lastId
      OBVIOUS
    <3>2. cur'.id <= lastId
      BY <2>2, <3>1 DEF TakeUp
    <3> QED
      BY <2>2, <3>2 DEF TakeUp
  <2>3. CASE TakeStale(f)
    <3>1. cur' = [file |-> f, id |-> index[f], content |-> None]
      BY <2>3 DEF TakeStale
    <3> QED
      BY <2>3, <3>1 DEF TakeStale
  <2> QED
    BY <1>4, <2>1, <2>2, <2>3 DEF FileStep
<1>5. CASE GetNote \/ UpdateNote \/ WriteTags \/ StripFrom \/ ListIncoming \/ RemoveEdge \/ DeleteNote
  BY <1>5 DEF GetNote, UpdateNote, WriteTags, StripFrom, ListIncoming, RemoveEdge, DeleteNote
<1>6. CASE InsertNote
  BY <1>6 DEF InsertNote
<1>7. CASE WriteRow
  BY <1>7 DEF WriteRow
<1>8. CASE ClearRow
  BY <1>8 DEF ClearRow
<1>9. CASE (\E u \in linkUpdates : ClearLinks(u)) \/ AddLink
  BY <1>9 DEF ClearLinks, AddLink
<1> QED
  BY <1>1, <1>2, <1>3, <1>4, <1>5, <1>6, <1>7, <1>8, <1>9 DEF Next, Sync

\* Note and row part only while sync() has the note in hand; where it is cut off
\* then, the note counts as torn.
LEMMA TruthStep ==
  ASSUME TypeOK, InHand, Written, NoneAhead, HashTellsTruth, [Next]_vars
  PROVE  HashTellsTruth'
<1> USE VaultAssumption DEF TypeOK, HashTellsTruth, Half, Id, storeVars, localVars, heldVars, cutVars
<1>1. CASE EditVault \/ LoseAccess \/ Touch \/ UNCHANGED vars
  BY <1>1 DEF EditVault, LoseAccess, Touch, vars
<1>2. CASE Walk \/ ListRows \/ FilesDone \/ StaleDone \/ Finish
  BY <1>2 DEF Walk, ListRows, FilesDone, StaleDone, Finish
<1>3. ASSUME NEW f \in File, FileStep(f) PROVE HashTellsTruth'
  BY <1>3 DEF FileStep, SkipUnreadable, SkipUnchanged, TakeUp, TakeStale
<1>4. CASE GetNote \/ WriteTags \/ StripFrom \/ ListIncoming \/ RemoveEdge
  BY <1>4 DEF GetNote, WriteTags, StripFrom, ListIncoming, RemoveEdge
<1>5. CASE InsertNote
  <2>1. ext[lastId + 1] = None /\ lastId + 1 \in Id
    BY <1>5 DEF InsertNote, NoneAhead
  <2>2. \A i \in Id : i # lastId + 1 => note'[i] = note[i]
    BY <1>5, <2>1 DEF InsertNote
  <2>3. pc = "insert" /\ UNCHANGED <<ext, hash, torn>>
    BY <1>5 DEF InsertNote
  <2> QED
    BY <2>1, <2>2, <2>3
<1>6. CASE UpdateNote
  <2>1. /\ cur.id \in Id /\ pc = "update" /\ pc' = "tags" /\ UNCHANGED <<ext, hash, torn, cur>>
        /\ note' = [note EXCEPT ![cur.id] = cur.content.body]
    BY <1>6 DEF UpdateNote, InHand
  <2>2. \A i \in Id : i # cur.id => note'[i] = note[i]
    BY <2>1
  <2> QED
    BY <2>1, <2>2
<1>7. CASE WriteRow
  <2>1. note'[cur.id] = hash'[cur.id]
    BY <1>7 DEF WriteRow, InHand, Written
  <2>2. \A i \in Id \ {cur.id} : ext'[i] = ext[i] /\ hash'[i] = hash[i] /\ note'[i] = note[i]
    BY <1>7 DEF WriteRow
  <2>3. torn' = torn \ {cur.id}
    BY <1>7 DEF WriteRow
  <2> QED
    BY <2>1, <2>2, <2>3
<1>8. CASE DeleteNote
  <2>1. /\ cur.id \in Id /\ pc = "delete" /\ pc' = "clear" /\ UNCHANGED <<ext, hash, torn, cur>>
        /\ note' = [note EXCEPT ![cur.id] = None]
    BY <1>8 DEF DeleteNote, InHand
  <2>2. \A i \in Id : i # cur.id => note'[i] = note[i]
    BY <2>1
  <2> QED
    BY <2>1, <2>2
<1>9. CASE ClearRow
  <2>1. /\ cur.id \in Id /\ ext' = [ext EXCEPT ![cur.id] = None] /\ note' = note
        /\ hash' = [hash EXCEPT ![cur.id] = None] /\ torn' = torn \ {cur.id}
    BY <1>9 DEF ClearRow, InHand
  <2>2. /\ ext'[cur.id] = None
        /\ \A i \in Id \ {cur.id} : ext'[i] = ext[i] /\ hash'[i] = hash[i]
    BY <2>1
  <2> QED
    BY <2>1, <2>2
<1>10. CASE (\E u \in linkUpdates : ClearLinks(u)) \/ AddLink
  BY <1>10 DEF ClearLinks, AddLink
<1>11. CASE Interrupt
  <2>1. /\ pc' = "idle" /\ UNCHANGED <<ext, hash, note>>
        /\ torn' = torn \cup (IF Half THEN {cur.id} ELSE {})
    BY <1>11 DEF Interrupt
  <2> QED
    BY <2>1
<1> QED
  BY <1>1, <1>2, <1>3, <1>4, <1>5, <1>6, <1>7, <1>8, <1>9, <1>10, <1>11 DEF Next, Sync

-----------------------------------------------------------------------------
\* IInv is inductive.
THEOREM Invariance == Spec => []IInv
<1>1. Init => IInv
  BY InitIInv
<1>2. IInv /\ [Next]_vars => IInv'
  BY TypeStep, HandStep, WrittenStep, AheadStep, TruthStep DEF IInv
<1> QED
  BY <1>1, <1>2, PTL DEF Spec

\* The variables keep their types whatever the vault does and wherever a sync
\* is cut off.
THEOREM TypeCorrect == Spec => []TypeOK
BY Invariance, PTL DEF IInv

\* The hash in sync_metadata, which lets sync() skip a file, is the hash of the body
\* its note has, unless a write or a delete of that very note is under way or was cut
\* off before it reached the row.
THEOREM RowsTellTruth == Spec => []HashTellsTruth
BY Invariance, PTL DEF IInv
-----------------------------------------------------------------------------
(***************************************************************************)
(* What holds while no sync was cut off: the notes, their rows and what    *)
(* sync() has in hand of them.                                             *)
(***************************************************************************)
\* The pc of sync() with a file in hand, in its two loops, and in each of them.
HoldsFile == pc \in {"get", "insert", "update", "tags", "row"}
HoldsStale == pc \in {"strip", "incoming", "delete", "clear"}
OnFiles == pc = "files" \/ HoldsFile
OnStale == pc = "stale" \/ HoldsStale

\* A path has one row; a row has a note and a note a row, but for the one in hand;
\* and the row's hash is its note's body, but for the one in hand.
RowsFit ==
  /\ \A i, j \in Id : ext[i] # None /\ ext[i] = ext[j] => i = j
  /\ \A i \in Id : ext[i] # None => note[i] # None \/ (pc = "clear" /\ i = cur.id)
  /\ \A i \in Id : note[i] # None => ext[i] # None \/ (pc \in {"tags", "row"} /\ i = cur.id)
  /\ \A i \in Id : ext[i] # None /\ note[i] # None =>
       note[i] = hash[i] \/ (pc \in {"tags", "row"} /\ i = cur.id)

\* The row in hand is that of the file in hand, which is on no list any more; a row
\* to be cleared has lost its note.
HandFits ==
  /\ HoldsFile \/ HoldsStale => cur.file \in File /\ cur.file \notin entries /\ index[cur.file] = None
  /\ HoldsFile => cur.file \in walked
  /\ pc \in {"get", "update"} \/ HoldsStale => ext[cur.id] = cur.file
  /\ pc = "insert" => \A i \in Id : ext[i] # cur.file
  /\ pc = "clear" => note[cur.id] = None
  /\ pc \in {"tags", "row"} =>
       ext[cur.id] \in {None, cur.file} /\ \A i \in Id : ext[i] = cur.file => i = cur.id

\* The map points at rows of its paths, and misses no row of a path that is still
\* to come or was not found.
MapFits ==
  /\ pc = "list" => entries = walked
  /\ OnFiles => entries \subseteq walked
  /\ OnStale \/ pc \in {"links", "done"} => entries = {}
  /\ OnFiles \/ OnStale => \A f \in File : index[f] # None => ext[index[f]] = f
  /\ OnFiles => \A f \in File :
       index[f] = None /\ (f \in entries \/ f \notin walked) => \A i \in Id : ext[i] # f
  /\ OnStale \/ pc \in {"links", "done"} => \A f \in File \ walked :
       index[f] = None => (HoldsStale /\ f = cur.file) \/ \A i \in Id : ext[i] # f
  /\ pc \in {"links", "done"} => \A f \in File : index[f] = None

\* The path has a row whose note has the file's body.
Shown(f) == \E i \in Id : ext[i] = f /\ note[i] = vault[f].body

\* In a vault that kept still and can be read, what the walk found is what there
\* is, what sync() has done with is shown, and it deletes nothing the walk found.
CalmFits ==
  /\ calm => walked = Present
  /\ calm /\ HoldsFile => cur.content = vault[cur.file]
  /\ calm /\ unreadable = {} /\ HoldsStale => cur.file \notin walked
  /\ calm /\ unreadable = {} /\ (OnFiles \/ OnStale \/ pc \in {"links", "done"}) =>
       \A f \in walked \ entries :
         (HoldsFile /\ f = cur.file) \/ (index[f] = None /\ Shown(f))

\* Edges join notes; those of a note about to go are gone; and the notes whose
\* edges are still to be written have rows that stay.
EdgesFit ==
  /\ \A e \in edges : note[e[1]] # None /\ note[e[2]] # None
  /\ pc = "incoming" => \A e \in edges : cur.id # e[1]
  /\ pc = "delete" => \A e \in edges \ pending : cur.id # e[1] /\ cur.id # e[2]
  /\ pc \notin {"delete", "links"} => pending = {}
  /\ pc = "links" => \A e \in pending : note[e[1]] # None /\ note[e[2]] # None
  /\ pc = "list" => linkUpdates = {}
  /\ OnFiles \/ OnStale \/ pc = "links" => \A u \in linkUpdates :
       /\ note[u[1]] # None /\ ext[u[1]] \in walked \ entries
       /\ index[ext[u[1]]] = None
       /\ HoldsFile \/ HoldsStale => ext[u[1]] # cur.file

Fits == RowsFit /\ HandFits /\ MapFits /\ CalmFits /\ EdgesFit
Uncut == interrupts = 0 => Fits

-----------------------------------------------------------------------------
\* What a row or a note in hand is known to be.
LEMMA HandKnown ==
  ASSUME IInv, Fits
  PROVE  /\ None \notin File /\ None \notin Body
         /\ HoldsFile \/ HoldsStale => cur.file \in File
         /\ pc \in {"get", "update", "tags", "row"} \/ HoldsStale => cur.id \in Id
         /\ HoldsFile => cur.content.body \in Body
         /\ pc \in {"get", "update", "tags", "row", "strip", "incoming", "delete"} => note[cur.id] # None
<1> USE VaultAssumption
<1>1. HoldsFile => cur.content.body \in Body
  BY DEF IInv, InHand, HoldsFile, Content
<1>2. HoldsFile \/ HoldsStale => cur.file \in File
  BY DEF Fits, HandFits
<1>3. pc \in {"get", "update", "tags", "row"} \/ HoldsStale => cur.id \in Id
  BY DEF IInv, InHand, HoldsStale
<1>4. pc \in {"tags", "row"} => note[cur.id] # None
  BY <1>1 DEF IInv, Written, HoldsFile
<1>5. pc \in {"get", "update", "strip", "incoming", "delete"} => note[cur.id] # None
  BY <1>2, <1>3 DEF Fits, HandFits, RowsFit, HoldsFile, HoldsStale
<1> QED
  BY <1>1, <1>2, <1>3, <1>4, <1>5

\* A row whose note exists leads GetNote to an update.
LEMMA GetFinds == ASSUME IInv, Fits, GetNote PROVE pc' = "update"
BY HandKnown DEF GetNote

\* The note that is inserted is the first with its id, and has no row.
LEMMA InsertKnown ==
  ASSUME IInv, InsertNote
  PROVE  /\ lastId + 1 \in Id /\ ext[lastId + 1] = None
         /\ note' = [note EXCEPT ![lastId + 1] = cur.content.body]
         /\ cur'.id = lastId + 1 /\ pc = "insert" /\ pc' = "tags"
         /\ UNCHANGED <<ext, hash, entries, index, walked, edges, linkUpdates, pending>>
         /\ cur'.file = cur.file /\ cur'.content = cur.content
<1>1. lastId \in 0..MaxId /\ cur \in Hand /\ MaxId \in Nat
  BY VaultAssumption DEF IInv, TypeOK
<1>2. lastId + 1 \in Id /\ ~(lastId + 1 <= lastId)
  BY <1>1 DEF InsertNote, Id
<1>3. ext[lastId + 1] = None
  BY <1>2 DEF IInv, NoneAhead
<1>4. cur' = [cur EXCEPT !.id = lastId + 1]
  BY DEF InsertNote
<1>5. cur'.id = lastId + 1 /\ cur'.file = cur.file /\ cur'.content = cur.content
  BY <1>1, <1>4 DEF Hand
<1> QED
  BY <1>2, <1>3, <1>5 DEF InsertNote, heldVars

\* Rows and notes go on fitting: the five calls that write them, and the others.
LEMMA RowsStep ==
  ASSUME IInv, Fits, [Next]_vars, interrupts' = interrupts
  PROVE  RowsFit'
<1> USE DEF storeVars, localVars, heldVars, cutVars
<1>0. RowsFit /\ HandFits /\ TypeOK /\ InHand /\ NoneAhead /\ Written
  BY DEF IInv, Fits
<1>1. CASE UNCHANGED <<note, ext, hash, pc, cur>>
  BY <1>0, <1>1 DEF RowsFit
<1>2. CASE UNCHANGED <<note, ext, hash>> /\ pc \notin {"tags", "row", "clear"}
  BY <1>0, <1>2 DEF RowsFit
<1>3. CASE WriteTags
  BY <1>0, <1>3 DEF RowsFit, WriteTags
<1>4. CASE InsertNote
  <2>1. /\ lastId + 1 \in Id /\ ext[lastId + 1] = None
        /\ note' = [note EXCEPT ![lastId + 1] = cur.content.body]
        /\ cur'.id = lastId + 1 /\ pc = "insert" /\ pc' = "tags"
        /\ UNCHANGED <<ext, hash, entries, index, walked, edges, linkUpdates, pending>>
        /\ cur'.file = cur.file /\ cur'.content = cur.content
    BY InsertKnown, <1>4
  <2>2. cur.content.body # None
    BY <2>1, HandKnown DEF HoldsFile
  <2>3. /\ note'[lastId + 1] # None
        /\ \A i \in Id : i # lastId + 1 => note'[i] = note[i]
    BY <1>0, <2>1, <2>2 DEF TypeOK
  <2> QED BY <1>0, <2>1, <2>3 DEF RowsFit
<1>5. CASE UpdateNote
  <2>1. /\ cur.id \in Id /\ note' = [note EXCEPT ![cur.id] = cur.content.body]
        /\ pc = "update" /\ pc' = "tags" /\ UNCHANGED <<ext, hash, cur>>
        /\ ext[cur.id] = cur.file
    BY <1>0, <1>5 DEF UpdateNote, InHand, HandFits
  <2>2. cur.content.body # None /\ cur.file # None
    BY <2>1, HandKnown DEF HoldsFile
  <2>3. /\ note'[cur.id] # None
        /\ \A i \in Id : i # cur.id => note'[i] = note[i]
    BY <1>0, <2>1, <2>2 DEF TypeOK
  <2> QED BY <1>0, <2>1, <2>2, <2>3 DEF RowsFit
<1>6. CASE WriteRow
  <2>1. /\ cur.id \in Id /\ pc = "row" /\ pc' = "files" /\ note' = note
        /\ ext' = [ext EXCEPT ![cur.id] = cur.file]
        /\ hash' = [hash EXCEPT ![cur.id] = cur.content.body]
        /\ \A i \in Id : ext[i] = cur.file => i = cur.id
        /\ note[cur.id] = cur.content.body
    BY <1>0, <1>6 DEF WriteRow, InHand, HandFits, Written
  <2>2. cur.file # None /\ note[cur.id] # None
    BY <2>1, HandKnown DEF HoldsFile
  <2>3. /\ ext'[cur.id] = cur.file /\ hash'[cur.id] = note[cur.id]
        /\ \A i \in Id : i # cur.id => ext'[i] = ext[i] /\ hash'[i] = hash[i]
    BY <1>0, <2>1 DEF TypeOK
  <2> QED BY <1>0, <2>1, <2>2, <2>3 DEF RowsFit
<1>7. CASE DeleteNote
  <2>1. /\ cur.id \in Id /\ pc = "delete" /\ pc' = "clear"
        /\ note' = [note EXCEPT ![cur.id] = None]
        /\ UNCHANGED <<ext, hash, cur>>
    BY <1>0, <1>7 DEF DeleteNote, InHand
  <2>2. note'[cur.id] = None /\ \A i \in Id : i # cur.id => note'[i] = note[i]
    BY <1>0, <2>1 DEF TypeOK
  <2> QED BY <1>0, <2>1, <2>2 DEF RowsFit
<1>8. CASE ClearRow
  <2>1. /\ cur.id \in Id /\ pc = "clear" /\ pc' = "stale" /\ note' = note
        /\ ext' = [ext EXCEPT ![cur.id] = None]
        /\ hash' = [hash EXCEPT ![cur.id] = None]
    BY <1>0, <1>8 DEF ClearRow, InHand
  <2>2. /\ ext'[cur.id] = None
        /\ \A i \in Id : i # cur.id => ext'[i] = ext[i] /\ hash'[i] = hash[i]
    BY <1>0, <2>1 DEF TypeOK
  <2>3. note[cur.id] = None
    BY <1>0, <2>1 DEF HandFits
  <2> QED BY <1>0, <2>1, <2>2, <2>3 DEF RowsFit
<1>9. CASE EditVault \/ LoseAccess \/ Touch \/ UNCHANGED vars
  BY <1>1, <1>9 DEF EditVault, LoseAccess, Touch, vars
<1>10. CASE Walk \/ ListRows \/ GetNote \/ FilesDone \/ StripFrom \/ ListIncoming \/ RemoveEdge \/ StaleDone \/ Finish
  BY <1>2, <1>10 DEF Walk, ListRows, GetNote, FilesDone, StripFrom, ListIncoming, RemoveEdge, StaleDone, Finish
<1>11. ASSUME NEW f \in File, FileStep(f) PROVE RowsFit'
  BY <1>2, <1>11 DEF FileStep, SkipUnreadable, SkipUnchanged, TakeUp, TakeStale
<1>12. CASE (\E u \in linkUpdates : ClearLinks(u)) \/ AddLink
  BY <1>2, <1>12 DEF ClearLinks, AddLink
<1>13. ~Interrupt
  BY <1>0 DEF Interrupt, TypeOK
<1> QED
  BY <1>3, <1>4, <1>5, <1>6, <1>7, <1>8, <1>9, <1>10, <1>11, <1>12, <1>13 DEF Next, Sync

\* What the first loop takes up: a file it still had on its list, with the row the
\* map has for it.
LEMMA TakeUpKnown ==
  ASSUME IInv, Fits, NEW f \in File, TakeUp(f)
  PROVE  /\ f \in entries /\ f \in walked /\ entries' = entries \ {f}
         /\ index' = [index EXCEPT ![f] = None] /\ index'[f] = None
         /\ \A g \in File : g # f => index'[g] = index[g]
         /\ cur'.file = f /\ cur'.content = vault[f] /\ pc = "files"
         /\ index[f] = None => pc' = "insert"
         /\ index[f] # None => pc' = "get" /\ cur'.id = index[f] /\ index[f] \in Id
<1>1. index \in [File -> Id \cup {None}] /\ entries \subseteq walked
  BY DEF IInv, TypeOK, TakeUp, Fits, MapFits, OnFiles
<1> QED BY <1>1 DEF TakeUp

\* What the second loop takes up: a row that the map still has when no file is left.
LEMMA TakeStaleKnown ==
  ASSUME IInv, Fits, NEW f \in File, TakeStale(f)
  PROVE  /\ index' = [index EXCEPT ![f] = None] /\ index'[f] = None
         /\ \A g \in File : g # f => index'[g] = index[g]
         /\ cur'.file = f /\ cur'.id = index[f] /\ index[f] \in Id /\ ext[index[f]] = f
         /\ entries = {} /\ pc = "stale" /\ pc' = "strip"
<1>1. index \in [File -> Id \cup {None}]
  BY DEF IInv, TypeOK
<1>2. cur' = [file |-> f, id |-> index[f], content |-> None]
  BY DEF TakeStale, NoEntry
<1>3. entries = {} /\ ext[index[f]] = f
  BY DEF TakeStale, Fits, MapFits, OnStale
<1> QED BY <1>1, <1>2, <1>3 DEF TakeStale

\* What is in hand goes on fitting.
LEMMA HandFitsStep ==
  ASSUME IInv, Fits, [Next]_vars, interrupts' = interrupts
  PROVE  HandFits'
<1> USE DEF storeVars, localVars, heldVars, cutVars, HoldsFile, HoldsStale
<1>0. RowsFit /\ HandFits /\ MapFits /\ TypeOK
  BY DEF IInv, Fits
<1>1. CASE EditVault \/ LoseAccess \/ Touch \/ UNCHANGED vars
  BY <1>0, <1>1 DEF EditVault, LoseAccess, Touch, vars, HandFits
<1>2. CASE Walk \/ ListRows \/ FilesDone \/ StaleDone \/ Finish
  BY <1>2 DEF Walk, ListRows, FilesDone, StaleDone, Finish, HandFits
<1>3. ASSUME NEW f \in File, FileStep(f) PROVE HandFits'
  <2>1. CASE SkipUnreadable(f) \/ SkipUnchanged(f)
    BY <2>1 DEF SkipUnreadable, SkipUnchanged, HandFits
  <2>2. CASE TakeUp(f)
    <3>1. index[f] = None => \A i \in Id : ext[i] # f
      BY <1>0, <2>2, TakeUpKnown DEF MapFits, OnFiles
    <3>2. index[f] # None => ext[index[f]] = f
      BY <1>0, <2>2, TakeUpKnown DEF MapFits, OnFiles
    <3>3. ext' = ext /\ walked' = walked
      BY <2>2 DEF TakeUp
    <3> QED BY <2>2, <3>1, <3>2, <3>3, TakeUpKnown DEF HandFits
  <2>3. CASE TakeStale(f)
    <3>1. ext' = ext /\ entries' = entries
      BY <2>3 DEF TakeStale
    <3> QED BY <2>3, <3>1, TakeStaleKnown DEF HandFits
  <2> QED BY <1>3, <2>1, <2>2, <2>3 DEF FileStep
<1>4. CASE GetNote
  <2>1. UNCHANGED <<note, ext, entries, index, cur, walked>> /\ pc = "get"
    BY <1>4 DEF GetNote
  <2> QED BY <1>0, <1>4, <2>1, GetFinds DEF HandFits
<1>5. CASE InsertNote
  BY <1>0, <1>5, InsertKnown DEF IInv, HandFits
<1>6. CASE UpdateNote
  <2>1. UNCHANGED <<ext, entries, index, cur, walked>> /\ pc = "update" /\ pc' = "tags"
    BY <1>6 DEF UpdateNote
  <2>2. \A i \in Id : ext[i] = cur.file => i = cur.id
    BY <1>0, <2>1, HandKnown DEF RowsFit, HandFits
  <2> QED BY <1>0, <2>1, <2>2 DEF HandFits
<1>7. CASE WriteTags \/ StripFrom \/ ListIncoming \/ RemoveEdge
  BY <1>0, <1>7 DEF WriteTags, StripFrom, ListIncoming, RemoveEdge, HandFits
<1>8. CASE WriteRow \/ ClearRow
  BY <1>8 DEF WriteRow, ClearRow, HandFits
<1>9. CASE DeleteNote
  <2>1. /\ UNCHANGED <<ext, entries, index, cur, walked>> /\ pc = "delete" /\ pc' = "clear"
        /\ note' = [note EXCEPT ![cur.id] = None]
    BY <1>9 DEF DeleteNote
  <2>2. note'[cur.id] = None
    BY <1>0, <2>1, HandKnown DEF TypeOK
  <2> QED BY <1>0, <2>1, <2>2 DEF HandFits
<1>10. CASE (\E u \in linkUpdates : ClearLinks(u)) \/ AddLink
  BY <1>10 DEF ClearLinks, AddLink, HandFits
<1>11. ~Interrupt
  BY <1>0 DEF Interrupt, TypeOK
<1> QED
  BY <1>1, <1>2, <1>3, <1>4, <1>5, <1>6, <1>7, <1>8, <1>9, <1>10, <1>11 DEF Next, Sync

\* The map goes on fitting the rows.
LEMMA MapStep ==
  ASSUME IInv, Fits, [Next]_vars, interrupts' = interrupts
  PROVE  MapFits'
<1> USE DEF storeVars, localVars, heldVars, cutVars, HoldsFile, HoldsStale, OnFiles, OnStale
<1>0. RowsFit /\ HandFits /\ MapFits /\ TypeOK
  BY DEF IInv, Fits
<1>1. CASE EditVault \/ LoseAccess \/ Touch \/ UNCHANGED vars
  BY <1>0, <1>1 DEF EditVault, LoseAccess, Touch, vars, MapFits
<1>2. CASE Walk
  BY <1>2 DEF Walk, MapFits
<1>3. CASE ListRows
  <2>1. pc = "list" /\ pc' = "files" /\ UNCHANGED <<entries, walked, ext>>
    BY <1>3 DEF ListRows
  <2>2. \A f \in File : IF RowsOf(f) = {} THEN index'[f] = None ELSE Newest(index'[f], f)
    BY <1>3 DEF ListRows
  <2>3. \A f \in File : index'[f] # None => ext[index'[f]] = f
    BY <2>2 DEF Newest, RowsOf
  <2>4. \A f \in File : index'[f] = None => \A i \in Id : ext[i] # f
    <3> SUFFICES ASSUME NEW f \in File, index'[f] = None, NEW i \in Id, ext[i] = f PROVE FALSE
      OBVIOUS
    <3>1. RowsOf(f) # {} BY DEF RowsOf
    <3>2. None \in Id BY <2>2, <3>1 DEF Newest, RowsOf
    <3> QED BY <3>2, VaultAssumption DEF Id
  <2> QED BY <1>0, <2>1, <2>3, <2>4 DEF MapFits
<1>4. ASSUME NEW f \in File, FileStep(f) PROVE MapFits'
  <2>1. CASE SkipUnreadable(f)
    BY <1>0, <2>1 DEF SkipUnreadable, MapFits
  <2>2. CASE SkipUnchanged(f)
    <3>1. /\ pc = "files" /\ pc' = "files" /\ f \in entries /\ entries' = entries \ {f}
          /\ index' = [index EXCEPT ![f] = None] /\ UNCHANGED <<ext, walked>>
      BY <2>2 DEF SkipUnchanged
    <3>2. index'[f] = None /\ \A g \in File : g # f => index'[g] = index[g]
      BY <1>0, <3>1 DEF TypeOK
    <3> QED BY <1>0, <3>1, <3>2 DEF MapFits
  <2>3. CASE TakeUp(f)
    <3>1. UNCHANGED <<ext, walked>>
      BY <2>3 DEF TakeUp
    <3> QED BY <1>0, <2>3, <3>1, TakeUpKnown DEF MapFits
  <2>4. CASE TakeStale(f)
    <3>1. UNCHANGED <<ext, walked, entries>>
      BY <2>4 DEF TakeStale
    <3> QED BY <1>0, <2>4, <3>1, TakeStaleKnown DEF MapFits
  <2> QED BY <1>4, <2>1, <2>2, <2>3, <2>4 DEF FileStep
<1>5. CASE GetNote
  <2>1. UNCHANGED <<ext, entries, index, walked>> /\ pc = "get"
    BY <1>5 DEF GetNote
  <2> QED BY <1>0, <1>5, <2>1, GetFinds DEF MapFits
<1>6. CASE InsertNote
  BY <1>0, <1>6, InsertKnown DEF IInv, MapFits
<1>7. CASE UpdateNote \/ WriteTags
  BY <1>0, <1>7 DEF UpdateNote, WriteTags, MapFits
<1>8. CASE WriteRow
  <2>1. /\ pc = "row" /\ pc' = "files" /\ UNCHANGED <<entries, index, walked>>
        /\ ext' = [ext EXCEPT ![cur.id] = cur.file]
    BY <1>8 DEF WriteRow
  <2>2. ext'[cur.id] = cur.file /\ \A i \in Id : i # cur.id => ext'[i] = ext[i]
    BY <1>0, <2>1, HandKnown DEF TypeOK
  <2>3. \A f \in File : index[f] # None => index[f] # cur.id /\ index[f] \in Id
    <3> SUFFICES ASSUME NEW f \in File, index[f] # None PROVE index[f] # cur.id /\ index[f] \in Id
      OBVIOUS
    <3>1. ext[index[f]] = f /\ index[f] \in Id BY <1>0, <2>1 DEF MapFits, TypeOK
    <3>2. f # None BY HandKnown
    <3>3. f # cur.file BY <1>0, <2>1 DEF HandFits
    <3> QED BY <1>0, <2>1, <3>1, <3>2, <3>3 DEF HandFits
  <2>4. cur.file \in walked /\ cur.file \notin entries
    BY <1>0, <2>1 DEF HandFits
  <2> QED BY <1>0, <2>1, <2>2, <2>3, <2>4 DEF MapFits
<1>9. CASE FilesDone
  BY <1>0, <1>9 DEF FilesDone, MapFits
<1>10. CASE StripFrom \/ ListIncoming \/ RemoveEdge \/ DeleteNote
  BY <1>0, <1>10 DEF StripFrom, ListIncoming, RemoveEdge, DeleteNote, MapFits
<1>11. CASE ClearRow
  <2>1. /\ pc = "clear" /\ pc' = "stale" /\ UNCHANGED <<entries, index, walked>>
        /\ ext' = [ext EXCEPT ![cur.id] = None]
    BY <1>11 DEF ClearRow
  <2>2. ext'[cur.id] = None /\ \A i \in Id : i # cur.id => ext'[i] = ext[i]
    BY <1>0, <2>1, HandKnown DEF TypeOK
  <2>3. ext[cur.id] = cur.file /\ cur.file # None /\ cur.id \in Id /\ None \notin File
    BY <1>0, <2>1, HandKnown DEF HandFits
  <2>4. \A i \in Id : ext[i] = cur.file => i = cur.id
    BY <1>0, <2>3 DEF RowsFit
  <2>5. \A f \in File : index[f] # None => index[f] # cur.id /\ index[f] \in Id
    BY <1>0, <2>1, <2>3 DEF HandFits, MapFits, TypeOK
  <2> QED BY <1>0, <2>1, <2>2, <2>3, <2>4, <2>5 DEF MapFits
<1>12. CASE StaleDone \/ Finish
  BY <1>0, <1>12 DEF StaleDone, Finish, MapFits
<1>13. CASE (\E u \in linkUpdates : ClearLinks(u)) \/ AddLink
  BY <1>0, <1>13 DEF ClearLinks, AddLink, MapFits
<1>14. ~Interrupt
  BY <1>0 DEF Interrupt, TypeOK
<1> QED
  BY <1>1, <1>2, <1>3, <1>4, <1>5, <1>6, <1>7, <1>8, <1>9, <1>10, <1>11, <1>12, <1>13, <1>14
  DEF Next, Sync

\* In a calm vault, what sync() has done with stays shown.
LEMMA CalmStep ==
  ASSUME IInv, Fits, [Next]_vars, interrupts' = interrupts
  PROVE  CalmFits'
<1> USE DEF storeVars, localVars, heldVars, cutVars, HoldsFile, HoldsStale, OnFiles, OnStale
<1>0. RowsFit /\ HandFits /\ MapFits /\ CalmFits /\ TypeOK
  BY DEF IInv, Fits
<1>a. calm => walked = Present /\ walked \subseteq File
  BY <1>0 DEF CalmFits, Present
<1>1. CASE EditVault \/ LoseAccess
  BY <1>1 DEF EditVault, LoseAccess, CalmFits
<1>2. CASE Touch \/ UNCHANGED vars
  BY <1>0, <1>2 DEF Touch, vars, sourceVars, CalmFits, Shown, Present
<1>3. CASE Walk
  BY <1>3 DEF Walk, CalmFits, Present
<1>4. CASE ListRows
  <2>1. pc = "list" /\ pc' = "files" /\ UNCHANGED <<entries, walked, calm, vault, unreadable>>
    BY <1>4 DEF ListRows, sourceVars
  <2>2. walked' \ entries' = {} BY <1>0, <2>1 DEF MapFits
  <2> QED BY <1>0, <2>1, <2>2 DEF CalmFits, Present
<1>5. ASSUME NEW f \in File, FileStep(f) PROVE CalmFits'
  <2>0. UNCHANGED <<walked, calm, vault, unreadable, ext, note, hash>>
    BY <1>5 DEF FileStep, SkipUnreadable, SkipUnchanged, TakeUp, TakeStale, sourceVars
  <2>a. Present' = Present BY <2>0 DEF Present
  <2>b. \A g \in File : Shown(g)' = Shown(g) BY <2>0 DEF Shown
  <2>1. CASE SkipUnreadable(f)
    <3>1. pc = "files" /\ pc' = "files" /\ f \in entries /\ ~Readable(f)
      BY <2>1 DEF SkipUnreadable
    <3>2. ~(calm /\ unreadable = {})
      BY <1>0, <1>a, <3>1 DEF Readable, MapFits
    <3> QED BY <1>a, <2>0, <2>a, <3>1, <3>2 DEF CalmFits
  <2>2. CASE SkipUnchanged(f)
    <3>1. /\ pc = "files" /\ pc' = "files" /\ f \in entries /\ entries' = entries \ {f}
          /\ index' = [index EXCEPT ![f] = None]
          /\ index[f] # None /\ hash[index[f]] = vault[f].body
      BY <2>2 DEF SkipUnchanged
    <3>2. index'[f] = None /\ \A g \in File : g # f => index'[g] = index[g]
      BY <1>0, <3>1 DEF TypeOK
    <3>3. index[f] \in Id /\ ext[index[f]] = f /\ f # None
      BY <1>0, <3>1, HandKnown DEF TypeOK, MapFits
    <3>4. note[index[f]] = hash[index[f]]
      BY <1>0, <3>1, <3>3 DEF RowsFit
    <3>5. Shown(f) BY <3>1, <3>3, <3>4 DEF Shown
    <3>6. calm /\ unreadable = {} => \A g \in walked \ entries : index[g] = None /\ Shown(g)
      BY <1>0, <3>1 DEF CalmFits
    <3> QED BY <1>a, <2>0, <2>a, <2>b, <3>1, <3>2, <3>5, <3>6 DEF CalmFits
  <2>3. CASE TakeUp(f)
    <3>1. calm /\ unreadable = {} => \A g \in walked \ entries : index[g] = None /\ Shown(g)
      BY <1>0, <2>3 DEF CalmFits, TakeUp
    <3>2. pc' \in {"get", "insert"} BY <2>3 DEF TakeUp
    <3>3. /\ entries' = entries \ {f} /\ cur'.file = f /\ cur'.content = vault[f]
          /\ \A g \in File : g # f => index'[g] = index[g]
      BY <2>3, TakeUpKnown
    <3> QED BY <1>a, <2>0, <2>a, <2>b, <3>1, <3>2, <3>3 DEF CalmFits
  <2>4. CASE TakeStale(f)
    <3>1. calm /\ unreadable = {} => \A g \in walked : index[g] = None /\ Shown(g)
      BY <1>0, <2>4, TakeStaleKnown DEF CalmFits
    <3>2. index[f] # None /\ entries' = entries BY <2>4 DEF TakeStale
    <3>3. /\ cur'.file = f /\ pc' = "strip" /\ entries = {}
          /\ \A g \in File : g # f => index'[g] = index[g]
      BY <2>4, TakeStaleKnown
    <3> QED BY <1>a, <2>0, <2>a, <2>b, <3>1, <3>2, <3>3 DEF CalmFits
  <2> QED BY <1>5, <2>1, <2>2, <2>3, <2>4 DEF FileStep
<1>6. CASE GetNote
  <2>1. UNCHANGED <<ext, note, entries, index, walked, cur, calm, vault, unreadable>> /\ pc = "get"
    BY <1>6 DEF GetNote, sourceVars
  <2> QED BY <1>0, <1>6, <2>1, GetFinds DEF CalmFits, Shown, Present
<1>7. CASE InsertNote
  <2>1. UNCHANGED <<calm, vault, unreadable>> /\ Present' = Present
    BY <1>7 DEF InsertNote, sourceVars, Present
  <2>2. \A i \in Id : i # lastId + 1 => note'[i] = note[i]
    BY <1>0, <1>7, InsertKnown DEF IInv, TypeOK
  <2>3. \A g \in File : Shown(g) => Shown(g)'
    BY <1>7, <2>1, <2>2, InsertKnown, HandKnown DEF IInv, Shown
  <2> QED BY <1>0, <1>a, <1>7, <2>1, <2>3, InsertKnown DEF CalmFits
<1>8. CASE UpdateNote
  <2>1. /\ UNCHANGED <<ext, entries, index, walked, cur, calm, vault, unreadable>> /\ Present' = Present
        /\ note' = [note EXCEPT ![cur.id] = cur.content.body] /\ pc = "update" /\ pc' = "tags"
    BY <1>8 DEF UpdateNote, sourceVars, Present
  <2>2. \A i \in Id : i # cur.id => note'[i] = note[i]
    BY <1>0, <2>1 DEF TypeOK
  <2>3. ext[cur.id] = cur.file BY <1>0, <2>1 DEF HandFits
  <2>4. \A g \in File : g # cur.file /\ Shown(g) => Shown(g)'
    BY <2>1, <2>2, <2>3 DEF Shown
  <2> QED BY <1>0, <1>a, <2>1, <2>4 DEF CalmFits
<1>9. CASE WriteTags
  BY <1>0, <1>9 DEF WriteTags, sourceVars, CalmFits, Shown, Present
<1>10. CASE WriteRow
  <2>1. /\ UNCHANGED <<note, entries, index, walked, calm, vault, unreadable>> /\ Present' = Present
        /\ ext' = [ext EXCEPT ![cur.id] = cur.file] /\ pc = "row" /\ pc' = "files"
    BY <1>10 DEF WriteRow, sourceVars, Present
  <2>2. ext'[cur.id] = cur.file /\ \A i \in Id : i # cur.id => ext'[i] = ext[i]
    BY <1>0, <2>1, HandKnown DEF TypeOK
  <2>3. calm => note[cur.id] = vault[cur.file].body
    BY <1>0, <2>1 DEF IInv, Written, CalmFits
  <2>h. PICK h : h = cur.file OBVIOUS
  <2>4. calm => Shown(h)'
    BY <2>1, <2>2, <2>3, <2>h, HandKnown DEF Shown
  <2>5. ext[cur.id] \in {None, cur.file} /\ index[cur.file] = None
    BY <1>0, <2>1 DEF HandFits
  <2>6. \A g \in File : g # h /\ Shown(g) => Shown(g)'
    BY <2>1, <2>2, <2>5, <2>h, HandKnown DEF Shown
  <2>7. calm /\ unreadable = {} => \A g \in walked \ entries : g = h \/ (index[g] = None /\ Shown(g))
    BY <1>0, <2>1, <2>h DEF CalmFits
  <2> QED BY <1>0, <1>a, <2>1, <2>h, <2>4, <2>5, <2>6, <2>7 DEF CalmFits
<1>11. CASE FilesDone
  BY <1>0, <1>11 DEF FilesDone, sourceVars, CalmFits, Shown, Present
<1>12. CASE StripFrom \/ ListIncoming \/ RemoveEdge
  BY <1>0, <1>12 DEF StripFrom, ListIncoming, RemoveEdge, sourceVars, CalmFits, Shown, Present
<1>13. CASE DeleteNote
  <2>1. /\ UNCHANGED <<ext, entries, index, walked, cur, calm, vault, unreadable>> /\ Present' = Present
        /\ note' = [note EXCEPT ![cur.id] = None] /\ pc = "delete" /\ pc' = "clear"
    BY <1>13 DEF DeleteNote, sourceVars, Present
  <2>2. \A i \in Id : i # cur.id => note'[i] = note[i]
    BY <1>0, <2>1 DEF TypeOK
  <2>3. ext[cur.id] = cur.file BY <1>0, <2>1 DEF HandFits
  <2>4. \A g \in File : g # cur.file /\ Shown(g) => Shown(g)'
    BY <2>1, <2>2, <2>3 DEF Shown
  <2> QED BY <1>0, <1>a, <2>1, <2>4 DEF CalmFits
<1>14. CASE ClearRow
  <2>1. /\ UNCHANGED <<note, entries, index, walked, calm, vault, unreadable>> /\ Present' = Present
        /\ ext' = [ext EXCEPT ![cur.id] = None] /\ pc = "clear" /\ pc' = "stale"
    BY <1>14 DEF ClearRow, sourceVars, Present
  <2>2. \A i \in Id : i # cur.id => ext'[i] = ext[i]
    BY <1>0, <2>1 DEF TypeOK
  <2>3. ext[cur.id] = cur.file BY <1>0, <2>1 DEF HandFits
  <2>4. \A g \in File : g # cur.file /\ Shown(g) => Shown(g)'
    BY <2>1, <2>2, <2>3 DEF Shown
  <2> QED BY <1>0, <1>a, <2>1, <2>4 DEF CalmFits
<1>15. CASE StaleDone \/ Finish
  BY <1>0, <1>15 DEF StaleDone, Finish, sourceVars, CalmFits, Shown, Present
<1>16. CASE (\E u \in linkUpdates : ClearLinks(u)) \/ AddLink
  BY <1>0, <1>16 DEF ClearLinks, AddLink, sourceVars, CalmFits, Shown, Present
<1>17. ~Interrupt
  BY <1>0 DEF Interrupt, TypeOK
<1> QED
  BY <1>1, <1>2, <1>3, <1>4, <1>5, <1>6, <1>7, <1>8, <1>9, <1>10, <1>11, <1>12, <1>13, <1>14,
     <1>15, <1>16, <1>17 DEF Next, Sync

\* Edges go on joining notes, and the link updates keep their rows.
LEMMA EdgesStep ==
  ASSUME IInv, Fits, [Next]_vars, interrupts' = interrupts
  PROVE  EdgesFit'
<1> USE DEF storeVars, localVars, heldVars, cutVars, HoldsFile, HoldsStale, OnFiles, OnStale
<1>0. RowsFit /\ HandFits /\ MapFits /\ EdgesFit /\ TypeOK
  BY DEF IInv, Fits
<1>a. \A u \in linkUpdates : u[1] \in Id /\ u[2] \in Body
  BY <1>0 DEF TypeOK
<1>b. walked \subseteq File /\ None \notin File
  BY <1>0, HandKnown DEF TypeOK
<1>1. CASE EditVault \/ LoseAccess \/ Touch \/ UNCHANGED vars
  BY <1>0, <1>1 DEF EditVault, LoseAccess, Touch, vars, EdgesFit
<1>2. CASE Walk
  BY <1>0, <1>2 DEF Walk, EdgesFit
<1>3. CASE ListRows
  <2>1. pc = "list" /\ pc' = "files" /\ UNCHANGED <<edges, note, linkUpdates, pending>>
    BY <1>3 DEF ListRows
  <2> QED BY <1>0, <2>1 DEF EdgesFit
<1>4. ASSUME NEW f \in File, FileStep(f) PROVE EdgesFit'
  <2>0. UNCHANGED <<edges, note, linkUpdates, pending, ext, walked>>
    BY <1>4 DEF FileStep, SkipUnreadable, SkipUnchanged, TakeUp, TakeStale
  <2>1. CASE SkipUnreadable(f)
    BY <1>0, <2>1 DEF SkipUnreadable, EdgesFit
  <2>2. CASE SkipUnchanged(f)
    <3>1. /\ pc = "files" /\ pc' = "files" /\ entries' = entries \ {f}
          /\ index' = [index EXCEPT ![f] = None]
      BY <2>2 DEF SkipUnchanged
    <3>2. index'[f] = None /\ \A g \in File : g # f => index'[g] = index[g]
      BY <1>0, <3>1 DEF TypeOK
    <3> QED BY <1>0, <1>b, <2>0, <3>1, <3>2 DEF EdgesFit
  <2>3. CASE TakeUp(f)
    <3>1. pc = "files" /\ pc' \in {"get", "insert"} BY <2>3 DEF TakeUp
    <3>2. /\ f \in entries /\ entries' = entries \ {f} /\ cur'.file = f
          /\ index'[f] = None /\ \A g \in File : g # f => index'[g] = index[g]
      BY <2>3, TakeUpKnown
    <3> QED BY <1>0, <1>b, <2>0, <3>1, <3>2 DEF EdgesFit
  <2>4. CASE TakeStale(f)
    <3>1. index[f] # None /\ entries' = entries BY <2>4 DEF TakeStale
    <3>2. /\ pc = "stale" /\ pc' = "strip" /\ cur'.file = f
          /\ index'[f] = None /\ \A g \in File : g # f => index'[g] = index[g]
      BY <2>4, TakeStaleKnown
    <3> QED BY <1>0, <1>b, <2>0, <3>1, <3>2 DEF EdgesFit
  <2> QED BY <1>4, <2>1, <2>2, <2>3, <2>4 DEF FileStep
<1>5. CASE GetNote
  <2>1. UNCHANGED <<edges, note, linkUpdates, pending, ext, walked, entries, index, cur>> /\ pc = "get"
    BY <1>5 DEF GetNote
  <2> QED BY <1>0, <1>5, <2>1, GetFinds DEF EdgesFit
<1>6. CASE InsertNote
  <2>1. \A i \in Id : note[i] # None => note'[i] # None
    <3>1. cur.content.body # None BY <1>6, InsertKnown, HandKnown DEF IInv
    <3> QED BY <1>0, <1>6, <3>1, InsertKnown DEF IInv, TypeOK
  <2>2. \A e \in edges : e[1] \in Id /\ e[2] \in Id BY <1>0 DEF TypeOK
  <2> QED BY <1>0, <1>a, <1>6, <2>1, <2>2, InsertKnown DEF IInv, EdgesFit
<1>7. CASE UpdateNote
  <2>1. /\ UNCHANGED <<edges, linkUpdates, pending, ext, walked, entries, index, cur>>
        /\ note' = [note EXCEPT ![cur.id] = cur.content.body] /\ pc = "update" /\ pc' = "tags"
    BY <1>7 DEF UpdateNote
  <2>2. \A i \in Id : note[i] # None => note'[i] # None
    BY <1>0, <2>1, HandKnown DEF TypeOK
  <2>3. \A e \in edges : e[1] \in Id /\ e[2] \in Id BY <1>0 DEF TypeOK
  <2> QED BY <1>0, <1>a, <2>1, <2>2, <2>3 DEF EdgesFit
<1>8. CASE WriteTags \/ FilesDone
  BY <1>0, <1>8 DEF WriteTags, FilesDone, EdgesFit
<1>9. CASE WriteRow
  <2>1. /\ UNCHANGED <<edges, note, pending, walked, entries, index>> /\ pc = "row" /\ pc' = "files"
        /\ ext' = [ext EXCEPT ![cur.id] = cur.file]
        /\ linkUpdates' = linkUpdates \cup {<<cur.id, cur.content.body>>}
    BY <1>9 DEF WriteRow
  <2>2. ext'[cur.id] = cur.file /\ \A i \in Id : i # cur.id => ext'[i] = ext[i]
    BY <1>0, <2>1, HandKnown DEF TypeOK
  <2>3. /\ cur.file \in walked \ entries /\ index[cur.file] = None /\ note[cur.id] # None
        /\ ext[cur.id] \in {None, cur.file}
    BY <1>0, <2>1, HandKnown DEF HandFits
  <2>4. ASSUME NEW u \in linkUpdates'
        PROVE  /\ note[u[1]] # None /\ ext'[u[1]] \in walked \ entries
               /\ index[ext'[u[1]]] = None
    <3>1. CASE u = <<cur.id, cur.content.body>>
      BY <2>2, <2>3, <3>1
    <3>2. CASE u \in linkUpdates
      <4>1. /\ note[u[1]] # None /\ ext[u[1]] \in walked \ entries
            /\ index[ext[u[1]]] = None /\ ext[u[1]] # cur.file
        BY <1>0, <2>1, <3>2 DEF EdgesFit
      <4>2. u[1] # cur.id BY <1>b, <2>3, <4>1
      <4> QED BY <1>a, <2>2, <3>2, <4>1, <4>2
    <3> QED BY <2>1, <3>1, <3>2
  <2> QED BY <1>0, <2>1, <2>4 DEF EdgesFit
<1>10. CASE StripFrom \/ ListIncoming \/ RemoveEdge
  <2>1. UNCHANGED <<note, linkUpdates, ext, walked, entries, index, cur>>
    BY <1>10 DEF StripFrom, ListIncoming, RemoveEdge
  <2>2. CASE StripFrom
    <3>1. /\ pc = "strip" /\ pc' = "incoming" /\ pending' = pending
          /\ edges' = {e \in edges : e[1] # cur.id}
      BY <2>2 DEF StripFrom
    <3> QED BY <1>0, <2>1, <3>1 DEF EdgesFit
  <2>3. CASE ListIncoming
    <3>1. /\ pc = "incoming" /\ pc' = "delete" /\ edges' = edges
          /\ pending' = {e \in edges : e[2] = cur.id}
      BY <2>3 DEF ListIncoming
    <3> QED BY <1>0, <2>1, <3>1 DEF EdgesFit
  <2>4. CASE RemoveEdge
    <3>1. PICK d \in pending : edges' = edges \ {d} /\ pending' = pending \ {d}
      BY <2>4 DEF RemoveEdge
    <3>2. pc = "delete" /\ pc' = "delete" BY <2>4 DEF RemoveEdge
    <3> QED BY <1>0, <2>1, <3>1, <3>2 DEF EdgesFit
  <2> QED BY <1>10, <2>2, <2>3, <2>4
<1>11. CASE DeleteNote
  <2>1. /\ UNCHANGED <<edges, linkUpdates, pending, ext, walked, entries, index, cur>>
        /\ note' = [note EXCEPT ![cur.id] = None] /\ pc = "delete" /\ pc' = "clear"
        /\ pending = {} /\ pending' = {}
    BY <1>11 DEF DeleteNote
  <2>2. \A i \in Id : i # cur.id => note'[i] = note[i] BY <1>0, <2>1 DEF TypeOK
  <2>3. ext[cur.id] = cur.file BY <1>0, <2>1 DEF HandFits
  <2>4. \A u \in linkUpdates : u[1] # cur.id BY <1>0, <2>1, <2>3 DEF EdgesFit
  <2>5. \A e \in edges : e[1] \in Id /\ e[2] \in Id BY <1>0 DEF TypeOK
  <2> QED BY <1>0, <1>a, <2>1, <2>2, <2>4, <2>5 DEF EdgesFit
<1>12. CASE ClearRow
  <2>1. /\ UNCHANGED <<edges, note, linkUpdates, pending, walked, entries, index>>
        /\ ext' = [ext EXCEPT ![cur.id] = None] /\ pc = "clear" /\ pc' = "stale"
    BY <1>12 DEF ClearRow
  <2>2. \A i \in Id : i # cur.id => ext'[i] = ext[i] BY <1>0, <2>1 DEF TypeOK
  <2>3. ext[cur.id] = cur.file BY <1>0, <2>1 DEF HandFits
  <2>4. \A u \in linkUpdates : u[1] # cur.id BY <1>0, <2>1, <2>3 DEF EdgesFit
  <2> QED BY <1>0, <1>a, <2>1, <2>2, <2>4 DEF EdgesFit
<1>13. CASE StaleDone \/ Finish
  BY <1>0, <1>13 DEF StaleDone, Finish, EdgesFit
<1>14. ASSUME NEW u \in linkUpdates, ClearLinks(u) PROVE EdgesFit'
  <2>1. /\ UNCHANGED <<note, ext, walked, entries, index, cur, pc>> /\ pc = "links"
        /\ edges' \subseteq edges /\ pending' = {<<u[1], t>> : t \in Targets(u[1], u[2])}
        /\ linkUpdates' \subseteq linkUpdates
    BY <1>14 DEF ClearLinks
  <2>2. note[u[1]] # None BY <1>0, <2>1 DEF EdgesFit
  <2>3. ASSUME NEW t \in Targets(u[1], u[2]) PROVE note[t] # None
    <3>1. PICK f \in LinksOf[u[2]] : Newest(t, f) BY DEF Targets
    <3>2. t \in Id /\ f \in File BY <1>a, <3>1, VaultAssumption DEF Targets
    <3>3. ext[t] = f BY <3>1 DEF Newest, RowsOf
    <3> QED BY <1>0, <1>b, <2>1, <3>2, <3>3 DEF RowsFit
  <2>4. \A e \in pending' : note[e[1]] # None /\ note[e[2]] # None
    BY <2>1, <2>2, <2>3
  <2> QED BY <1>0, <2>1, <2>4 DEF EdgesFit
<1>16. CASE AddLink
  <2>1. PICK d \in pending : edges' = edges \cup {d} /\ pending' = pending \ {d}
    BY <1>16 DEF AddLink
  <2>2. UNCHANGED <<note, ext, walked, entries, index, cur, pc, linkUpdates>> /\ pc = "links"
    BY <1>16 DEF AddLink
  <2> QED BY <1>0, <2>1, <2>2 DEF EdgesFit
<1>15. ~Interrupt
  BY <1>0 DEF Interrupt, TypeOK
<1> QED
  BY <1>1, <1>2, <1>3, <1>4, <1>5, <1>6, <1>7, <1>8, <1>9, <1>10, <1>11, <1>12, <1>13, <1>14,
     <1>15, <1>16 DEF Next, Sync

\* Uncut is inductive: a sync that is cut off makes it say nothing.
LEMMA UncutAlways == Spec => []Uncut
<1>1. Init => Uncut
  <2> SUFFICES ASSUME Init PROVE Fits BY DEF Uncut
  <2> USE VaultAssumption DEF Init, HoldsFile, HoldsStale, OnFiles, OnStale
  <2>1. RowsFit /\ HandFits /\ MapFits BY DEF RowsFit, HandFits, MapFits
  <2>2. CalmFits /\ EdgesFit BY DEF CalmFits, EdgesFit, Present
  <2> QED BY <2>1, <2>2 DEF Fits
<1>2. IInv /\ Uncut /\ [Next]_vars => Uncut'
  <2> SUFFICES ASSUME IInv, Uncut, [Next]_vars, interrupts' = 0 PROVE Fits'
    BY DEF Uncut
  <2>1. interrupts \in Nat BY DEF IInv, TypeOK
  <2>2. interrupts' = interrupts \/ interrupts' = interrupts + 1
    BY DEF Next, Sync, vars, cutVars, EditVault, LoseAccess, Touch, Interrupt, Walk, ListRows, FileStep,
       SkipUnreadable, SkipUnchanged, TakeUp, TakeStale, GetNote, InsertNote, UpdateNote, WriteTags,
       WriteRow, FilesDone, StripFrom, ListIncoming, RemoveEdge, DeleteNote, ClearRow, StaleDone,
       ClearLinks, AddLink, Finish
  <2>3. interrupts' = interrupts /\ Fits BY <2>1, <2>2 DEF Uncut
  <2> QED BY <2>3, RowsStep, HandFitsStep, MapStep, CalmStep, EdgesStep DEF Fits
<1> QED BY <1>1, <1>2, Invariance, PTL DEF Spec

\* After a calm sync notes and files correspond one to one.
LEMMA OneNotePerFile ==
  ASSUME IInv, Fits, pc = "done", calm, unreadable = {}
  PROVE  /\ \A f \in Present : Cardinality({i \in RowsOf(f) : note[i] = vault[f].body}) = 1
         /\ Cardinality(Notes) = Cardinality(Present)
<1> USE DEF HoldsFile, HoldsStale, OnFiles, OnStale
<1>0. RowsFit /\ MapFits /\ CalmFits /\ TypeOK
  BY DEF IInv, Fits
<1>1. walked = Present /\ entries = {} /\ Present \subseteq File /\ None \notin File
  BY <1>0, HandKnown DEF CalmFits, MapFits, Present
<1>2. \A f \in Present : \E i \in Id : ext[i] = f /\ note[i] = vault[f].body /\ note[i] # None
  <2> SUFFICES ASSUME NEW f \in Present
               PROVE  \E i \in Id : ext[i] = f /\ note[i] = vault[f].body /\ note[i] # None
    OBVIOUS
  <2>1. PICK i \in Id : ext[i] = f /\ note[i] = vault[f].body
    BY <1>0, <1>1 DEF CalmFits, Shown
  <2>2. note[i] # None BY <1>0, <1>1, <2>1 DEF RowsFit
  <2> QED BY <2>1, <2>2
<1>3. \A i \in Notes : ext[i] \in Present
  <2> SUFFICES ASSUME NEW i \in Notes PROVE ext[i] \in Present
    OBVIOUS
  <2>1. i \in Id /\ ext[i] # None BY <1>0 DEF RowsFit, Notes
  <2>2. ext[i] \in File BY <1>0, <2>1 DEF TypeOK
  <2>3. index[ext[i]] = None BY <1>0, <2>2 DEF MapFits
  <2> QED BY <1>0, <1>1, <2>1, <2>2, <2>3 DEF MapFits
<1>4. \A i, j \in Notes : ext[i] = ext[j] => i = j
  BY <1>0 DEF RowsFit, Notes
<1>5. ASSUME NEW f \in Present
      PROVE  Cardinality({i \in RowsOf(f) : note[i] = vault[f].body}) = 1
  <2>1. PICK i \in Id : ext[i] = f /\ note[i] = vault[f].body
    BY <1>2
  <2>2. {j \in RowsOf(f) : note[j] = vault[f].body} = {i}
    BY <1>0, <1>1, <2>1 DEF RowsFit, RowsOf
  <2> QED BY <2>2, FS_Singleton
<1>6. Cardinality(Notes) = Cardinality(Present)
  <2>1. IsFiniteSet(Notes)
    <3>1. IsFiniteSet(1..MaxId) BY FS_Interval, VaultAssumption
    <3> QED BY <3>1, FS_Subset DEF Notes, Id
  <2> DEFINE b == [i \in Notes |-> ext[i]]
  <2>2. b \in [Notes -> Present] BY <1>3
  <2>3. \A i, j \in Notes : b[i] = b[j] => i = j BY <1>4
  <2>4. \A f \in Present : \E i \in Notes : b[i] = f BY <1>2 DEF Notes
  <2>5. b \in Bijection(Notes, Present)
    BY <2>2, <2>3, <2>4 DEF Bijection, Injection, Surjection, IsInjective
  <2>6. ExistsBijection(Notes, Present) BY <2>5 DEF ExistsBijection
  <2> QED BY <2>1, <2>6, FS_Bijection
<1> QED BY <1>5, <1>6

\* "Each .md file becomes one Note": whatever is edited, read or lost between two calls
\* of sync(), as long as none is cut off, a sync of a vault that kept still leaves one
\* note for every file and none besides; and no edge ever joins a note that is gone.
THEOREM NotesAreMirrors == Spec => []NotesMirrorFiles
<1>1. IInv /\ Uncut => NotesMirrorFiles
  <2> SUFFICES ASSUME IInv, Fits
               PROVE  /\ pc = "done" /\ calm /\ unreadable = {} =>
                           /\ \A f \in Present :
                                Cardinality({i \in RowsOf(f) : note[i] = vault[f].body}) = 1
                           /\ Cardinality(Notes) = Cardinality(Present)
                      /\ \A e \in edges : {e[1], e[2]} \subseteq Notes
    BY DEF Uncut, NotesMirrorFiles
  <2>1. \A e \in edges : {e[1], e[2]} \subseteq Notes
    BY DEF IInv, TypeOK, Fits, EdgesFit, Notes
  <2> QED BY <2>1, OneNotePerFile
<1> QED BY <1>1, Invariance, UncutAlways, PTL

-----------------------------------------------------------------------------
\* Notes attached behind the row's back are stamped newer than it, so that get_note()
\* sees them; and one that is written over and was attached before is in the report.
Reported ==
  /\ touched \subseteq newer
  /\ \A i \in Id : note[i] # None => i <= lastId
  /\ \A i \in touched : i <= lastId
  /\ pc \in {"update", "tags", "row"} /\ cur.id \in touched => cur.file \in conflicts

\* Reported is kept by every step, wherever syncs are cut off.
LEMMA ReportedStep ==
  ASSUME IInv, Reported, [Next]_vars
  PROVE  Reported'
<1> USE VaultAssumption DEF storeVars, localVars, heldVars, cutVars, touchVars, Reported
<1>0. TypeOK /\ InHand /\ NoneAhead /\ lastId \in Nat
  BY DEF IInv, TypeOK
<1>1. CASE EditVault \/ LoseAccess \/ UNCHANGED vars
  BY <1>1 DEF EditVault, LoseAccess, vars
<1>2. CASE Touch
  <2>1. PICK i \in Notes :
          /\ newer' = newer \cup {i}
          /\ touched' = touched \cup (IF Looked(i) THEN {} ELSE {i})
    BY <1>2 DEF Touch
  <2>2. UNCHANGED <<note, lastId, pc, cur, conflicts>>
    BY <1>2 DEF Touch
  <2>3. i \in Id /\ i <= lastId
    BY DEF Notes
  <2> QED BY <2>1, <2>2, <2>3 DEF Looked
<1>3. CASE Interrupt \/ Walk \/ ListRows \/ FilesDone \/ StaleDone \/ Finish
  BY <1>3 DEF Interrupt, Walk, ListRows, FilesDone, StaleDone, Finish
<1>4. ASSUME NEW f \in File, FileStep(f) PROVE Reported'
  BY <1>4 DEF FileStep, SkipUnreadable, SkipUnchanged, TakeUp, TakeStale
<1>5. CASE GetNote
  BY <1>5 DEF GetNote
<1>6. CASE InsertNote
  <2>1. /\ lastId + 1 \in Id /\ cur'.id = lastId + 1 /\ lastId' = lastId + 1
        /\ note' = [note EXCEPT ![lastId + 1] = cur.content.body]
        /\ UNCHANGED <<newer, touched, conflicts>>
    BY <1>6, InsertKnown DEF InsertNote
  <2>2. \A i \in Id : i # lastId + 1 => note'[i] = note[i]
    BY <1>0, <2>1 DEF TypeOK
  <2>3. \A i \in Id : i <= lastId => i <= lastId + 1
    BY <1>0 DEF Id
  <2>4. touched \subseteq Id BY <1>0 DEF TypeOK
  <2>5. ~(lastId + 1 <= lastId) /\ lastId + 1 <= lastId + 1 BY <1>0
  <2> QED BY <2>1, <2>2, <2>3, <2>4, <2>5
<1>7. CASE UpdateNote
  <2>1. /\ cur.id \in Id /\ note' = [note EXCEPT ![cur.id] = cur.content.body]
        /\ newer' = newer \cup {cur.id} /\ pc = "update"
        /\ UNCHANGED <<lastId, touched, conflicts, cur>>
    BY <1>0, <1>7 DEF UpdateNote, InHand
  <2>2. \A i \in Id : i # cur.id => note'[i] = note[i]
    BY <1>0, <2>1 DEF TypeOK
  <2>3. cur.id <= lastId BY <1>0 DEF NoneAhead
  <2> QED BY <2>1, <2>2, <2>3
<1>8. CASE WriteTags \/ StripFrom \/ ListIncoming \/ RemoveEdge \/ ClearRow
  BY <1>8 DEF WriteTags, StripFrom, ListIncoming, RemoveEdge, ClearRow
<1>9. CASE WriteRow
  BY <1>9 DEF WriteRow
<1>10. CASE DeleteNote
  <2>1. /\ note' = [note EXCEPT ![cur.id] = None] /\ pc' = "clear"
        /\ newer' = newer \ {cur.id} /\ touched' = touched \ {cur.id} /\ lastId' = lastId
    BY <1>10 DEF DeleteNote
  <2>2. \A i \in Id : note'[i] # None => note[i] # None
    BY <1>0, <2>1 DEF TypeOK
  <2> QED BY <2>1, <2>2
<1>11. CASE (\E u \in linkUpdates : ClearLinks(u)) \/ AddLink
  BY <1>11 DEF ClearLinks, AddLink
<1> QED
  BY <1>1, <1>2, <1>3, <1>4, <1>5, <1>6, <1>7, <1>8, <1>9, <1>10, <1>11 DEF Next, Sync

\* No attachment made since a row was written is lost to a sync's write without a
\* conflict in its report, except one made while that very note is in hand: whatever
\* was cut off before.
THEOREM ConflictsAreReported == Spec => ConflictsReported
<1>1. Init => Reported
  BY DEF Init, Reported
<1>2. IInv /\ Reported /\ [Next]_vars => Reported'
  BY ReportedStep
<1>3. Reported /\ [Next]_vars => [WriteRow /\ cur.id \in touched => cur.file \in conflicts]_vars
  BY DEF Reported, WriteRow
<1> QED BY <1>1, <1>2, <1>3, Invariance, PTL DEF Spec, ConflictsReported

=============================================================================
