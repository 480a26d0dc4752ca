----------------------------- MODULE SyncClient ------------------------------
(***************************************************************************)
(* A device's side of note synchronisation: the SQLite mirror, the pull    *)
(* cursor and the local trash, and the transactions that change them.      *)
(***************************************************************************)
EXTENDS NoteTypes

VARIABLES
    mirror,       \* note_rows: [Devices -> [Paths -> Row]]
    cursor,       \* the persisted pull cursor of each device
    localTrash    \* the local_trash value: documents deleted on each device

clientVars == <<mirror, cursor, localTrash>>

IsPending(row) == row.state \in Pending

ClientTypeOK ==
    /\ mirror \in [Devices -> [Paths -> Row]]
    /\ cursor \in [Devices -> Nat]
    /\ localTrash \in [Devices -> SUBSET [path : Paths, content : Content]]

-----------------------------------------------------------------------------
(* Local saves: saveLocal and deleteLocal, allowed during any network work. *)

Creating(row) == row.state \in {"absent", "pendingCreate"}

\* The row saveLocal writes over row for a note of this content and version.
SavedRow(row, content, version) ==
    [state |-> IF row.state = "conflict" THEN "conflict"
               ELSE IF Creating(row) THEN "pendingCreate" ELSE "pendingUpdate",
     content |-> content,
     version |-> version,
     base |-> IF Creating(row) THEN 0
              ELSE IF row.base # NoBase THEN row.base ELSE row.version,
     conflictDeleted |-> FALSE]

SaveLocal(d, p, content, version) ==
    /\ mirror' = [mirror EXCEPT ![d][p] = SavedRow(@, content, version)]
    /\ UNCHANGED <<cursor, localTrash>>

\* NoteRepository.update of a note loaded at some version: the next version.
NextVersion(row, loaded) ==
    IF row.state = "absent" THEN loaded
    ELSE IF row.version > loaded THEN row.version + 1 ELSE loaded + 1

\* Faulty variant: the deletion is based on the local version.
DeletedRowOnLocal(row) == [row EXCEPT !.state = "pendingDelete", !.base = row.version]

\* A tombstone, even of a note never uploaded: it may be uploading right now.
DeletedRow(row) ==
    [row EXCEPT !.state = "pendingDelete",
                !.base = IF @ # NoBase THEN @ ELSE row.version]

DeleteLocal(d, p) ==
    /\ mirror' = [mirror EXCEPT ![d][p] = DeletedRow(@)]
    /\ localTrash' = [localTrash EXCEPT ![d] =
          @ \cup {[path |-> p, content |-> mirror[d][p].content]}]
    /\ UNCHANGED cursor

-----------------------------------------------------------------------------
(* The transactions that apply what the server answered.                   *)

\* bootstrap: the catalogue fills in what the mirror lacks or has older.
MergedRow(row, doc) ==
    IF doc.version = 0 \/ IsPending(row) \/ row.version > doc.version
    THEN row ELSE SyncedRow(doc)

\* The queue an upload takes: every pending row but the conflicts.
Uploadable(row) == IsPending(row) /\ row.state # "conflict"

\* Faulty variants: any edit of the same kind passes for the submitted one, or
\* none does because the row is expected to be clean already.
SameState(a, b) == a.state = b.state

SameCleanRevision(a, b) ==
    a.state = "synced" /\ a.version = b.version /\ a.content = b.content

SameRevision(a, b) ==
    a.state = b.state /\ a.version = b.version /\ a.content = b.content

Unanswered(row, submitted, r) ==
    row.state = "absent" \/ submitted.state = "absent" \/ r.kind = "none"

Acknowledged(row, submitted, r) ==
    ~Unanswered(row, submitted, r) /\ r.kind = "applied"

\* Faulty variant: the outcome is stored as a state the mirror does not know.
ConflictRowRaw(row) ==
    [row EXCEPT !.state = "refused", !.conflictDeleted = (row.state = "pendingDelete")]

\* A conflict is kept for the owner to resolve.
ConflictRow(row) ==
    [row EXCEPT !.state = "conflict", !.conflictDeleted = (row.state = "pendingDelete")]

\* A newer local edit stays pending, on top of the accepted upload.
RebasedRow(row, v) ==
    [row EXCEPT !.base = v,
        !.state = IF row.state = "pendingDelete" THEN "pendingDelete" ELSE "pendingUpdate"]

\* Faulty variant: the local version is taken for the canonical one.
ClearedRowLocal(row, v) ==
    IF row.state = "pendingDelete" THEN NoRow
    ELSE [row EXCEPT !.state = "synced", !.base = row.version]

\* An acknowledgement clears the exact revision that was submitted.
ClearedRow(row, v) ==
    IF row.state = "pendingDelete" THEN NoRow
    ELSE [row EXCEPT !.state = "synced", !.version = v, !.base = v]

\* The row after the upload of submitted was answered with r.
AnsweredRow(row, submitted, r) ==
    CASE Unanswered(row, submitted, r) -> row
      [] ~Unanswered(row, submitted, r) /\ r.kind = "conflict" -> ConflictRow(row)
      [] Acknowledged(row, submitted, r) /\ ~SameRevision(row, submitted) ->
            RebasedRow(row, r.version)
      [] Acknowledged(row, submitted, r) /\ SameRevision(row, submitted) ->
            ClearedRow(row, r.version)

\* Faulty variant: the pulled change always wins.
PulledRowForced(row, doc) == SyncedRow(doc)

\* One pulled change: never over a pending row.
PulledRow(row, doc) == IF IsPending(row) THEN row ELSE SyncedRow(doc)

MergeListing(d, docs) ==
    /\ mirror' = [mirror EXCEPT ![d] = [p \in Paths |-> MergedRow(@[p], docs[p])]]
    /\ UNCHANGED <<cursor, localTrash>>

ApplyAnswers(d, submitted, replies) ==
    /\ mirror' = [mirror EXCEPT ![d] =
          [p \in Paths |-> AnsweredRow(@[p], submitted[p], replies[p])]]
    /\ UNCHANGED <<cursor, localTrash>>

\* The whole pulled batch and its cursor are one transaction.
ApplyDelta(d, delta) ==
    /\ mirror' = [mirror EXCEPT ![d] =
          [p \in Paths |-> IF p \in delta.touched
                           THEN PulledRow(@[p], delta.docs[p]) ELSE @[p]]]
    /\ cursor' = [cursor EXCEPT ![d] = delta.cursor]
    /\ UNCHANGED localTrash

-----------------------------------------------------------------------------
(* resolveConflict, once the server's current note doc is known.           *)

\* "mine": the local edit or deletion is queued against the server's version.
\* It counts as knowing that note; e tells the outcome from both.
MineRow(row, doc, e) ==
    [state |-> IF row.conflictDeleted THEN "pendingDelete"
               ELSE IF doc.version = 0 THEN "pendingCreate" ELSE "pendingUpdate",
     content |-> row.content \cup doc.content \cup {e},
     version |-> doc.version + 1,
     base |-> doc.version,
     conflictDeleted |-> FALSE]

\* "both": the local note moves to a path of its own, as a new note.
RecoveredRow(row) ==
    [state |-> "pendingCreate", content |-> row.content, version |-> 1,
     base |-> 0, conflictDeleted |-> FALSE]
=============================================================================
