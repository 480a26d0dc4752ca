------------------------------ MODULE NoteTypes ------------------------------
(***************************************************************************)
(* What the server and the devices of VesnAI exchange: note documents,     *)
(* rows of a device's mirror, changes of an upload and their outcomes.     *)
(*                                                                         *)
(* The text and metadata of a note are abstracted to its LINEAGE: the set  *)
(* of user edits its author had in front of them when it was written.  Two *)
(* documents are equal exactly when their lineages are, and a document     *)
(* whose lineage includes another's was written by someone who knew it.    *)
(***************************************************************************)
EXTENDS Integers

CONSTANTS
    Devices,      \* the owner's paired devices
    Paths,        \* the note paths the instance may use
    Edits         \* one token per user decision; each is used at most once

Content == SUBSET Edits

NoBase == -1      \* a change that carries no base_version (legacy client)

\* A document of the bundle.  Version 0 is the absence of a document.
Doc == [content : Content, version : Nat]
NoDoc == [content |-> {}, version |-> 0]

Pending == {"pendingCreate", "pendingUpdate", "pendingDelete", "conflict"}
States == Pending \cup {"synced", "absent"}

\* A row of a device's mirror; "absent" is the absence of a row.
Row == [state : States, content : Content, version : Nat,
        base : Nat \cup {NoBase}, conflictDeleted : BOOLEAN]
NoRow == [state |-> "absent", content |-> {}, version |-> 0,
          base |-> 0, conflictDeleted |-> FALSE]

\* The row a download leaves: Note.fromApi and Note.fromConcept both take the
\* document's version as version and as base.
SyncedRow(doc) ==
    IF doc.version = 0 THEN NoRow
    ELSE [state |-> "synced", content |-> doc.content, version |-> doc.version,
          base |-> doc.version, conflictDeleted |-> FALSE]

\* One change of an upload.  A deletion carries no document; its content only
\* records, for the properties, what the deleting device had seen.
Change == [path : Paths, deleted : BOOLEAN, content : Content, version : Nat,
           base : Nat \cup {NoBase}]

ChangeOf(p, row) ==
    [path |-> p, deleted |-> row.state = "pendingDelete",
     content |-> row.content, version |-> row.version, base |-> row.base]

\* The outcome of one change in the upload's response.
Reply == [kind : {"none", "applied", "conflict"}, version : Nat]
NoReply == [kind |-> "none", version |-> 0]
Applied(v) == [kind |-> "applied", version |-> v]
Refused == [kind |-> "conflict", version |-> 0]
=============================================================================
