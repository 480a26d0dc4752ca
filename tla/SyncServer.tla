----------------------------- MODULE SyncServer ------------------------------
(***************************************************************************)
(* The server's side of note synchronisation: the bundle of notes, the     *)
(* change journal devices pull from, and the handlers that change them.    *)
(* Each runs under the bundle lock, so it is one atomic step; what the     *)
(* server's agents write may build on a note read under an earlier lock.   *)
(***************************************************************************)
EXTENDS NoteTypes

VARIABLES
    bundle,       \* the note files: [Paths -> Doc]
    seq,          \* sync_state.json "seq": the number of changes journalled
    journal,      \* sync_state.json "paths": last change of each path
    kept,         \* recovery copies ".conflict-<uuid>.md", by original path
    trash,        \* deletion snapshots in .recovery, by original path
    published     \* history: every document a path ever had

serverVars == <<bundle, seq, journal, kept, trash, published>>

JournalEntry == [seq : Nat, deleted : BOOLEAN]
Saved == [path : Paths, content : Content]
SavedDoc == [path : Paths, content : Content, version : Nat \ {0}]

SavedDocOf(p, doc) ==
    [path |-> p, content |-> doc.content, version |-> doc.version]

ServerTypeOK ==
    /\ bundle \in [Paths -> Doc]
    /\ seq \in Nat
    /\ journal \in [Paths -> JournalEntry]
    /\ kept \subseteq Saved
    /\ trash \subseteq SavedDoc
    /\ published \subseteq SavedDoc

Present(p) == bundle[p].version > 0

\* The server starts on a bundle whose notes exist at version 1 with an empty
\* journal: a restored backup, whose files are imported without notification.
ServerInit(initial) ==
    /\ bundle = [p \in Paths |->
          IF p \in initial THEN [content |-> {}, version |-> 1] ELSE NoDoc]
    /\ seq = 0
    /\ journal = [p \in Paths |-> [seq |-> 0, deleted |-> FALSE]]
    /\ kept = {}
    /\ trash = {}
    /\ published = {SavedDocOf(p, [content |-> {}, version |-> 1]) : p \in initial}

-----------------------------------------------------------------------------
(* Writing and removing one note, with the observer that journals it.      *)

Notify(p, gone) ==
    /\ seq' = seq + 1
    /\ journal' = [journal EXCEPT ![p] = [seq |-> seq + 1, deleted |-> gone]]

WriteNote(p, doc) ==
    /\ bundle' = [bundle EXCEPT ![p] = doc]
    /\ published' = published \cup {SavedDocOf(p, doc)}
    /\ Notify(p, FALSE)

\* Faulty variant: the note goes without a snapshot.
RemoveNoteUntrashed(p) ==
    \/ /\ Present(p)
       /\ bundle' = [bundle EXCEPT ![p] = NoDoc]
       /\ Notify(p, TRUE)
       /\ UNCHANGED <<kept, trash, published>>
    \/ ~Present(p) /\ UNCHANGED serverVars

\* Deleting first snapshots the note into the trash; an absent note is left be.
RemoveNote(p) ==
    \/ /\ Present(p)
       /\ trash' = trash \cup {SavedDocOf(p, bundle[p])}
       /\ bundle' = [bundle EXCEPT ![p] = NoDoc]
       /\ Notify(p, TRUE)
       /\ UNCHANGED <<kept, published>>
    \/ ~Present(p) /\ UNCHANGED serverVars

\* Faulty variant: the losing document is dropped.
KeepNothing(p, content) == UNCHANGED kept

\* A recovery copy is a note of its own under a fresh path: it is journalled,
\* and no upload ever names it again.
KeepCopy(p, content) == kept' = kept \cup {[path |-> p, content |-> content]}

-----------------------------------------------------------------------------
(* SyncService.push, one change c and its outcome r.                       *)

DeleteRefused(c, r) ==
    /\ c.deleted
    /\ Present(c.path)
    /\ c.base \notin {NoBase, bundle[c.path].version}
    /\ r = Refused
    /\ UNCHANGED serverVars

DeleteApplied(c, r) ==
    /\ c.deleted
    /\ Present(c.path) => c.base \in {NoBase, bundle[c.path].version}
    /\ r = Applied(0)
    /\ RemoveNote(c.path)

EditOfDeleted(c, r) ==
    /\ ~c.deleted
    /\ ~Present(c.path)
    /\ c.base \notin {NoBase, 0}
    /\ r = Refused
    /\ UNCHANGED serverVars

NoteAdded(c, r) ==
    /\ ~c.deleted
    /\ ~Present(c.path)
    /\ c.base \in {NoBase, 0}
    /\ r = Applied(1)
    /\ WriteNote(c.path, [content |-> c.content, version |-> 1])
    /\ UNCHANGED <<kept, trash>>

\* The bundle already holds this very content: an acknowledgement was lost.
Replayed(c, r) ==
    /\ ~c.deleted
    /\ Present(c.path)
    /\ c.content = bundle[c.path].content
    /\ r = Applied(bundle[c.path].version)
    /\ UNCHANGED serverVars

Diverges(c) == ~c.deleted /\ Present(c.path) /\ c.content # bundle[c.path].content

\* Faulty variant: any known base will do.
EditAcceptedUnchecked(c, r) ==
    /\ Diverges(c)
    /\ c.base # NoBase
    /\ r = Applied(bundle[c.path].version + 1)
    /\ WriteNote(c.path, [content |-> c.content, version |-> bundle[c.path].version + 1])
    /\ UNCHANGED <<kept, trash>>

EditAccepted(c, r) ==
    /\ Diverges(c)
    /\ c.base = bundle[c.path].version
    /\ r = Applied(bundle[c.path].version + 1)
    /\ WriteNote(c.path, [content |-> c.content, version |-> bundle[c.path].version + 1])
    /\ UNCHANGED <<kept, trash>>

\* A concurrent edit: the server's note wins and the upload is kept as a copy.
EditConflicts(c, r) ==
    /\ Diverges(c)
    /\ c.base \notin {NoBase, bundle[c.path].version}
    /\ r = Refused
    /\ KeepCopy(c.path, c.content)
    /\ seq' = seq + 1
    /\ UNCHANGED <<bundle, journal, trash, published>>

\* Without a base the higher version wins and the timestamp breaks a tie; the
\* losing document is kept either way and the client is told of a conflict.
LegacyWins(c, r) ==
    LET cur == bundle[c.path]
        won == IF c.version > cur.version THEN c.version ELSE cur.version + 1
    IN  /\ Diverges(c)
        /\ c.base = NoBase
        /\ c.version >= cur.version
        /\ r = Refused
        /\ KeepCopy(c.path, cur.content)
        /\ bundle' = [bundle EXCEPT ![c.path] = [content |-> c.content, version |-> won]]
        /\ published' = published \cup
              {SavedDocOf(c.path, [content |-> c.content, version |-> won])}
        /\ journal' = [journal EXCEPT ![c.path] = [seq |-> seq + 1, deleted |-> FALSE]]
        /\ seq' = seq + 2
        /\ UNCHANGED trash

LegacyLoses(c, r) ==
    /\ Diverges(c)
    /\ c.base = NoBase
    /\ c.version <= bundle[c.path].version
    /\ r = Refused
    /\ KeepCopy(c.path, c.content)
    /\ seq' = seq + 1
    /\ UNCHANGED <<bundle, journal, trash, published>>

PushChange(c, r) ==
    \/ DeleteRefused(c, r)
    \/ DeleteApplied(c, r)
    \/ EditOfDeleted(c, r)
    \/ NoteAdded(c, r)
    \/ Replayed(c, r)
    \/ EditAccepted(c, r)
    \/ EditConflicts(c, r)
    \/ LegacyWins(c, r)
    \/ LegacyLoses(c, r)

-----------------------------------------------------------------------------
(* What the server's own routes and agents do to notes.  They read a note  *)
(* in one lock section and write it in another: known is what they read.   *)

\* NoteService.update with fields built on known: they replace those of the
\* note of now, under its next version; so does an older revision put back.
ServiceUpdate(known, e) ==
    /\ Present(known.path)
    /\ WriteNote(known.path, [content |-> known.content \cup {e},
                              version |-> bundle[known.path].version + 1])
    /\ UNCHANGED <<kept, trash>>

\* The document read before is written back whole, under the version it had:
\* by Marena, the enrichment, links, cached extracts and new attachments.
\* Nothing is compared, and a note deleted meanwhile is there again.
WriteBack(known, added) ==
    /\ WriteNote(known.path, [content |-> known.content \cup added,
                              version |-> known.version])
    /\ UNCHANGED <<kept, trash>>

\* NoteService.delete of an existing note.
ServiceDelete(p) == Present(p) /\ RemoveNote(p)

\* RecoveryService.restore: refused over an existing note; the snapshot goes.
RestoreFromTrash(t) ==
    /\ t \in trash
    /\ ~Present(t.path)
    /\ WriteNote(t.path, [content |-> t.content, version |-> t.version + 1])
    /\ trash' = trash \ {t}
    /\ UNCHANGED kept

-----------------------------------------------------------------------------
(* What a device reads: the catalogue, and the changes after its cursor.   *)

Listing == bundle

\* Faulty variants: the change right after the cursor, or every deletion, is missed.
DeltaLate(since) ==
    [cursor |-> seq,
     touched |-> {p \in Paths : /\ journal[p].seq > since + 1
                                /\ journal[p].deleted \/ Present(p)},
     docs |-> [p \in Paths |-> IF journal[p].deleted THEN NoDoc ELSE bundle[p]]]

DeltaWithoutDeletions(since) ==
    [cursor |-> seq,
     touched |-> {p \in Paths : journal[p].seq > since /\ Present(p)},
     docs |-> bundle]

Delta(since) ==
    [cursor |-> seq,
     touched |-> {p \in Paths : /\ journal[p].seq > since
                                /\ journal[p].deleted \/ Present(p)},
     docs |-> [p \in Paths |-> IF journal[p].deleted THEN NoDoc ELSE bundle[p]]]
=============================================================================
