--------------------------- MODULE VesnaSync_proofs --------------------------
(***************************************************************************)
(* What holds of VesnaSync for any devices, paths, edits and failures: its *)
(* types; that UploadInvariant is an invariant; and what follows from it:  *)
(* synced rows are published, bases are grounded, nothing is overwritten.  *)
(* At the end, what one upload does to a document.                         *)
(***************************************************************************)
EXTENDS VesnaSync, TLAPS

-----------------------------------------------------------------------------
(* The rows each operation of the client writes.                           *)

LEMMA NoRowType == NoRow \in Row
  BY DEF NoRow, Row, States, Pending, Content, NoBase

LEMMA SyncedRowType ==
    ASSUME NEW doc \in Doc
    PROVE  SyncedRow(doc) \in Row
  BY NoRowType DEF SyncedRow, Row, Doc, States, Content

LEMMA SavedRowType ==
    ASSUME NEW row \in Row, NEW content \in Content, NEW version \in Nat
    PROVE  SavedRow(row, content, version) \in Row
  BY DEF SavedRow, Creating, Row, States, Pending, NoBase

LEMMA DeletedRowType ==
    ASSUME NEW row \in Row
    PROVE  DeletedRow(row) \in Row
  BY DEF DeletedRow, Row, States, Pending, NoBase

LEMMA MergedRowType ==
    ASSUME NEW row \in Row, NEW doc \in Doc
    PROVE  MergedRow(row, doc) \in Row
  BY SyncedRowType DEF MergedRow

LEMMA PulledRowType ==
    ASSUME NEW row \in Row, NEW doc \in Doc
    PROVE  PulledRow(row, doc) \in Row
  BY SyncedRowType DEF PulledRow

LEMMA MineRowType ==
    ASSUME NEW row \in Row, NEW doc \in Doc, NEW e \in Edits
    PROVE  MineRow(row, doc, e) \in Row
  BY DEF MineRow, Row, Doc, States, Pending, Content

LEMMA RecoveredRowType ==
    ASSUME NEW row \in Row
    PROVE  RecoveredRow(row) \in Row
  BY DEF RecoveredRow, Row, States, Pending, Content

\* The answer to an upload: nothing, a conflict, or an acknowledgement of the
\* submitted revision or of an older one.
LEMMA AnswerCases ==
    ASSUME NEW row \in Row, NEW submitted \in Row, NEW reply \in Reply
    PROVE  \/ AnsweredRow(row, submitted, reply) = row
           \/ /\ ~Unanswered(row, submitted, reply)
              /\ AnsweredRow(row, submitted, reply) = ConflictRow(row)
           \/ /\ Acknowledged(row, submitted, reply)
              /\ AnsweredRow(row, submitted, reply) = RebasedRow(row, reply.version)
           \/ /\ Acknowledged(row, submitted, reply)
              /\ SameRevision(row, submitted)
              /\ AnsweredRow(row, submitted, reply) = ClearedRow(row, reply.version)
  BY DEF AnsweredRow, Unanswered, Acknowledged, Reply

LEMMA AnsweredRowType ==
    ASSUME NEW row \in Row, NEW submitted \in Row, NEW reply \in Reply
    PROVE  AnsweredRow(row, submitted, reply) \in Row
<1>1. ConflictRow(row) \in Row
  BY DEF ConflictRow, Row, States, Pending
<1>2. RebasedRow(row, reply.version) \in Row
  BY DEF RebasedRow, Row, Reply, States, Pending
<1>3. ClearedRow(row, reply.version) \in Row
  BY NoRowType DEF ClearedRow, Row, Reply, States
<1>4. QED
  BY <1>1, <1>2, <1>3, AnswerCases

-----------------------------------------------------------------------------
(* Type correctness.                                                       *)

LEMMA RemoveNoteType ==
    ASSUME ServerTypeOK, NEW p \in Paths, RemoveNote(p)
    PROVE  ServerTypeOK'
<1> USE DEF ServerTypeOK
<1>1. CASE UNCHANGED serverVars
  BY <1>1 DEF serverVars
<1>2. CASE /\ Present(p)
           /\ trash' = trash \cup {SavedDocOf(p, bundle[p])}
           /\ bundle' = [bundle EXCEPT ![p] = NoDoc]
           /\ Notify(p, TRUE)
           /\ UNCHANGED <<kept, published>>
  <2>1. SavedDocOf(p, bundle[p]) \in SavedDoc
    BY <1>2 DEF SavedDoc, SavedDocOf, Doc, Present
  <2>2. NoDoc \in Doc
    BY DEF NoDoc, Doc, Content
  <2>3. seq' \in Nat /\ journal' \in [Paths -> JournalEntry]
    BY <1>2 DEF Notify, JournalEntry
  <2>4. QED
    BY <1>2, <2>1, <2>2, <2>3
<1>3. QED
  BY <1>1, <1>2 DEF RemoveNote

LEMMA WriteNoteType ==
    ASSUME ServerTypeOK, NEW p \in Paths, NEW doc \in Doc, doc.version > 0, WriteNote(p, doc)
    PROVE  /\ bundle' \in [Paths -> Doc]
           /\ seq' \in Nat
           /\ journal' \in [Paths -> JournalEntry]
           /\ published' \subseteq SavedDoc
  BY DEF ServerTypeOK, WriteNote, Notify, JournalEntry, SavedDoc, SavedDocOf, Doc

\* Each handler of an upload's change keeps the server's state well typed.
LEMMA PushChangeType ==
    ASSUME ServerTypeOK, NEW c \in Change, NEW reply, PushChange(c, reply)
    PROVE  ServerTypeOK'
<1> USE DEF ServerTypeOK
<1>1. bundle[c.path] \in Doc /\ c.path \in Paths
  BY DEF Change
<1>2. CASE DeleteRefused(c, reply) \/ EditOfDeleted(c, reply) \/ Replayed(c, reply)
  BY <1>2 DEF DeleteRefused, EditOfDeleted, Replayed, serverVars
<1>3. CASE DeleteApplied(c, reply)
  BY <1>1, <1>3, RemoveNoteType DEF DeleteApplied
<1>4. CASE NoteAdded(c, reply)
  BY <1>1, <1>4 DEF NoteAdded, WriteNote, Notify, JournalEntry, SavedDoc, SavedDocOf,
                    Change, Doc
<1>5. CASE EditAccepted(c, reply)
  BY <1>1, <1>5 DEF EditAccepted, WriteNote, Notify, JournalEntry, SavedDoc, SavedDocOf,
                    Change, Doc
<1>6. CASE EditConflicts(c, reply)
  BY <1>1, <1>6 DEF EditConflicts, KeepCopy, Saved, Change
<1>7. CASE LegacyWins(c, reply)
  BY <1>1, <1>7 DEF LegacyWins, KeepCopy, Saved, SavedDoc, SavedDocOf, JournalEntry, Change, Doc
<1>8. CASE LegacyLoses(c, reply)
  BY <1>1, <1>8 DEF LegacyLoses, KeepCopy, Saved, Change
<1>9. QED
  BY <1>2, <1>3, <1>4, <1>5, <1>6, <1>7, <1>8 DEF PushChange

LEMMA DeltaTyped ==
    ASSUME ServerTypeOK, NEW since \in Nat
    PROVE  Delta(since) \in DeltaType
  BY DEF ServerTypeOK, Delta, DeltaType, NoDoc, Doc, Content

LEMMA RequestTyped ==
    ASSUME TypeOK, NEW d \in Devices
    PROVE  RequestOf(d) \in Request
<1>1. \A p \in Paths : ChangeOf(p, mirror[d][p]) \in Change
  BY DEF TypeOK, ClientTypeOK, ChangeOf, Change, Row
<1>2. NoReply \in Reply
  BY DEF NoReply, Reply
<1>3. QED
  BY <1>1, <1>2 DEF RequestOf, Request, Queue, TypeOK

\* The server's state in a step that leaves it alone, and the device's.
LEMMA ServerUnchanged == ServerTypeOK /\ UNCHANGED serverVars => ServerTypeOK'
  BY DEF ServerTypeOK, serverVars

LEMMA ClientUnchanged == ClientTypeOK /\ UNCHANGED clientVars => ClientTypeOK'
  BY DEF ClientTypeOK, clientVars

LEMMA DeviceStepType ==
    ASSUME TypeOK, NEW d \in Devices, DeviceStep(d)
    PROVE  TypeOK'
<1> USE DEF TypeOK, MoveTo, histVars
<1>1. CASE StartBootstrap(d)
  BY <1>1, ServerUnchanged, ClientUnchanged
     DEF StartBootstrap, Listing, Operation, ServerTypeOK
<1>2. CASE MergeCatalogue(d)
  <2>1. net[d].docs \in [Paths -> Doc]
    BY <1>2 DEF MergeCatalogue, Operation
  <2>2. ClientTypeOK'
    BY <1>2, <2>1, MergedRowType DEF MergeCatalogue, MergeListing, ClientTypeOK
  <2>3. QED
    BY <1>2, <2>2, ServerUnchanged DEF MergeCatalogue, Operation
<1>3. CASE StartFlush(d)
  BY <1>3, ServerUnchanged, ClientUnchanged DEF StartFlush, Operation
<1>4. CASE SubmitQueue(d)
  BY <1>4, ServerUnchanged, ClientUnchanged, RequestTyped, NoRowType
     DEF SubmitQueue, Operation, ClientTypeOK
<1>5. CASE SubmitNothing(d)
  BY <1>5, ServerUnchanged, ClientUnchanged DEF SubmitNothing, Operation
<1>6. ASSUME NEW r \in inbox, ApplyResponse(d, r)
      PROVE  TypeOK'
  <2>1. net[d].rows \in [Paths -> Row] /\ r.replies \in [Paths -> Reply]
    BY <1>6 DEF ApplyResponse, Operation, Request
  <2>2. ClientTypeOK'
    BY <1>6, <2>1, AnsweredRowType DEF ApplyResponse, ApplyAnswers, ClientTypeOK
  <2>3. QED
    BY <1>6, <2>2, ServerUnchanged DEF ApplyResponse, Operation
<1>7. CASE PullChanges(d)
  BY <1>7, ServerUnchanged, ClientUnchanged, DeltaTyped
     DEF PullChanges, Operation, ClientTypeOK
<1>8. CASE ApplyPulled(d)
  <2>1. net[d].delta \in DeltaType
    BY <1>8 DEF ApplyPulled, Operation
  <2>2. ClientTypeOK'
    BY <1>8, <2>1, PulledRowType DEF ApplyPulled, ApplyDelta, ClientTypeOK, DeltaType
  <2>3. QED
    BY <1>8, <2>2, ServerUnchanged DEF ApplyPulled, Operation, Idle
<1>9. CASE BreakOff(d)
  <2> DEFINE mine == {r \in inbox : r.dev = d /\ r.live}
             abandoned == {[r EXCEPT !.live = FALSE] : r \in mine}
  <2>1. abandoned \subseteq Request
    <3>1. \A r \in Request : [r EXCEPT !.live = FALSE] \in Request
      BY DEF Request
    <3>2. QED
      BY <3>1
  <2>2. inbox' \subseteq inbox \/ inbox' \subseteq inbox \cup abandoned
    BY <1>9 DEF BreakOff
  <2> HIDE DEF abandoned, mine
  <2>3. QED
    BY <1>9, <2>1, <2>2, ServerUnchanged, ClientUnchanged DEF BreakOff, Operation, Idle
<1>10. QED
  BY <1>1, <1>2, <1>3, <1>4, <1>5, <1>6, <1>7, <1>8, <1>9 DEF DeviceStep

LEMMA OwnerStepType ==
    ASSUME TypeOK, NEW d \in Devices, OwnerStep(d)
    PROVE  TypeOK'
<1> USE DEF TypeOK, MoveTo, Decide, Author
<1>1. ASSUME NEW p \in Paths, NEW e \in Edits, CaptureNote(d, p, e)
      PROVE  TypeOK'
  <2>1. ClientTypeOK'
    BY <1>1, SavedRowType DEF CaptureNote, SaveLocal, ClientTypeOK, Content
  <2>2. QED
    BY <1>1, <2>1, ServerUnchanged DEF CaptureNote, netVars
<1>2. ASSUME NEW p \in Paths, NEW e \in Edits, EditNote(d, p, e)
      PROVE  TypeOK'
  <2>1. /\ mirror[d][p].content \cup {e} \in Content
        /\ NextVersion(mirror[d][p], mirror[d][p].version) \in Nat
    BY DEF ClientTypeOK, Row, Content, NextVersion
  <2>2. ClientTypeOK'
    BY <1>2, <2>1, SavedRowType DEF EditNote, SaveLocal, ClientTypeOK
  <2>3. QED
    BY <1>2, <2>2, ServerUnchanged DEF EditNote, netVars, Guess
<1>3. ASSUME NEW p \in Paths, NEW e \in Edits, DeleteNote(d, p, e)
      PROVE  TypeOK'
  <2>1. mirror[d][p].content \in Content
    BY DEF ClientTypeOK, Row
  <2>2. ClientTypeOK'
    BY <1>3, <2>1, DeletedRowType DEF DeleteNote, DeleteLocal, ClientTypeOK
  <2>3. QED
    BY <1>3, <2>2, ServerUnchanged DEF DeleteNote, netVars, Guess
<1>4. ASSUME NEW p \in Paths, NEW choice \in Choices, NEW e \in Edits,
             StartResolve(d, p, choice, e)
      PROVE  TypeOK'
  <2>1. [at |-> "resolving", path |-> p, choice |-> choice, edit |-> e,
         doc |-> bundle[p]] \in Operation
    BY DEF Operation, ServerTypeOK, ClientTypeOK, Row
  <2>2. QED
    BY <1>4, <2>1, ServerUnchanged, ClientUnchanged DEF StartResolve
<1>5. CASE KeepMine(d) \/ KeepServer(d) \/ \E p \in Paths : KeepBoth(d, p)
  <2>1. /\ net[d].path \in Paths /\ net[d].doc \in Doc /\ net[d].edit \in Edits
        /\ mirror[d][net[d].path] \in Row
        /\ mirror[d][net[d].path].content \subseteq Edits
    <3>1. net[d] \in Operation /\ net[d].at = "resolving"
      BY <1>5 DEF KeepMine, KeepServer, KeepBoth
    <3>2. net[d].path \in Paths /\ net[d].doc \in Doc /\ net[d].edit \in Edits
      BY <3>1 DEF Operation
    <3>3. mirror[d][net[d].path] \in Row
      BY <3>2 DEF ClientTypeOK
    <3>4. QED
      BY <3>2, <3>3 DEF Row, Content
  <2>2. CASE KeepMine(d)
    BY <2>1, <2>2, MineRowType, ServerUnchanged
       DEF KeepMine, ClientTypeOK, Operation, Idle, histVars
  <2>3. CASE KeepServer(d)
    BY <2>1, <2>3, SyncedRowType, ServerUnchanged
       DEF KeepServer, ClientTypeOK, Operation, Idle
  <2>4. ASSUME NEW p \in Paths, KeepBoth(d, p)
        PROVE  TypeOK'
    BY <2>1, <2>4, SyncedRowType, RecoveredRowType, ServerUnchanged
       DEF KeepBoth, ClientTypeOK, Operation, Idle, histVars
  <2>5. QED
    BY <1>5, <2>2, <2>3, <2>4
<1>6. QED
  BY <1>1, <1>2, <1>3, <1>4, <1>5 DEF OwnerStep

\* The upload left in the inbox after one of its changes was served.
Served(r, c, reply) == [r EXCEPT !.todo = @ \ {c}, !.replies[c.path] = reply]

LEMMA ServeChangeEffect ==
    ASSUME NEW r, NEW c, ServeChange(r, c)
    PROVE  /\ r \in inbox /\ c \in r.todo
           /\ \E reply \in {Refused} \cup {Applied(v) : v \in 0..(bundle[c.path].version + 1)} :
                 /\ PushChange(c, reply)
                 /\ inbox' \subseteq (inbox \ {r}) \cup {Served(r, c, reply)}
           /\ UNCHANGED <<clientVars, net, failures, histVars>>
  BY DEF ServeChange, Served

\* What an agent's write comes to: document doc, which adds at most its own
\* decision e to the published one it was built on, replaces note p.
AgentWrote(p, known, e, doc) ==
    /\ known \in published
    /\ doc.version > 0
    /\ known.content \subseteq doc.content /\ doc.content \subseteq known.content \cup {e}
    /\ WriteNote(p, doc)
    /\ e \notin used /\ used' = used \cup {e}
    /\ authored \subseteq authored' /\ authored' \subseteq authored \cup ({e} \cap doc.content)
    /\ overwritten' = overwritten \cup (bundle[p].content \ known.content)
    /\ UNCHANGED <<kept, trash, clientVars, netVars, discarded, guessed>>

LEMMA AgentsWrite ==
    ASSUME TypeOK, AgentWrites
    PROVE  \E p \in Paths, e \in Edits : \E known \in published, doc \in Doc :
              AgentWrote(p, known, e, doc)
<1>1. PICK p \in Paths, e \in Edits : \E known \in Readable(p) :
          \/ ServerEdit(known, e)
          \/ \E added \in {{}, {e}} : ServerWritesBack(known, added, e)
  BY DEF AgentWrites
<1>2. PICK known \in Readable(p) :
          \/ ServerEdit(known, e)
          \/ \E added \in {{}, {e}} : ServerWritesBack(known, added, e)
  BY <1>1
<1>3. known \in published /\ known.path = p /\ known \in SavedDoc
  BY <1>2 DEF Readable, TypeOK, ServerTypeOK
<1>4. known.content \in Content /\ known.version \in Nat /\ known.version > 0
  BY <1>3 DEF SavedDoc
<1>5. CASE ServerEdit(known, e)
  <2> DEFINE doc == [content |-> known.content \cup {e}, version |-> bundle[p].version + 1]
  <2>1. doc \in Doc /\ doc.version > 0
    BY <1>4 DEF Doc, Content, TypeOK, ServerTypeOK
  <2>2. AgentWrote(p, known, e, doc)
    BY <1>3, <1>5, <2>1 DEF AgentWrote, ServerEdit, ServiceUpdate, WritesOver, Author, Decide
  <2> QED
    BY <1>3, <2>1, <2>2
<1>6. ASSUME NEW added \in {{}, {e}}, ServerWritesBack(known, added, e)
      PROVE  \E doc \in Doc : AgentWrote(p, known, e, doc)
  <2> DEFINE doc == [content |-> known.content \cup added, version |-> known.version]
  <2>1. doc \in Doc /\ doc.version > 0
    BY <1>4 DEF Doc, Content
  <2>2. AgentWrote(p, known, e, doc)
    BY <1>3, <1>6, <2>1 DEF AgentWrote, ServerWritesBack, WriteBack, WritesOver, Decide
  <2> QED
    BY <2>1, <2>2
<1> QED
  BY <1>2, <1>3, <1>5, <1>6

LEMMA ServerStepType ==
    ASSUME TypeOK, ServerStep
    PROVE  TypeOK'
<1> USE DEF TypeOK, Decide, Author
<1>1. ASSUME NEW r \in inbox, NEW c \in r.todo, ServeChange(r, c)
      PROVE  TypeOK'
  <2>1. PICK reply \in {Refused} \cup {Applied(v) : v \in 0..(bundle[c.path].version + 1)} :
            /\ PushChange(c, reply)
            /\ inbox' \subseteq (inbox \ {r}) \cup {Served(r, c, reply)}
    BY <1>1, ServeChangeEffect
  <2>2. r \in Request /\ c \in Change
    BY DEF Request
  <2>3. reply \in Reply
    BY <2>2 DEF Refused, Applied, Reply, ServerTypeOK, Change, Doc
  <2>4. Served(r, c, reply) \in Request
    BY <2>2, <2>3 DEF Served, Request, Change
  <2>5. ServerTypeOK'
    BY <2>1, <2>2, PushChangeType
  <2>6. QED
    BY <1>1, <2>1, <2>4, <2>5, ClientUnchanged, ServeChangeEffect DEF histVars
<1>2. ASSUME NEW p \in Paths, NEW e \in Edits, NEW known \in published, NEW doc \in Doc,
             AgentWrote(p, known, e, doc)
      PROVE  TypeOK'
  <2>1. ServerTypeOK'
    BY <1>2, WriteNoteType DEF AgentWrote, ServerTypeOK
  <2>2. bundle[p].content \subseteq Edits
    BY DEF ServerTypeOK, Doc, Content
  <2>3. authored' \subseteq Edits /\ used' \subseteq Edits /\ overwritten' \subseteq Edits
    BY <1>2, <2>2 DEF AgentWrote
  <2>4. QED
    BY <1>2, <2>1, <2>3, ClientUnchanged DEF AgentWrote, netVars
<1>3. ASSUME NEW p \in Paths, NEW e \in Edits, ServerDelete(p, e)
      PROVE  TypeOK'
  <2>1. ServerTypeOK'
    BY <1>3, RemoveNoteType DEF ServerDelete, ServiceDelete
  <2>2. QED
    BY <1>3, <2>1, ClientUnchanged DEF ServerDelete, netVars
<1>4. ASSUME NEW t \in trash, ServerRestore(t)
      PROVE  TypeOK'
  <2>1. /\ t.path \in Paths /\ [content |-> t.content, version |-> t.version + 1] \in Doc
        /\ t.version + 1 > 0
    BY DEF ServerTypeOK, SavedDoc, Doc
  <2>2. ServerTypeOK'
    BY <1>4, <2>1, WriteNoteType DEF ServerRestore, RestoreFromTrash, ServerTypeOK
  <2>3. QED
    BY <1>4, <2>2, ClientUnchanged DEF ServerRestore, netVars, histVars
<1>5. QED
  BY <1>1, <1>2, <1>3, <1>4, AgentsWrite DEF ServerStep

LEMMA InitType == Init => TypeOK
<1> SUFFICES ASSUME Init PROVE TypeOK
  OBVIOUS
<1>1. ServerTypeOK
  <2>1. ServerInit(InitialPaths)
    BY DEF Init
  <2>2. NoDoc \in Doc /\ [content |-> {}, version |-> 1] \in Doc
    BY DEF Doc, NoDoc, Content
  <2>3. bundle \in [Paths -> Doc]
    BY <2>1, <2>2 DEF ServerInit
  <2>4. seq \in Nat /\ journal \in [Paths -> JournalEntry]
    BY <2>1 DEF ServerInit, JournalEntry
  <2>5. published \subseteq SavedDoc
    BY <2>1, InitialPathsAssumption DEF ServerInit, SavedDoc, SavedDocOf, Content
  <2>6. kept \subseteq Saved /\ trash \subseteq SavedDoc
    BY <2>1 DEF ServerInit
  <2>7. QED
    BY <2>3, <2>4, <2>5, <2>6 DEF ServerTypeOK
<1>2. PICK editor \in [LegacyPaths -> Devices], edit \in [LegacyPaths -> Edits] :
          /\ mirror = [d \in Devices |-> [p \in Paths |->
                IF p \in LegacyPaths /\ editor[p] = d THEN LegacyRow(edit[p])
                ELSE SyncedRow(bundle[p])]]
          /\ used = {edit[p] : p \in LegacyPaths}
  BY DEF Init
<1>3. \A e \in Edits : LegacyRow(e) \in Row
  BY DEF LegacyRow, Row, States, Pending, Content
<1>4. mirror \in [Devices -> [Paths -> Row]]
  BY <1>1, <1>2, <1>3, SyncedRowType DEF ServerTypeOK
<1>5. ClientTypeOK
  BY <1>4 DEF Init, ClientTypeOK
<1>6. QED
  BY <1>1, <1>2, <1>5 DEF Init, TypeOK, Operation, Idle

\* Every variable keeps its type: rows, journal entries and requests are what
\* the code reads them back as.
THEOREM Typing == Spec => []TypeOK
<1>1. TypeOK /\ [Next]_vars => TypeOK'
  <2> SUFFICES ASSUME TypeOK, [Next]_vars PROVE TypeOK'
    OBVIOUS
  <2>1. CASE UNCHANGED vars
    BY <2>1, ServerUnchanged, ClientUnchanged DEF TypeOK, vars, netVars, histVars
  <2>2. CASE Next
    BY <2>2, DeviceStepType, OwnerStepType, ServerStepType DEF Next
  <2>3. QED
    BY <2>1, <2>2
<1>2. QED
  BY <1>1, InitType, PTL DEF Spec

-----------------------------------------------------------------------------
(* What the invariant says of one row, one fetched document and one change, *)
(* given the documents pub published so far.                                *)

KnownBase(p, base, content, pub) ==
    base > 0 => \E doc \in pub :
                   doc.path = p /\ doc.version = base /\ doc.content \subseteq content

SoundRow(p, row, pub, guesses) ==
    /\ p \notin guesses /\ row.state # "absent" =>
          KnownBase(p, row.base, row.content, pub)
    /\ row.state = "synced" =>
          [path |-> p, content |-> row.content, version |-> row.version] \in pub

KnownDoc(p, doc, pub) == doc.version > 0 => SavedDocOf(p, doc) \in pub

SoundChange(c, pub, guesses) ==
    c.path \notin guesses => KnownBase(c.path, c.base, c.content, pub)

KnownAnswer(p, row, reply, pub) ==
    reply.kind = "applied" =>
        IF row.state = "pendingDelete" THEN reply.version = 0
        ELSE SavedDocOf(p, [content |-> row.content, version |-> reply.version]) \in pub

RowsSound == \A d \in Devices, p \in Paths : SoundRow(p, mirror[d][p], published, guessed)
ChangesSound == \A r \in inbox : \A c \in r.todo : SoundChange(c, published, guessed)

SoundOperation(op, pub) ==
    /\ op.at = "listed" => \A p \in Paths : KnownDoc(p, op.docs[p], pub)
    /\ op.at = "pulled" => \A p \in Paths : KnownDoc(p, op.delta.docs[p], pub)
    /\ op.at = "resolving" => KnownDoc(op.path, op.doc, pub)

TrackedUpload(r, op, pub) ==
    /\ op.at = "sent"
    /\ \A c \in r.todo : c = ChangeOf(c.path, op.rows[c.path])
    /\ \A p \in Paths : KnownAnswer(p, op.rows[p], r.replies[p], pub)

Tracked(pub, ops, uploads) ==
    \A r \in uploads : r.live => TrackedUpload(r, ops[r.dev], pub)

LEMMA UploadTracked == UploadIsTracked <=> Tracked(published, net, inbox)
  BY DEF UploadIsTracked, Tracked, TrackedUpload, Answered, KnownAnswer

LEMMA UploadTrackedNext == UploadIsTracked' <=> Tracked(published', net', inbox')
  BY DEF UploadIsTracked, Tracked, TrackedUpload, Answered, KnownAnswer

\* The invariant, regrouped: what it says of the server, of each device's
\* operation, of uploads and of rows.
Sound ==
    /\ TypeOK
    /\ CurrentIsPublished
    /\ \A d \in Devices : SoundOperation(net[d], published)
    /\ UploadIsTracked
    /\ OneUpload
    /\ SubmittedIsKept
    /\ RowsSound
    /\ ChangesSound

LEMMA Regrouped == UploadInvariant <=> Sound
<1>1. FetchedIsPublished <=> \A d \in Devices : SoundOperation(net[d], published)
  BY DEF FetchedIsPublished, SoundOperation, Fetched, KnownDoc
<1>2. BaseIsGrounded /\ SyncedIsPublished <=> RowsSound /\ ChangesSound
  <2>1. ASSUME BaseIsGrounded, SyncedIsPublished
        PROVE  RowsSound /\ ChangesSound
    BY <2>1 DEF BaseIsGrounded, SyncedIsPublished, RowsSound, ChangesSound,
                SoundRow, SoundChange, Grounded, KnownBase
  <2>2. ASSUME RowsSound, ChangesSound
        PROVE  BaseIsGrounded /\ SyncedIsPublished
    BY <2>2 DEF BaseIsGrounded, SyncedIsPublished, RowsSound, ChangesSound,
                SoundRow, SoundChange, Grounded, KnownBase
  <2>3. QED
    BY <2>1, <2>2
<1>3. QED
  BY <1>1, <1>2 DEF UploadInvariant, Sound

LEMMA RegroupedNext == UploadInvariant' <=> Sound'
  BY Regrouped, PTL

-----------------------------------------------------------------------------
(* Soundness survives every operation of the client on a row.              *)

LEMMA SoundGrows ==
    ASSUME NEW pub, NEW more, pub \subseteq more, NEW guesses, NEW wider, guesses \subseteq wider
    PROVE  /\ \A p, row : SoundRow(p, row, pub, guesses) => SoundRow(p, row, more, wider)
           /\ \A c : SoundChange(c, pub, guesses) => SoundChange(c, more, wider)
           /\ \A op : SoundOperation(op, pub) => SoundOperation(op, more)
           /\ \A p, row, reply : KnownAnswer(p, row, reply, pub) =>
                                    KnownAnswer(p, row, reply, more)
<1>1. \A p, base, content : KnownBase(p, base, content, pub) =>
                               KnownBase(p, base, content, more)
  BY DEF KnownBase
<1>2. \A p, row : SoundRow(p, row, pub, guesses) => SoundRow(p, row, more, wider)
  BY <1>1 DEF SoundRow
<1>3. \A c : SoundChange(c, pub, guesses) => SoundChange(c, more, wider)
  BY <1>1 DEF SoundChange
<1>4. \A op : SoundOperation(op, pub) => SoundOperation(op, more)
  BY DEF SoundOperation, KnownDoc
<1>5. \A p, row, reply : KnownAnswer(p, row, reply, pub) => KnownAnswer(p, row, reply, more)
  BY DEF KnownAnswer
<1>6. QED
  BY <1>2, <1>3, <1>4, <1>5

LEMMA SyncedRowSound ==
    ASSUME NEW p, NEW pub, NEW guesses, NEW doc \in Doc, KnownDoc(p, doc, pub)
    PROVE  SoundRow(p, SyncedRow(doc), pub, guesses)
  BY DEF SoundRow, SyncedRow, KnownDoc, KnownBase, NoRow, NoBase, Doc, SavedDocOf

LEMMA SavedRowSound ==
    ASSUME NEW p, NEW pub, NEW guesses, NEW row \in Row, SoundRow(p, row, pub, guesses),
           row.base = NoBase => p \in guesses,
           NEW content, NEW version \in Nat, row.content \subseteq content
    PROVE  SoundRow(p, SavedRow(row, content, version), pub, guesses)
  BY DEF SoundRow, SavedRow, Creating, KnownBase, Row, NoBase

LEMMA DeletedRowSound ==
    ASSUME NEW p, NEW pub, NEW guesses, NEW row \in Row, SoundRow(p, row, pub, guesses), row.state # "absent",
           row.base = NoBase => p \in guesses
    PROVE  SoundRow(p, DeletedRow(row), pub, guesses)
  BY DEF SoundRow, DeletedRow, KnownBase, Row, NoBase

LEMMA MineRowSound ==
    ASSUME NEW p, NEW pub, NEW guesses, NEW row \in Row, NEW doc \in Doc, NEW e,
           KnownDoc(p, doc, pub)
    PROVE  SoundRow(p, MineRow(row, doc, e), pub, guesses)
  BY DEF SoundRow, MineRow, KnownDoc, KnownBase, SavedDocOf, Doc, NoBase

LEMMA RecoveredRowSound ==
    ASSUME NEW p, NEW pub, NEW guesses, NEW row
    PROVE  SoundRow(p, RecoveredRow(row), pub, guesses)
  BY DEF SoundRow, RecoveredRow, KnownBase, NoBase

\* An acknowledgement rebases a row on, or clears it to, the very document the
\* server published for the submitted row, which the row still contains.
LEMMA AnsweredRowSound ==
    ASSUME NEW p, NEW pub, NEW guesses, NEW row \in Row, NEW submitted \in Row, NEW reply \in Reply,
           SoundRow(p, row, pub, guesses), KnownAnswer(p, submitted, reply, pub),
           submitted.state # "absent" => submitted.content \subseteq row.content
    PROVE  SoundRow(p, AnsweredRow(row, submitted, reply), pub, guesses)
<1>1. CASE AnsweredRow(row, submitted, reply) = row
  BY <1>1
<1>2. CASE /\ ~Unanswered(row, submitted, reply)
           /\ AnsweredRow(row, submitted, reply) = ConflictRow(row)
  BY <1>2 DEF Unanswered, ConflictRow, SoundRow, Row
<1>3. CASE /\ Acknowledged(row, submitted, reply)
           /\ AnsweredRow(row, submitted, reply) = RebasedRow(row, reply.version)
  <2>1. KnownBase(p, reply.version, row.content, pub)
    BY <1>3 DEF Acknowledged, Unanswered, KnownAnswer, KnownBase, SavedDocOf, Reply
  <2>2. QED
    BY <1>3, <2>1 DEF RebasedRow, SoundRow, Row, Reply, NoBase
<1>4. CASE /\ Acknowledged(row, submitted, reply)
           /\ SameRevision(row, submitted)
           /\ AnsweredRow(row, submitted, reply) = ClearedRow(row, reply.version)
  <2>1. CASE row.state = "pendingDelete"
    BY <1>4, <2>1 DEF ClearedRow, SoundRow, NoRow, NoBase
  <2>2. CASE row.state # "pendingDelete"
    BY <1>4, <2>2 DEF Acknowledged, Unanswered, SameRevision, KnownAnswer, ClearedRow,
                      SoundRow, KnownBase, SavedDocOf, Row, Reply, NoBase
  <2>3. QED
    BY <2>1, <2>2
<1>5. QED
  BY <1>1, <1>2, <1>3, <1>4, AnswerCases

-----------------------------------------------------------------------------
(* Steps that touch only part of the state.                                *)

\* A device's operation moves on, other than to or from an upload, and leaves
\* sound rows behind.
LEMMA OperationMoves ==
    ASSUME UploadInvariant, TypeOK', NEW d \in Devices, NEW op \in Operation,
           net[d].at # "sent", op.at # "sent", SoundOperation(op, published),
           MoveTo(d, op), UNCHANGED <<serverVars, inbox, guessed>>,
           \A x \in Devices \ {d} : mirror'[x] = mirror[x],
           \A p \in Paths : SoundRow(p, mirror'[d][p], published, guessed)
    PROVE  UploadInvariant'
<1> USE Regrouped, RegroupedNext DEF Sound
<1>1. net' = [net EXCEPT ![d] = op] /\ net \in [Devices -> Operation]
  BY DEF MoveTo, TypeOK
<1>2. published' = published /\ bundle' = bundle
  BY DEF serverVars
<1>3. CurrentIsPublished'
  BY <1>2 DEF CurrentIsPublished, Present
<1>4. \A x \in Devices : SoundOperation(net'[x], published')
  BY <1>1, <1>2
<1>5. \A r \in inbox : r.live => r.dev # d
  BY DEF UploadIsTracked
<1>6. UploadIsTracked'
  <2>1. \A r \in inbox : r.live => net'[r.dev] = net[r.dev]
    BY <1>1, <1>5 DEF TypeOK, Request
  <2>2. QED
    BY <1>2, <2>1 DEF UploadIsTracked, Answered
<1>7. OneUpload'
  BY DEF OneUpload
<1>8. SubmittedIsKept'
  BY <1>1 DEF SubmittedIsKept
<1>9. RowsSound'
  BY <1>2 DEF RowsSound
<1>10. ChangesSound'
  BY <1>2 DEF ChangesSound
<1>11. QED
  BY <1>3, <1>4, <1>6, <1>7, <1>8, <1>9, <1>10

\* The owner saves or deletes a note: one row changes, whatever its device's
\* operation is.  A submitted row stays queued and is built upon.
LEMMA RowChanges ==
    ASSUME UploadInvariant, TypeOK', NEW d \in Devices, NEW p \in Paths, NEW row,
           mirror' = [mirror EXCEPT ![d][p] = row],
           UNCHANGED <<serverVars, net, inbox>>, guessed \subseteq guessed',
           SoundRow(p, row, published, guessed'),
           IsPending(mirror[d][p]) => IsPending(row),
           IsPending(mirror[d][p]) => mirror[d][p].content \subseteq row.content
    PROVE  UploadInvariant'
<1> USE Regrouped, RegroupedNext DEF Sound
<1>1. published' = published /\ bundle' = bundle
  BY DEF serverVars
<1>2. mirror \in [Devices -> [Paths -> Row]]
  BY DEF TypeOK, ClientTypeOK
<1>3. CurrentIsPublished'
  BY <1>1 DEF CurrentIsPublished, Present
<1>4. \A x \in Devices : SoundOperation(net'[x], published')
  BY <1>1
<1>5. UploadIsTracked' /\ OneUpload'
  BY <1>1 DEF UploadIsTracked, OneUpload, Answered
<1>6. SubmittedIsKept'
  BY <1>2 DEF SubmittedIsKept
<1>7. RowsSound'
  BY <1>1, <1>2, SoundGrows DEF RowsSound
<1>8. ChangesSound'
  BY <1>1, SoundGrows DEF ChangesSound
<1>9. QED
  BY <1>3, <1>4, <1>5, <1>6, <1>7, <1>8

\* The server's own notes change: what was published stays published.
LEMMA NotesChange ==
    ASSUME UploadInvariant, TypeOK', UNCHANGED <<mirror, net, inbox, guessed>>,
           published \subseteq published', CurrentIsPublished'
    PROVE  UploadInvariant'
<1> USE Regrouped, RegroupedNext DEF Sound
<1>1. \A x \in Devices : SoundOperation(net'[x], published')
  BY SoundGrows
<1>2. UploadIsTracked' /\ OneUpload'
  <2>1. \A p \in Paths : \A row, reply : Answered(p, row, reply) => Answered(p, row, reply)'
    BY DEF Answered
  <2>2. QED
    BY <2>1 DEF UploadIsTracked, OneUpload
<1>3. SubmittedIsKept'
  BY DEF SubmittedIsKept
<1>4. RowsSound' /\ ChangesSound'
  BY SoundGrows DEF RowsSound, ChangesSound
<1>5. QED
  BY <1>1, <1>2, <1>3, <1>4

LEMMA UnchangedKeeps == UploadInvariant /\ UNCHANGED vars => UploadInvariant'
<1> SUFFICES ASSUME UploadInvariant, UNCHANGED vars PROVE UploadInvariant'
  OBVIOUS
<1>1. TypeOK'
  BY ServerUnchanged, ClientUnchanged DEF UploadInvariant, TypeOK, vars, netVars, histVars
<1>2. CurrentIsPublished'
  BY DEF UploadInvariant, CurrentIsPublished, Present, vars, serverVars
<1>3. QED
  BY <1>1, <1>2, NotesChange DEF vars, netVars, serverVars, clientVars, histVars

-----------------------------------------------------------------------------
(* The server's steps.                                                     *)

\* Every handler keeps the current notes published, and an acknowledgement it
\* gives is of a published document, or of a deletion.
LEMMA PushKeepsPublished ==
    ASSUME ServerTypeOK, CurrentIsPublished, NEW c \in Change, NEW reply \in Reply,
           PushChange(c, reply)
    PROVE  /\ published \subseteq published'
           /\ CurrentIsPublished'
           /\ reply.kind = "applied" =>
                IF c.deleted THEN reply.version = 0
                ELSE SavedDocOf(c.path, [content |-> c.content, version |-> reply.version])
                         \in published'
<1> USE DEF CurrentIsPublished, Present, ServerTypeOK
<1>1. bundle[c.path] \in Doc /\ c.path \in Paths
  BY DEF Change
<1>2. CASE DeleteRefused(c, reply) \/ EditOfDeleted(c, reply)
  BY <1>2 DEF DeleteRefused, EditOfDeleted, Refused, serverVars
<1>3. CASE DeleteApplied(c, reply)
  <2>1. reply.kind = "applied" /\ reply.version = 0 /\ c.deleted
    BY <1>3 DEF DeleteApplied, Applied
  <2>2. published' = published
    BY <1>3 DEF DeleteApplied, RemoveNote, serverVars
  <2>3. bundle' = bundle \/ bundle' = [bundle EXCEPT ![c.path] = NoDoc]
    BY <1>3 DEF DeleteApplied, RemoveNote, serverVars
  <2>4. CurrentIsPublished'
    BY <1>1, <2>2, <2>3 DEF NoDoc
  <2>5. QED
    BY <2>1, <2>2, <2>4
<1>4. CASE Replayed(c, reply)
  BY <1>1, <1>4 DEF Replayed, Applied, SavedDocOf, serverVars, Doc
<1>5. CASE NoteAdded(c, reply)
  BY <1>1, <1>5 DEF NoteAdded, WriteNote, Applied, SavedDocOf
<1>6. CASE EditAccepted(c, reply)
  BY <1>1, <1>6 DEF EditAccepted, Diverges, WriteNote, Applied, SavedDocOf
<1>7. CASE EditConflicts(c, reply) \/ LegacyLoses(c, reply)
  BY <1>7 DEF EditConflicts, LegacyLoses, Refused
<1>8. CASE LegacyWins(c, reply)
  BY <1>1, <1>8 DEF LegacyWins, Refused, SavedDocOf
<1>9. QED
  BY <1>2, <1>3, <1>4, <1>5, <1>6, <1>7, <1>8 DEF PushChange

LEMMA ServerStepKeeps ==
    ASSUME UploadInvariant, TypeOK', ServerStep
    PROVE  UploadInvariant'
<1>1. TypeOK /\ CurrentIsPublished
  BY DEF UploadInvariant
<1>2. ASSUME NEW r \in inbox, NEW c \in r.todo, ServeChange(r, c)
      PROVE  UploadInvariant'
  <2> USE Regrouped, RegroupedNext DEF Sound
  <2>1. PICK reply \in {Refused} \cup {Applied(v) : v \in 0..(bundle[c.path].version + 1)} :
            /\ PushChange(c, reply)
            /\ inbox' \subseteq (inbox \ {r}) \cup {Served(r, c, reply)}
    BY <1>2, ServeChangeEffect
  <2>2. r \in Request /\ c \in Change /\ ServerTypeOK
    BY <1>1 DEF TypeOK, Request
  <2>3. reply \in Reply
    BY <2>2 DEF Refused, Applied, Reply, ServerTypeOK, Change, Doc
  <2>4. mirror' = mirror /\ net' = net /\ guessed' = guessed
    BY <1>2, ServeChangeEffect DEF clientVars, histVars
  <2>5. /\ published \subseteq published' /\ CurrentIsPublished'
        /\ reply.kind = "applied" =>
             IF c.deleted THEN reply.version = 0
             ELSE SavedDocOf(c.path, [content |-> c.content, version |-> reply.version])
                      \in published'
    BY <1>1, <2>1, <2>2, <2>3, PushKeepsPublished
  <2> DEFINE served == Served(r, c, reply)
  <2>6. /\ served.dev = r.dev /\ served.live = r.live
        /\ served.todo \subseteq r.todo
        /\ served.replies[c.path] = reply
        /\ \A p \in Paths : p # c.path => served.replies[p] = r.replies[p]
    BY <2>2 DEF Served, Request, Change
  <2> HIDE DEF served
  <2>7. \A x \in Devices : SoundOperation(net'[x], published')
    BY <2>4, <2>5, SoundGrows
  <2>8. Tracked(published, net, inbox)
    BY UploadTracked
  <2>9. UploadIsTracked'
    <3>1. \A s \in inbox : s.live => TrackedUpload(s, net[s.dev], published')
      BY <2>5, <2>8, SoundGrows DEF Tracked, TrackedUpload
    <3>2. r.live => KnownAnswer(c.path, net[r.dev].rows[c.path], reply, published')
      <4>1. r.live => c = ChangeOf(c.path, net[r.dev].rows[c.path])
        BY <2>8 DEF Tracked, TrackedUpload
      <4>2. r.live => /\ c.deleted = (net[r.dev].rows[c.path].state = "pendingDelete")
                      /\ c.content = net[r.dev].rows[c.path].content
        BY <4>1 DEF ChangeOf
      <4>3. QED
        BY <2>5, <4>2 DEF KnownAnswer
    <3>3. served.live => TrackedUpload(served, net[served.dev], published')
      BY <2>6, <3>1, <3>2 DEF TrackedUpload
    <3>4. Tracked(published', net, inbox')
      BY <2>1, <3>1, <3>3 DEF Tracked, served
    <3>5. QED
      BY <2>4, <3>4, UploadTrackedNext
  <2>10. OneUpload'
    BY <2>1, <2>6 DEF OneUpload, served
  <2>11. SubmittedIsKept'
    BY <2>4 DEF SubmittedIsKept
  <2>12. RowsSound'
    BY <2>4, <2>5, SoundGrows DEF RowsSound
  <2>13. ChangesSound'
    BY <2>1, <2>4, <2>5, <2>6, SoundGrows DEF ChangesSound, served
  <2>14. QED
    BY <2>5, <2>7, <2>9, <2>10, <2>11, <2>12, <2>13
<1>3. ASSUME NEW p \in Paths, NEW doc, WriteNote(p, doc)
      PROVE  published \subseteq published' /\ CurrentIsPublished'
  BY <1>1, <1>3 DEF WriteNote, CurrentIsPublished, Present, TypeOK, ServerTypeOK
<1>4. ASSUME NEW p \in Paths, NEW e \in Edits, NEW known \in published, NEW doc \in Doc,
             AgentWrote(p, known, e, doc)
      PROVE  UploadInvariant'
  BY <1>3, <1>4, NotesChange DEF AgentWrote, clientVars, netVars
<1>5. ASSUME NEW p \in Paths, NEW e \in Edits, ServerDelete(p, e)
      PROVE  UploadInvariant'
  <2>1. published' = published /\ bundle' = [bundle EXCEPT ![p] = NoDoc]
    BY <1>5 DEF ServerDelete, ServiceDelete, RemoveNote
  <2>2. CurrentIsPublished'
    BY <1>1, <2>1 DEF CurrentIsPublished, Present, NoDoc, TypeOK, ServerTypeOK
  <2>3. QED
    BY <1>5, <2>1, <2>2, NotesChange DEF ServerDelete, clientVars, netVars
<1>6. ASSUME NEW t \in trash, ServerRestore(t)
      PROVE  UploadInvariant'
  <2>1. t.path \in Paths
    BY <1>1 DEF TypeOK, ServerTypeOK, SavedDoc
  <2>2. QED
    BY <1>3, <1>6, <2>1, NotesChange
       DEF ServerRestore, RestoreFromTrash, clientVars, netVars, histVars
<1>7. QED
  BY <1>1, <1>2, <1>4, <1>5, <1>6, AgentsWrite DEF ServerStep

-----------------------------------------------------------------------------
(* The owner's steps.                                                      *)

LEMMA OwnerStepKeeps ==
    ASSUME UploadInvariant, TypeOK', NEW d \in Devices, OwnerStep(d)
    PROVE  UploadInvariant'
<1>1. mirror \in [Devices -> [Paths -> Row]] /\ net \in [Devices -> Operation]
  BY DEF UploadInvariant, TypeOK, ClientTypeOK
<1>2. \A p \in Paths : SoundRow(p, mirror[d][p], published, guessed)
  BY Regrouped DEF Sound, RowsSound
<1>3. ASSUME NEW p \in Paths, NEW e \in Edits, CaptureNote(d, p, e)
      PROVE  UploadInvariant'
  <2>1. mirror[d][p].state = "absent"
    BY <1>3 DEF CaptureNote, Fresh
  <2> DEFINE row == SavedRow(mirror[d][p], {e}, 1)
  <2>2. SoundRow(p, row, published, guessed')
    BY <2>1 DEF SavedRow, Creating, SoundRow, KnownBase, NoBase
  <2>3. ~IsPending(mirror[d][p])
    BY <2>1 DEF IsPending, Pending
  <2>4. mirror' = [mirror EXCEPT ![d][p] = row]
    BY <1>3 DEF CaptureNote, SaveLocal
  <2> HIDE DEF row
  <2>5. QED
    BY <1>3, <2>2, <2>3, <2>4, RowChanges DEF CaptureNote, netVars
<1>4. ASSUME NEW p \in Paths, NEW e \in Edits, EditNote(d, p, e)
      PROVE  UploadInvariant'
  <2> DEFINE version == NextVersion(mirror[d][p], mirror[d][p].version)
             row == SavedRow(mirror[d][p], mirror[d][p].content \cup {e}, version)
  <2>1. version \in Nat
    BY <1>1 DEF NextVersion, Row
  <2>6. /\ guessed \subseteq guessed'
        /\ mirror[d][p].base = NoBase => p \in guessed'
        /\ SoundRow(p, mirror[d][p], published, guessed')
    BY <1>2, <1>4, SoundGrows DEF EditNote, Guess
  <2>2. SoundRow(p, row, published, guessed')
    BY <1>1, <2>1, <2>6, SavedRowSound
  <2>3. IsPending(row) /\ mirror[d][p].content \subseteq row.content
    BY <1>1 DEF IsPending, Pending, SavedRow
  <2>4. mirror' = [mirror EXCEPT ![d][p] = row]
    BY <1>4 DEF EditNote, SaveLocal
  <2> HIDE DEF row
  <2>5. QED
    BY <1>4, <2>2, <2>3, <2>4, <2>6, RowChanges DEF EditNote, netVars
<1>5. ASSUME NEW p \in Paths, NEW e \in Edits, DeleteNote(d, p, e)
      PROVE  UploadInvariant'
  <2> DEFINE row == DeletedRow(mirror[d][p])
  <2>5. /\ guessed \subseteq guessed'
        /\ mirror[d][p].base = NoBase => p \in guessed'
        /\ SoundRow(p, mirror[d][p], published, guessed')
    BY <1>2, <1>5, SoundGrows DEF DeleteNote, Guess
  <2>1. SoundRow(p, row, published, guessed')
    BY <1>1, <1>5, <2>5, DeletedRowSound DEF DeleteNote, Visible
  <2>2. IsPending(row) /\ mirror[d][p].content \subseteq row.content
    BY <1>1 DEF IsPending, Pending, DeletedRow, Row
  <2>3. mirror' = [mirror EXCEPT ![d][p] = row]
    BY <1>5 DEF DeleteNote, DeleteLocal
  <2> HIDE DEF row
  <2>4. QED
    BY <1>5, <2>1, <2>2, <2>3, <2>5, RowChanges DEF DeleteNote, netVars
<1>6. ASSUME NEW p \in Paths, NEW choice \in Choices, NEW e \in Edits,
             StartResolve(d, p, choice, e)
      PROVE  UploadInvariant'
  <2> DEFINE op == [at |-> "resolving", path |-> p, choice |-> choice, edit |-> e,
                    doc |-> bundle[p]]
  <2>1. op \in Operation
    BY <1>1 DEF UploadInvariant, TypeOK, ServerTypeOK, Operation, Row
  <2>2. op.at # "sent" /\ net[d].at # "sent"
    BY <1>6 DEF StartResolve, Idle
  <2>3. SoundOperation(op, published)
    BY DEF UploadInvariant, CurrentIsPublished, Present, SoundOperation, KnownDoc
  <2>4. MoveTo(d, op) /\ UNCHANGED <<serverVars, clientVars, inbox, guessed>>
    BY <1>6 DEF StartResolve
  <2> HIDE DEF op
  <2>5. QED
    BY <1>2, <2>1, <2>2, <2>3, <2>4, OperationMoves DEF clientVars
<1>7. Idle \in Operation /\ Idle.at # "sent" /\ SoundOperation(Idle, published)
  BY DEF Idle, Operation, SoundOperation
<1>8. CASE KeepMine(d) \/ KeepServer(d) \/ \E p \in Paths : KeepBoth(d, p)
  <2>1. net[d].at = "resolving" /\ net[d] \in Operation
    BY <1>1, <1>8 DEF KeepMine, KeepServer, KeepBoth
  <2>2. net[d].path \in Paths /\ net[d].doc \in Doc
    BY <2>1 DEF Operation
  <2>3. KnownDoc(net[d].path, net[d].doc, published)
    BY <2>1, Regrouped DEF Sound, SoundOperation
  <2>4. mirror[d][net[d].path] \in Row
    BY <1>1, <2>2
  <2>5. MoveTo(d, Idle) /\ UNCHANGED <<serverVars, inbox, guessed>>
    BY <1>8 DEF KeepMine, KeepServer, KeepBoth, histVars
  <2>6. /\ \A x \in Devices \ {d} : mirror'[x] = mirror[x]
        /\ \A p \in Paths : SoundRow(p, mirror'[d][p], published, guessed)
    <3>1. CASE KeepMine(d)
      BY <1>1, <1>2, <2>2, <2>3, <2>4, <3>1, MineRowSound DEF KeepMine
    <3>2. CASE KeepServer(d)
      BY <1>1, <1>2, <2>2, <2>3, <3>2, SyncedRowSound DEF KeepServer
    <3>3. ASSUME NEW copy \in Paths, KeepBoth(d, copy)
          PROVE  /\ \A x \in Devices \ {d} : mirror'[x] = mirror[x]
                 /\ \A p \in Paths : SoundRow(p, mirror'[d][p], published, guessed)
      BY <1>1, <1>2, <2>2, <2>3, <3>3, SyncedRowSound, RecoveredRowSound DEF KeepBoth
    <3>4. QED
      BY <1>8, <3>1, <3>2, <3>3
  <2>7. QED
    BY <1>7, <2>1, <2>5, <2>6, OperationMoves
<1>9. QED
  BY <1>3, <1>4, <1>5, <1>6, <1>8 DEF OwnerStep

-----------------------------------------------------------------------------
(* A device's network steps.                                               *)

LEMMA SubmitKeeps ==
    ASSUME UploadInvariant, TypeOK', NEW d \in Devices, SubmitQueue(d)
    PROVE  UploadInvariant'
<1> USE Regrouped, RegroupedNext DEF Sound
<1> DEFINE rows == [p \in Paths |-> IF p \in Queue(d) THEN mirror[d][p] ELSE NoRow]
           op == [at |-> "sent", rows |-> rows]
           request == RequestOf(d)
<1>1. /\ net \in [Devices -> Operation] /\ net' = [net EXCEPT ![d] = op]
      /\ inbox' = inbox \cup {request}
      /\ net[d].at = "ready"
      /\ published' = published /\ bundle' = bundle /\ mirror' = mirror /\ guessed' = guessed
  BY DEF SubmitQueue, MoveTo, TypeOK, serverVars, clientVars, histVars
<1>2. inbox \subseteq Request
  BY DEF TypeOK
<1>3. CurrentIsPublished'
  BY <1>1 DEF CurrentIsPublished, Present
<1>4. \A x \in Devices : SoundOperation(net'[x], published')
  <2>1. SoundOperation(op, published)
    BY DEF SoundOperation
  <2>2. QED
    BY <1>1, <2>1
<1>5. \A r \in inbox : r.live => r.dev # d
  BY <1>1 DEF UploadIsTracked
<1>6. request.dev = d /\ request.live
  BY DEF RequestOf
<1>7. UploadIsTracked'
  <2>1. \A r \in inbox : r.live => TrackedUpload(r, net'[r.dev], published')
    BY <1>1, <1>2, <1>5, UploadTracked DEF Tracked, Request
  <2>2. \A c \in request.todo : c = ChangeOf(c.path, rows[c.path])
    BY DEF RequestOf, Queue, ChangeOf
  <2>3. \A p \in Paths : KnownAnswer(p, rows[p], request.replies[p], published')
    BY DEF RequestOf, KnownAnswer, NoReply
  <2>4. TrackedUpload(request, op, published')
    BY <2>2, <2>3 DEF TrackedUpload
  <2>5. net'[d] = op
    BY <1>1
  <2> HIDE DEF op, request
  <2>6. Tracked(published', net', inbox')
    BY <1>1, <1>6, <2>1, <2>4, <2>5 DEF Tracked
  <2>7. QED
    BY <2>6, UploadTrackedNext
<1>8. OneUpload'
  <2> HIDE DEF request
  <2>1. QED
    BY <1>1, <1>5, <1>6 DEF OneUpload
<1>9. SubmittedIsKept'
  <2>1. \A p \in Paths : rows[p].state # "absent" =>
            /\ Uploadable(rows[p])
            /\ IsPending(mirror[d][p])
            /\ rows[p].content \subseteq mirror[d][p].content
    BY DEF Queue, Uploadable, NoRow
  <2>2. net'[d].rows = rows
    BY <1>1
  <2> HIDE DEF rows
  <2>3. QED
    BY <1>1, <2>1, <2>2 DEF SubmittedIsKept
<1>10. RowsSound'
  BY <1>1 DEF RowsSound
<1>11. ChangesSound'
  <2>1. ASSUME NEW c \in request.todo
        PROVE  SoundChange(c, published, guessed)
    <3>1. PICK p \in Queue(d) : c = ChangeOf(p, mirror[d][p])
      BY DEF RequestOf
    <3>2. p \in Paths /\ mirror[d][p].state # "absent"
      BY DEF Queue, Uploadable, IsPending, Pending
    <3>3. SoundRow(p, mirror[d][p], published, guessed)
      BY <3>2 DEF RowsSound
    <3>4. c.path = p /\ c.base = mirror[d][p].base /\ c.content = mirror[d][p].content
      BY <3>1 DEF ChangeOf
    <3>5. QED
      BY <3>2, <3>3, <3>4 DEF SoundRow, SoundChange
  <2> HIDE DEF request
  <2>2. QED
    BY <1>1, <2>1 DEF ChangesSound
<1>12. QED
  BY <1>3, <1>4, <1>7, <1>8, <1>9, <1>10, <1>11

\* The device stops waiting for the uploads mine: none of them is live any more.
LEMMA WaitEnds ==
    ASSUME UploadInvariant, TypeOK', NEW d \in Devices, NEW op \in Operation,
           op.at # "sent", SoundOperation(op, published), MoveTo(d, op),
           UNCHANGED <<serverVars, guessed>>,
           \A r \in inbox' : r \in inbox \/ (~r.live /\ \E s \in inbox : s.todo = r.todo),
           \A r \in inbox' : r.live => r.dev # d,
           \A x \in Devices \ {d} : mirror'[x] = mirror[x],
           \A p \in Paths : SoundRow(p, mirror'[d][p], published, guessed)
    PROVE  UploadInvariant'
<1> USE Regrouped, RegroupedNext DEF Sound
<1>1. /\ net \in [Devices -> Operation] /\ net' = [net EXCEPT ![d] = op]
      /\ published' = published /\ bundle' = bundle
      /\ inbox \subseteq Request
  BY DEF MoveTo, TypeOK, serverVars
<1>2. CurrentIsPublished'
  BY <1>1 DEF CurrentIsPublished, Present
<1>3. \A x \in Devices : SoundOperation(net'[x], published')
  BY <1>1
<1>4. UploadIsTracked'
  <2>1. \A r \in inbox' : r.live => r \in inbox /\ net'[r.dev] = net[r.dev]
    BY <1>1 DEF Request
  <2>2. QED
    BY <1>1, <2>1, UploadTracked, UploadTrackedNext DEF Tracked
<1>5. OneUpload'
  BY DEF OneUpload
<1>6. SubmittedIsKept'
  BY <1>1 DEF SubmittedIsKept
<1>7. RowsSound'
  BY <1>1 DEF RowsSound
<1>8. ChangesSound'
  BY <1>1 DEF ChangesSound
<1>9. QED
  BY <1>2, <1>3, <1>4, <1>5, <1>6, <1>7, <1>8

LEMMA DeviceStepKeeps ==
    ASSUME UploadInvariant, TypeOK', NEW d \in Devices, DeviceStep(d)
    PROVE  UploadInvariant'
<1>1. /\ mirror \in [Devices -> [Paths -> Row]] /\ net \in [Devices -> Operation]
      /\ bundle \in [Paths -> Doc] /\ cursor \in [Devices -> Nat] /\ inbox \subseteq Request
  BY DEF UploadInvariant, TypeOK, ClientTypeOK, ServerTypeOK
<1>2. /\ \A p \in Paths : SoundRow(p, mirror[d][p], published, guessed)
      /\ SoundOperation(net[d], published)
      /\ \A p \in Paths : KnownDoc(p, bundle[p], published)
  BY Regrouped DEF Sound, RowsSound, CurrentIsPublished, Present, KnownDoc
<1>3. \A at \in {"idle", "ready", "pulling"} :
          /\ [at |-> at] \in Operation
          /\ [at |-> at].at # "sent"
          /\ SoundOperation([at |-> at], published)
  BY DEF Operation, SoundOperation
<1>4. CASE StartBootstrap(d)
  <2> DEFINE op == [at |-> "listed", docs |-> Listing]
  <2>1. op \in Operation /\ op.at # "sent" /\ SoundOperation(op, published)
    BY <1>1, <1>2 DEF Operation, SoundOperation, Listing
  <2>2. net[d].at # "sent" /\ MoveTo(d, op)
    BY <1>4 DEF StartBootstrap, Idle
  <2> HIDE DEF op
  <2>3. QED
    BY <1>2, <1>4, <2>1, <2>2, OperationMoves DEF StartBootstrap, clientVars, histVars
<1>5. CASE MergeCatalogue(d)
  <2>1. net[d].docs \in [Paths -> Doc]
    BY <1>1, <1>5 DEF MergeCatalogue, Operation
  <2>2. \A p \in Paths : KnownDoc(p, net[d].docs[p], published)
    BY <1>2, <1>5 DEF MergeCatalogue, SoundOperation
  <2>3. \A p \in Paths : SoundRow(p, MergedRow(mirror[d][p], net[d].docs[p]), published, guessed)
    BY <1>2, <2>1, <2>2, SyncedRowSound DEF MergedRow
  <2>4. /\ \A p \in Paths : SoundRow(p, mirror'[d][p], published, guessed)
        /\ \A x \in Devices \ {d} : mirror'[x] = mirror[x]
    BY <1>1, <1>5, <2>3 DEF MergeCatalogue, MergeListing
  <2>5. QED
    BY <1>3, <1>5, <2>4, OperationMoves DEF MergeCatalogue, histVars
<1>6. CASE StartFlush(d)
  BY <1>2, <1>3, <1>6, OperationMoves DEF StartFlush, Idle, clientVars, histVars
<1>7. CASE SubmitQueue(d)
  BY <1>7, SubmitKeeps
<1>8. CASE SubmitNothing(d)
  BY <1>2, <1>3, <1>8, OperationMoves DEF SubmitNothing, clientVars, histVars
<1>9. ASSUME NEW r \in inbox, ApplyResponse(d, r)
      PROVE  UploadInvariant'
  <2>1. net[d].rows \in [Paths -> Row] /\ r.replies \in [Paths -> Reply]
    BY <1>1, <1>9 DEF ApplyResponse, Operation, Request
  <2>2. \A p \in Paths : KnownAnswer(p, net[d].rows[p], r.replies[p], published)
    BY <1>9, UploadTracked, Regrouped DEF Sound, ApplyResponse, Tracked, TrackedUpload
  <2>3. \A p \in Paths : net[d].rows[p].state # "absent" =>
                            net[d].rows[p].content \subseteq mirror[d][p].content
    BY <1>9 DEF ApplyResponse, UploadInvariant, SubmittedIsKept
  <2>4. \A p \in Paths :
            SoundRow(p, AnsweredRow(mirror[d][p], net[d].rows[p], r.replies[p]), published, guessed)
    BY <1>1, <1>2, <2>1, <2>2, <2>3, AnsweredRowSound
  <2>5. /\ \A p \in Paths : SoundRow(p, mirror'[d][p], published, guessed)
        /\ \A x \in Devices \ {d} : mirror'[x] = mirror[x]
    BY <1>1, <1>9, <2>4 DEF ApplyResponse, ApplyAnswers
  <2>6. \A s \in inbox' : s \in inbox /\ (s.live => s.dev # d)
    BY <1>9 DEF ApplyResponse, UploadInvariant, OneUpload
  <2>7. QED
    BY <1>3, <1>9, <2>5, <2>6, WaitEnds DEF ApplyResponse, histVars
<1>10. CASE PullChanges(d)
  <2> DEFINE op == [at |-> "pulled", delta |-> Delta(cursor[d])]
  <2>1. Delta(cursor[d]) \in DeltaType
    BY <1>1, DeltaTyped DEF UploadInvariant, TypeOK
  <2>2. op \in Operation /\ op.at # "sent"
    BY <2>1 DEF Operation
  <2>3. SoundOperation(op, published)
    BY <1>2 DEF SoundOperation, Delta, KnownDoc, NoDoc
  <2>4. MoveTo(d, op) /\ net[d].at # "sent"
    BY <1>10 DEF PullChanges
  <2> HIDE DEF op
  <2>5. QED
    BY <1>2, <1>10, <2>2, <2>3, <2>4, OperationMoves DEF PullChanges, clientVars, histVars
<1>11. CASE ApplyPulled(d)
  <2>1. net[d].delta \in DeltaType
    BY <1>1, <1>11 DEF ApplyPulled, Operation
  <2>2. \A p \in Paths : KnownDoc(p, net[d].delta.docs[p], published)
    BY <1>2, <1>11 DEF ApplyPulled, SoundOperation
  <2>3. \A p \in Paths : SoundRow(p, PulledRow(mirror[d][p], net[d].delta.docs[p]), published, guessed)
    BY <1>2, <2>1, <2>2, SyncedRowSound DEF PulledRow, DeltaType
  <2>4. /\ \A p \in Paths : SoundRow(p, mirror'[d][p], published, guessed)
        /\ \A x \in Devices \ {d} : mirror'[x] = mirror[x]
    BY <1>1, <1>2, <1>11, <2>3 DEF ApplyPulled, ApplyDelta
  <2>5. QED
    BY <1>3, <1>11, <2>4, OperationMoves DEF ApplyPulled, Idle, histVars
<1>12. CASE BreakOff(d)
  <2> DEFINE mine == {r \in inbox : r.dev = d /\ r.live}
  <2>1. \A r \in inbox' :
            \/ r \in inbox /\ r \notin mine
            \/ \E s \in mine : r = [s EXCEPT !.live = FALSE]
    BY <1>12 DEF BreakOff
  <2>2. \A s \in inbox : /\ [s EXCEPT !.live = FALSE].live = FALSE
                         /\ [s EXCEPT !.live = FALSE].todo = s.todo
    BY <1>1 DEF Request
  <2>3. \A r \in inbox' : /\ r \in inbox \/ (~r.live /\ \E s \in inbox : s.todo = r.todo)
                          /\ r.live => r.dev # d
    BY <2>1, <2>2
  <2>4. QED
    BY <1>2, <1>3, <1>12, <2>3, WaitEnds DEF BreakOff, Idle, clientVars, histVars
<1>13. QED
  BY <1>4, <1>5, <1>6, <1>7, <1>8, <1>9, <1>10, <1>11, <1>12 DEF DeviceStep

-----------------------------------------------------------------------------
(* The theorems.                                                           *)

LEMMA InitKeeps == Init => UploadInvariant
<1> SUFFICES ASSUME Init PROVE UploadInvariant
  OBVIOUS
<1>1. TypeOK
  BY InitType
<1>2. CurrentIsPublished
  <2>1. ServerInit(InitialPaths)
    BY DEF Init
  <2>2. NoDoc.version = 0
    BY DEF NoDoc
  <2>3. \A p \in Paths : Present(p) => /\ p \in InitialPaths
                                       /\ bundle[p] = [content |-> {}, version |-> 1]
    BY <2>1, <2>2 DEF ServerInit, Present
  <2>4. QED
    BY <2>1, <2>3 DEF ServerInit, CurrentIsPublished
<1>3. \A d \in Devices : SoundOperation(net[d], published)
  BY DEF Init, Idle, SoundOperation
<1>4. UploadIsTracked /\ OneUpload /\ SubmittedIsKept /\ ChangesSound
  BY DEF Init, Idle, UploadIsTracked, OneUpload, SubmittedIsKept, ChangesSound
<1>5. RowsSound
  <2>1. PICK editor \in [LegacyPaths -> Devices], edit \in [LegacyPaths -> Edits] :
            mirror = [d \in Devices |-> [p \in Paths |->
                IF p \in LegacyPaths /\ editor[p] = d THEN LegacyRow(edit[p])
                ELSE SyncedRow(bundle[p])]]
    BY DEF Init
  <2>2. \A p \in Paths : bundle[p] \in Doc /\ KnownDoc(p, bundle[p], published)
    BY <1>1, <1>2 DEF TypeOK, ServerTypeOK, CurrentIsPublished, Present, KnownDoc
  <2>3. \A p \in Paths : SoundRow(p, SyncedRow(bundle[p]), published, guessed)
    BY <2>2, SyncedRowSound
  <2>4. \A p \in LegacyPaths, e \in Edits : SoundRow(p, LegacyRow(e), published, guessed)
    BY DEF SoundRow, LegacyRow, KnownBase, NoBase
  <2>5. QED
    BY <2>1, <2>3, <2>4 DEF RowsSound
<1>6. QED
  BY <1>1, <1>2, <1>3, <1>4, <1>5, Regrouped DEF Sound

LEMMA StepKeeps == UploadInvariant /\ TypeOK' /\ [Next]_vars => UploadInvariant'
<1> SUFFICES ASSUME UploadInvariant, TypeOK', [Next]_vars PROVE UploadInvariant'
  OBVIOUS
<1>1. CASE UNCHANGED vars
  BY <1>1, UnchangedKeeps
<1>2. CASE Next
  BY <1>2, DeviceStepKeeps, OwnerStepKeeps, ServerStepKeeps DEF Next
<1>3. QED
  BY <1>1, <1>2

\* Through every interleaving of edits, uploads, lost and late responses, and
\* resolutions: the strengthening the three results below rest on.
THEOREM UploadsAreSound == Spec => []UploadInvariant
  BY InitKeeps, StepKeeps, Typing, PTL DEF Spec

\* A row labelled synced is a document the server has had under that version,
\* whatever was edited while its upload was in flight.
THEOREM SyncedRowsArePublished == Spec => []SyncedIsPublished
<1>1. UploadInvariant => SyncedIsPublished
  BY DEF UploadInvariant
<1>2. QED
  BY <1>1, UploadsAreSound, PTL

\* A base version names a document the pending edit grew from.
THEOREM BasesAreGrounded == Spec => []BaseIsGrounded
<1>1. UploadInvariant => BaseIsGrounded
  BY DEF UploadInvariant
<1>2. QED
  BY <1>1, UploadsAreSound, PTL

\* A step, if no agent's, that replaces a note by one whose author had not seen
\* it keeps the replaced note as a recovery copy, unless its version is reused.
LEMMA OverwritesOnlyReused ==
    ASSUME UploadInvariant, UploadInvariant', [Next]_vars, ~AgentWrites,
           NEW p \in Paths \ guessed, Overwrites(p)
    PROVE  Reused(p)'
<1>1. bundle \in [Paths -> Doc] /\ CurrentIsPublished /\ inbox \subseteq Request
  BY DEF UploadInvariant, TypeOK, ServerTypeOK
<1>2. bundle'[p] # bundle[p]
  BY DEF Overwrites
<1>3. ASSUME NEW q \in Paths, NEW doc, WriteNote(q, doc),
             bundle[q].content \subseteq doc.content \/ ~Present(q)
      PROVE  FALSE
  BY <1>1, <1>2, <1>3 DEF WriteNote, Overwrites, Present
<1>4. ASSUME NEW q \in Paths, RemoveNote(q)
       PROVE  FALSE
  <2>1. bundle' = [bundle EXCEPT ![q] = NoDoc]
    BY <1>2, <1>4 DEF RemoveNote, serverVars
  <2>2. NoDoc.version = 0
    BY DEF NoDoc
  <2>3. QED
    BY <1>1, <1>2, <2>1, <2>2 DEF Overwrites
<1>5. PICK r \in inbox : \E c \in r.todo : ServeChange(r, c)
  <2>1. ASSUME NEW d \in Devices, DeviceStep(d) \/ OwnerStep(d)
        PROVE  bundle' = bundle
    BY <2>1 DEF DeviceStep, OwnerStep, StartBootstrap, MergeCatalogue, StartFlush,
                SubmitQueue, SubmitNothing, ApplyResponse, PullChanges, ApplyPulled,
                BreakOff, CaptureNote, EditNote, DeleteNote, StartResolve, KeepMine,
                KeepServer, KeepBoth, serverVars
  <2>3. ~ \E q \in Paths, e \in Edits : ServerDelete(q, e)
    BY <1>4 DEF ServerDelete, ServiceDelete
  <2>4. ~ \E t \in trash : ServerRestore(t)
    BY <1>3 DEF ServerRestore, RestoreFromTrash, UploadInvariant, TypeOK, ServerTypeOK, SavedDoc
  <2>5. QED
    BY <1>2, <2>1, <2>3, <2>4 DEF Next, ServerStep, vars, serverVars
<1>6. PICK c \in r.todo : ServeChange(r, c)
  BY <1>5
<1>7. c \in Change /\ c.path \in Paths
  BY <1>1 DEF Request, Change
<1>8. PICK reply : PushChange(c, reply)
  BY <1>6, ServeChangeEffect
<1>9. CASE EditAccepted(c, reply)
  <2>1. c.path = p /\ bundle[p].version > 0 /\ c.base = bundle[p].version
    BY <1>1, <1>2, <1>7, <1>9 DEF EditAccepted, Diverges, Present, WriteNote
  <2>2. PICK doc \in published : /\ doc.path = p /\ doc.version = bundle[p].version
                                 /\ doc.content \subseteq c.content
    BY <2>1 DEF UploadInvariant, BaseIsGrounded, Grounded
  <2>3. bundle'[p].content = c.content
    BY <1>1, <1>9, <2>1 DEF EditAccepted, WriteNote
  <2>4. doc.content # bundle[p].content
    BY <2>2, <2>3 DEF Overwrites
  <2>5. SavedDocOf(p, bundle[p]) \in published /\ published \subseteq published'
    BY <1>1, <1>9, <2>1 DEF CurrentIsPublished, Present, EditAccepted, WriteNote
  <2>6. QED
    BY <2>2, <2>4, <2>5 DEF Reused, SavedDocOf
<1>10. ~LegacyWins(c, reply)
  <2>1. SUFFICES ASSUME LegacyWins(c, reply) PROVE FALSE
    OBVIOUS
  <2>2. c.path = p
    BY <1>1, <1>2, <1>7, <2>1 DEF LegacyWins
  <2>3. [path |-> p, content |-> bundle[p].content] \in kept'
    BY <2>1, <2>2 DEF LegacyWins, KeepCopy
  <2>4. QED
    BY <2>3 DEF Overwrites
<1>11. ~NoteAdded(c, reply)
  BY <1>3, <1>7 DEF NoteAdded
<1>12. ~DeleteApplied(c, reply)
  BY <1>7, <1>4 DEF DeleteApplied
<1>13. QED
  BY <1>2, <1>8, <1>9, <1>10, <1>11, <1>12
     DEF PushChange, DeleteRefused, EditOfDeleted, Replayed, EditConflicts, LegacyLoses,
         serverVars

\* "Two devices with the same base never silently overwrite", for every path
\* whose versions each name one document and that knows its bases; what agents
\* write themselves, built on a note they read before, is no upload.
THEOREM UploadsOverwriteNothing == Spec => NoSilentOverwrite
<1>1. UploadInvariant /\ UploadInvariant' /\ [Next]_vars =>
          [(\A p \in Paths \ guessed : Overwrites(p) => Reused(p)') \/ AgentWrites]_vars
  BY OverwritesOnlyReused
<1>2. QED
  BY <1>1, UploadsAreSound, PTL DEF Spec, NoSilentOverwrite

-----------------------------------------------------------------------------
(* No edit is lost.                                                        *)

\* What no step of the server does: forget a document, a copy or a trashed
\* note, or have a note or publish a document that is not one of its notes'.
ServerRemembers ==
    /\ published \subseteq published' /\ kept \subseteq kept'
    /\ \A p \in Paths : EmptyDoc(bundle'[p])
    /\ \A p \in Paths : Present(p) /\ bundle'[p].version = 0 =>
          SavedDocOf(p, bundle[p]) \in trash'
    /\ \A t \in trash : \/ t \in trash'
                        \/ t.path \in Paths /\ bundle'[t.path].content = t.content
    /\ \A doc \in published' : \/ doc \in published
                               \/ \E p \in Paths : doc.content = bundle'[p].content
    /\ \A doc \in trash' : \/ doc \in trash
                           \/ \E p \in Paths : Present(p) /\ doc = SavedDocOf(p, bundle[p])

LEMMA WriteRemembers ==
    ASSUME ServerTypeOK, \A p \in Paths : EmptyDoc(bundle[p]),
           NEW p \in Paths, NEW doc, WriteNote(p, doc), doc.version > 0,
           kept \subseteq kept',
           \A t \in trash : t \in trash' \/ (t.path = p /\ doc.content = t.content),
           trash' \subseteq trash
    PROVE  ServerRemembers
<1>1. /\ bundle' = [bundle EXCEPT ![p] = doc] /\ bundle \in [Paths -> Doc]
      /\ published' = published \cup {SavedDocOf(p, doc)}
  BY DEF WriteNote, ServerTypeOK
<1>2. \A q \in Paths : bundle'[q] = IF q = p THEN doc ELSE bundle[q]
  BY <1>1
<1>3. doc.version # 0
  BY SMT
<1>4. \A q \in Paths : EmptyDoc(bundle'[q])
  BY <1>2, <1>3 DEF EmptyDoc
<1>5. \A q \in Paths : Present(q) /\ bundle'[q].version = 0 =>
          SavedDocOf(q, bundle[q]) \in trash'
  BY <1>2, <1>3, SMT DEF Present
<1>6. \A d \in published' : d \in published \/ \E q \in Paths : d.content = bundle'[q].content
  BY <1>1, <1>2 DEF SavedDocOf
<1>7. \A t \in trash : t \in trash' \/ (t.path \in Paths /\ bundle'[t.path].content = t.content)
  BY <1>2
<1> QED
  BY <1>1, <1>4, <1>5, <1>6, <1>7 DEF ServerRemembers

LEMMA RemoveRemembers ==
    ASSUME ServerTypeOK, \A p \in Paths : EmptyDoc(bundle[p]), NEW p \in Paths, RemoveNote(p)
    PROVE  ServerRemembers
<1>1. CASE UNCHANGED serverVars
  BY <1>1, SMT DEF serverVars, ServerRemembers, Present, EmptyDoc
<1>2. CASE /\ Present(p)
           /\ trash' = trash \cup {SavedDocOf(p, bundle[p])}
           /\ bundle' = [bundle EXCEPT ![p] = NoDoc]
           /\ UNCHANGED <<kept, published>>
  <2>1. bundle \in [Paths -> Doc]
    BY DEF ServerTypeOK
  <2>2. \A q \in Paths : bundle'[q] = IF q = p THEN NoDoc ELSE bundle[q]
    BY <1>2, <2>1
  <2>3. NoDoc.version = 0 /\ NoDoc.content = {}
    BY DEF NoDoc
  <2>4. \A q \in Paths : Present(q) /\ bundle'[q].version = 0 =>
            SavedDocOf(q, bundle[q]) \in trash'
    BY <1>2, <2>1, <2>2, SMT DEF Present, Doc
  <2>5. \A q \in Paths : EmptyDoc(bundle'[q])
    BY <2>2, <2>3 DEF EmptyDoc
  <2> QED
    BY <1>2, <2>4, <2>5 DEF ServerRemembers
<1> QED
  BY <1>1, <1>2 DEF RemoveNote

LEMMA PushRemembers ==
    ASSUME ServerTypeOK, \A p \in Paths : EmptyDoc(bundle[p]),
           NEW c \in Change, NEW reply, PushChange(c, reply)
    PROVE  ServerRemembers
<1>1. bundle \in [Paths -> Doc] /\ bundle[c.path] \in Doc /\ c.path \in Paths
  BY DEF ServerTypeOK, Change
<1>2. CASE UNCHANGED <<bundle, published, trash>> /\ kept \subseteq kept'
  BY <1>2, SMT DEF ServerRemembers, Present, EmptyDoc
<1>3. CASE DeleteApplied(c, reply)
  BY <1>1, <1>3, RemoveRemembers DEF DeleteApplied
<1>4. CASE NoteAdded(c, reply)
  <2>1. [content |-> c.content, version |-> 1].version > 0
    OBVIOUS
  <2> QED
    BY <1>1, <1>4, <2>1, WriteRemembers DEF NoteAdded
<1>5. CASE EditAccepted(c, reply)
  <2> DEFINE doc == [content |-> c.content, version |-> bundle[c.path].version + 1]
  <2>1. doc.version > 0
    BY <1>1 DEF Doc
  <2>2. WriteNote(c.path, doc) /\ UNCHANGED <<kept, trash>>
    BY <1>5 DEF EditAccepted
  <2> HIDE DEF doc
  <2> QED
    BY <1>1, <2>1, <2>2, WriteRemembers
<1>6. CASE LegacyWins(c, reply)
  <2> DEFINE won == IF c.version > bundle[c.path].version THEN c.version
                    ELSE bundle[c.path].version + 1
             doc == [content |-> c.content, version |-> won]
  <2>1. /\ bundle' = [bundle EXCEPT ![c.path] = doc]
        /\ published' = published \cup {SavedDocOf(c.path, doc)}
        /\ kept \subseteq kept' /\ trash' = trash
    BY <1>6 DEF LegacyWins, KeepCopy
  <2>2. doc.version > 0 /\ doc.version # 0
    BY <1>1 DEF Doc, Change
  <2> HIDE DEF doc
  <2>3. \A q \in Paths : bundle'[q] = IF q = c.path THEN doc ELSE bundle[q]
    BY <1>1, <2>1
  <2>4. \A q \in Paths : EmptyDoc(bundle'[q])
    BY <2>2, <2>3 DEF EmptyDoc
  <2>5. \A q \in Paths : Present(q) => bundle'[q].version # 0
    BY <1>1, <2>2, <2>3 DEF Present, Doc
  <2>6. \A d \in published' : d \in published \/ \E q \in Paths : d.content = bundle'[q].content
    BY <1>1, <2>1, <2>3 DEF SavedDocOf
  <2> QED
    BY <2>1, <2>4, <2>5, <2>6 DEF ServerRemembers
<1> QED
  BY <1>2, <1>3, <1>4, <1>5, <1>6
     DEF PushChange, DeleteRefused, EditOfDeleted, Replayed, EditConflicts, LegacyLoses,
         KeepCopy, serverVars

\* As long as a version names one document, what is safe stays safe.
LEMMA SafeStays ==
    ASSUME UploadInvariant, UploadInvariant', [Next]_vars, VersionsName', ServerRemembers,
           \A p \in Paths : EmptyDoc(bundle[p]),
           guessed \subseteq guessed', discarded \subseteq discarded',
           overwritten \subseteq overwritten',
           \A d \in Devices : localTrash[d] \subseteq localTrash'[d],
           NEW e, Safe(e)
    PROVE  Safe(e)'
<1>1. ASSUME NEW p \in Paths, e \in bundle[p].content
      PROVE  Safe(e)'
  <2>1. bundle[p].version > 0
    BY <1>1 DEF EmptyDoc, UploadInvariant, TypeOK, ServerTypeOK, Doc
  <2>2. CASE bundle'[p].version = 0
    <3>1. SavedDocOf(p, bundle[p]) \in trash'
      BY <2>1, <2>2 DEF ServerRemembers, Present
    <3>2. e \in SavedDocOf(p, bundle[p]).content
      BY <1>1 DEF SavedDocOf
    <3> QED
      BY <3>1, <3>2 DEF Safe
  <2>3. CASE bundle'[p].version # 0 /\ ~AgentWrites
    <3>1. bundle'[p].version > 0
      BY <2>3 DEF UploadInvariant, TypeOK, ServerTypeOK, Doc
    <3>2. ~Overwrites(p)
      BY <2>3, OverwritesOnlyReused DEF VersionsName
    <3>3. \/ bundle[p].content \subseteq bundle'[p].content
          \/ [path |-> p, content |-> bundle[p].content] \in kept'
      BY <2>1, <3>1, <3>2 DEF Overwrites, Present
    <3> QED
      BY <1>1, <3>3 DEF Safe
  <2>4. CASE AgentWrites
    <3>1. bundle \in [Paths -> Doc] /\ TypeOK
      BY DEF UploadInvariant, TypeOK, ServerTypeOK
    <3>2. PICK q \in Paths, x \in Edits : \E known \in published, doc \in Doc :
              AgentWrote(q, known, x, doc)
      BY <2>4, <3>1, AgentsWrite
    <3>3. PICK known \in published, doc \in Doc : AgentWrote(q, known, x, doc)
      BY <3>2
    <3>4. e \in bundle'[p].content \/ e \in overwritten'
      BY <1>1, <3>1, <3>3 DEF AgentWrote, WriteNote
    <3> QED
      BY <3>4 DEF Safe
  <2> QED
    BY <2>2, <2>3, <2>4
<1>2. ASSUME NEW doc \in kept \cup trash, e \in doc.content
      PROVE  Safe(e)'
  BY <1>2 DEF ServerRemembers, Safe
<1>3. ASSUME NEW d \in Devices, NEW doc \in localTrash[d], e \in doc.content
      PROVE  Safe(e)'
  BY <1>3 DEF Safe
<1>4. CASE e \in discarded \cup overwritten
  BY <1>4 DEF Safe
<1> QED
  BY <1>1, <1>2, <1>3, <1>4 DEF Safe


LEMMA NamesEarlier ==
    ASSUME published \subseteq published', guessed \subseteq guessed', VersionsName'
    PROVE  VersionsName
  BY DEF VersionsName, Reused

\* The server and its agents: what they knew before stays safe, and a note that
\* is new contains only decisions taken.
LEMMA ServerStepSaves ==
    ASSUME UploadInvariant, UploadInvariant', [Next]_vars, EditsInvariant, ServerRemembers,
           UNCHANGED <<mirror, localTrash, net, discarded, guessed>>,
           overwritten \subseteq overwritten',
           used \subseteq used', authored \subseteq authored', authored' \subseteq used',
           authored' \cap used \subseteq authored,
           \A e \in authored' \ authored : \E p \in Paths : e \in bundle'[p].content,
           \A p \in Paths : bundle'[p].content \subseteq used',
           \A r \in inbox' : \E s \in inbox : r.todo \subseteq s.todo
    PROVE  EditsInvariant'
<1> USE DEF EditsInvariant
<1>1. authored \subseteq used
  BY DEF TakenOnly
<1>2. TakenOnly'
  <2>1. \A doc \in published' \cup trash' : doc.content \subseteq used'
    <3>1. ASSUME NEW doc \in published'
          PROVE  doc.content \subseteq used'
      <4>1. CASE doc \in published
        BY <4>1 DEF TakenOnly
      <4>2. CASE \E p \in Paths : doc.content = bundle'[p].content
        BY <4>2
      <4> QED
        BY <4>1, <4>2 DEF ServerRemembers
    <3>2. ASSUME NEW doc \in trash'
          PROVE  doc.content \subseteq used'
      <4>1. CASE doc \in trash
        BY <4>1 DEF TakenOnly
      <4>2. ASSUME NEW p \in Paths, Present(p), doc = SavedDocOf(p, bundle[p])
            PROVE  doc.content \subseteq used'
        BY <4>2 DEF UploadInvariant, CurrentIsPublished, TakenOnly
      <4> QED
        BY <4>1, <4>2 DEF ServerRemembers
    <3> QED
      BY <3>1, <3>2
  <2>2. \A d \in Devices, p \in Paths : mirror'[d][p].content \subseteq used'
    BY DEF TakenOnly
  <2>3. \A r \in inbox' : \A c \in r.todo : c.content \subseteq used'
    BY DEF TakenOnly
  <2> QED
    BY <2>1, <2>2, <2>3 DEF TakenOnly
<1>3. ResolutionIsOpen'
  BY DEF ResolutionIsOpen, Resolving, IsPending
<1>4. \A p \in Paths : EmptyDoc(bundle'[p])
  BY DEF ServerRemembers
<1>5. ASSUME VersionsName'
      PROVE  PublishedIsSafe' /\ DeletionsAreSafe' /\ \A e \in authored' : Survives(e)'
  <2>1. published \subseteq published'
    BY DEF ServerRemembers
  <2>2. VersionsName
    BY <1>5, <2>1, NamesEarlier
  <2>3. PublishedIsSafe /\ DeletionsAreSafe /\ EditsNeverLost
    BY <2>2
  <2>4. \A e : Safe(e) => Safe(e)'
    BY <1>5, SafeStays
  <2>5. \A e \in authored' \ authored : Safe(e)'
    BY DEF Safe
  <2>6. ASSUME NEW doc \in published', NEW e \in doc.content \cap authored'
        PROVE  Safe(e)'
    <3>1. CASE doc \in published
      BY <2>3, <2>4, <2>5, <2>6, <3>1 DEF PublishedIsSafe
    <3>2. CASE \E p \in Paths : doc.content = bundle'[p].content
      BY <2>6, <3>2 DEF Safe
    <3> QED
      BY <3>1, <3>2 DEF ServerRemembers
  <2>7. PublishedIsSafe'
    BY <2>6 DEF PublishedIsSafe
  <2>8. DeletionsAreSafe'
    <3>1. ASSUME NEW d \in Devices, NEW p \in Paths, Deleting(mirror[d][p]),
                 NEW e \in mirror[d][p].content \cap authored'
          PROVE  Safe(e)'
      BY <2>3, <2>4, <2>5, <3>1 DEF DeletionsAreSafe
    <3> QED
      BY <3>1 DEF DeletionsAreSafe, Deleting
  <2>9. ASSUME NEW e \in authored'
        PROVE  Survives(e)'
    <3>1. CASE e \notin authored
      BY <2>5, <3>1 DEF Survives
    <3>2. CASE e \in authored
      <4>1. CASE Safe(e)
        BY <2>4, <4>1 DEF Survives
      <4>2. CASE \E d \in Devices, p \in Paths :
                    IsPending(mirror[d][p]) /\ e \in mirror[d][p].content
        BY <4>2 DEF Survives, IsPending
      <4> QED
        BY <2>2, <3>2, <4>1, <4>2 DEF EditsNeverLost, Survives
    <3> QED
      BY <3>1, <3>2
  <2> QED
    BY <2>7, <2>8, <2>9
<1> QED
  BY <1>2, <1>3, <1>4, <1>5 DEF EditsNeverLost


LEMMA ServerKeepsEdits ==
    ASSUME UploadInvariant, UploadInvariant', [Next]_vars, EditsInvariant, ServerStep
    PROVE  EditsInvariant'
<1>1. /\ ServerTypeOK /\ bundle \in [Paths -> Doc] /\ inbox \subseteq Request
      /\ \A p \in Paths : EmptyDoc(bundle[p])
      /\ authored \subseteq used
      /\ trash \subseteq SavedDoc
  BY DEF UploadInvariant, TypeOK, ServerTypeOK, EditsInvariant, TakenOnly
<1>2. \A p \in Paths : bundle[p].content \subseteq used
  <2>1. ASSUME NEW p \in Paths
        PROVE  bundle[p].content \subseteq used
    <3>1. CASE Present(p)
      <4>1. SavedDocOf(p, bundle[p]) \in published
        BY <3>1 DEF UploadInvariant, CurrentIsPublished
      <4>2. SavedDocOf(p, bundle[p]).content = bundle[p].content
        BY DEF SavedDocOf
      <4> QED
        BY <4>1, <4>2 DEF EditsInvariant, TakenOnly
    <3>2. CASE ~Present(p)
      BY <1>1, <3>2, SMT DEF Present, EmptyDoc, Doc
    <3> QED
      BY <3>1, <3>2
  <2> QED
    BY <2>1
<1>3. ASSUME NEW p \in Paths, NEW doc, WriteNote(p, doc), doc.content \subseteq used'
      PROVE  used \subseteq used' => \A q \in Paths : bundle'[q].content \subseteq used'
  BY <1>1, <1>2, <1>3 DEF WriteNote
<1>4. ASSUME NEW r \in inbox, NEW c \in r.todo, ServeChange(r, c)
      PROVE  EditsInvariant'
  <2>1. PICK reply \in {Refused} \cup {Applied(v) : v \in 0..(bundle[c.path].version + 1)} :
            /\ PushChange(c, reply)
            /\ inbox' \subseteq (inbox \ {r}) \cup {Served(r, c, reply)}
    BY <1>4, ServeChangeEffect
  <2>2. r \in Request /\ c \in Change /\ c.path \in Paths
    BY <1>1 DEF Request, Change
  <2>3. ServerRemembers
    BY <1>1, <2>1, <2>2, PushRemembers
  <2>4. UNCHANGED <<mirror, localTrash, net, used, authored, discarded, overwritten, guessed>>
    BY <1>4, ServeChangeEffect DEF clientVars, histVars
  <2>5. \A s \in inbox' : \E t \in inbox : s.todo \subseteq t.todo
    <3>1. Served(r, c, reply).todo \subseteq r.todo
      BY <2>2 DEF Served, Request
    <3> QED
      BY <2>1, <3>1
  <2>6. c.content \subseteq used
    BY DEF EditsInvariant, TakenOnly
  <2>7. \A q \in Paths : bundle'[q].content \subseteq used'
    <3>1. \/ bundle' = bundle
          \/ bundle' = [bundle EXCEPT ![c.path] = NoDoc]
          \/ \E v : bundle' = [bundle EXCEPT ![c.path] = [content |-> c.content, version |-> v]]
      BY <2>1 DEF PushChange, DeleteRefused, DeleteApplied, RemoveNote, EditOfDeleted, NoteAdded,
                  Replayed, EditAccepted, EditConflicts, LegacyWins, LegacyLoses, WriteNote,
                  serverVars
    <3>2. NoDoc.content = {}
      BY DEF NoDoc
    <3>3. CASE bundle' = bundle
      BY <1>2, <2>4, <3>3
    <3>4. CASE bundle' = [bundle EXCEPT ![c.path] = NoDoc]
      BY <1>1, <1>2, <2>4, <3>2, <3>4
    <3>5. ASSUME NEW v, bundle' = [bundle EXCEPT ![c.path] = [content |-> c.content, version |-> v]]
          PROVE  \A q \in Paths : bundle'[q].content \subseteq used'
      BY <1>1, <1>2, <2>4, <2>6, <3>5
    <3> QED
      BY <3>1, <3>3, <3>4, <3>5
  <2> QED
    BY <1>1, <2>3, <2>4, <2>5, <2>7, ServerStepSaves
<1>5. ASSUME NEW p \in Paths, NEW e \in Edits, NEW known \in published, NEW doc \in Doc,
             AgentWrote(p, known, e, doc)
      PROVE  EditsInvariant'
  <2>1. /\ e \notin used /\ used' = used \cup {e} /\ overwritten \subseteq overwritten'
        /\ authored \subseteq authored' /\ authored' \subseteq authored \cup ({e} \cap doc.content)
        /\ WriteNote(p, doc) /\ doc.version > 0
        /\ doc.content \subseteq known.content \cup {e}
        /\ UNCHANGED <<kept, trash, mirror, localTrash, net, inbox, discarded, guessed>>
    BY <1>5 DEF AgentWrote, clientVars, netVars
  <2>2. ServerRemembers
    BY <1>1, <2>1, WriteRemembers
  <2>3. \A x \in authored' \ authored : x \in bundle'[p].content
    BY <1>1, <2>1 DEF WriteNote
  <2>4. known.content \subseteq used
    BY DEF EditsInvariant, TakenOnly
  <2>5. \A q \in Paths : bundle'[q].content \subseteq used'
    BY <1>3, <2>1, <2>4
  <2>6. authored' \subseteq used' /\ authored' \cap used \subseteq authored
    BY <1>1, <2>1
  <2> QED
    BY <2>1, <2>2, <2>3, <2>5, <2>6, ServerStepSaves
<1>6. ASSUME NEW p \in Paths, NEW e \in Edits, ServerDelete(p, e)
      PROVE  EditsInvariant'
  <2>1. /\ e \notin used /\ used' = used \cup {e} /\ RemoveNote(p)
        /\ bundle' = [bundle EXCEPT ![p] = NoDoc]
        /\ UNCHANGED <<mirror, localTrash, net, inbox, authored, discarded, overwritten, guessed>>
    BY <1>6 DEF ServerDelete, ServiceDelete, RemoveNote, Decide, clientVars, netVars
  <2>2. ServerRemembers
    BY <1>1, <2>1, RemoveRemembers
  <2>3. \A q \in Paths : bundle'[q].content \subseteq used'
    BY <1>1, <1>2, <2>1 DEF NoDoc
  <2> QED
    BY <1>1, <2>1, <2>2, <2>3, ServerStepSaves
<1>7. ASSUME NEW t \in trash, ServerRestore(t)
      PROVE  EditsInvariant'
  <2> DEFINE doc == [content |-> t.content, version |-> t.version + 1]
  <2>1. /\ WriteNote(t.path, doc) /\ trash' = trash \ {t} /\ kept' = kept
        /\ UNCHANGED <<mirror, localTrash, net, inbox, used, authored, discarded, overwritten,
                       guessed>>
    BY <1>7 DEF ServerRestore, RestoreFromTrash, clientVars, netVars, histVars
  <2>2. t.path \in Paths /\ doc.version > 0 /\ doc.content = t.content
    BY <1>1 DEF SavedDoc
  <2>3. t.content \subseteq used
    BY DEF EditsInvariant, TakenOnly
  <2> HIDE DEF doc
  <2>4. ServerRemembers
    BY <1>1, <2>1, <2>2, WriteRemembers
  <2>5. \A q \in Paths : bundle'[q].content \subseteq used'
    BY <1>3, <2>1, <2>2, <2>3
  <2> QED
    BY <1>1, <2>1, <2>4, <2>5, ServerStepSaves
<1>8. TypeOK
  BY DEF UploadInvariant
<1> QED
  BY <1>4, <1>5, <1>6, <1>7, <1>8, AgentsWrite DEF ServerStep


\* A device's step leaves the server alone: a row keeps what it has queued, or
\* what it had queued is safe.
LEMMA ClientStepSaves ==
    ASSUME EditsInvariant, UNCHANGED serverVars,
           used \subseteq used', authored \subseteq authored', authored' \subseteq used',
           authored' \cap used \subseteq authored,
           discarded \subseteq discarded', overwritten \subseteq overwritten',
           guessed \subseteq guessed',
           \A d \in Devices : localTrash[d] \subseteq localTrash'[d],
           ResolutionIsOpen',
           \A e \in authored' \ authored : Survives(e)',
           \A d \in Devices, p \in Paths : mirror'[d][p].content \subseteq used',
           \A r \in inbox' : \A c \in r.todo : c.content \subseteq used',
           VersionsName => \A d \in Devices, p \in Paths :
              /\ IsPending(mirror[d][p]) =>
                    \A e \in mirror[d][p].content \cap authored : Survives(e)'
              /\ Deleting(mirror'[d][p]) =>
                    \A e \in mirror'[d][p].content \cap authored' : Safe(e)'
    PROVE  EditsInvariant'
<1> USE DEF EditsInvariant, serverVars
<1>1. TakenOnly'
  BY DEF TakenOnly
<1>2. \A p \in Paths : EmptyDoc(bundle'[p])
  OBVIOUS
<1>3. \A e : Safe(e) => Safe(e)'
  BY DEF Safe
<1>4. ASSUME VersionsName'
      PROVE  PublishedIsSafe' /\ DeletionsAreSafe' /\ \A e \in authored' : Survives(e)'
  <2>1. VersionsName
    BY <1>4, NamesEarlier
  <2>2. PublishedIsSafe'
    <3>1. \A doc \in published : doc.content \cap authored' \subseteq authored
      BY DEF TakenOnly
    <3> QED
      BY <1>3, <2>1, <3>1 DEF PublishedIsSafe
  <2>3. DeletionsAreSafe'
    BY <2>1 DEF DeletionsAreSafe
  <2>4. ASSUME NEW e \in authored
        PROVE  Survives(e)'
    <3>1. CASE Safe(e)
      BY <1>3, <3>1 DEF Survives
    <3>2. CASE \E d \in Devices, p \in Paths :
                  IsPending(mirror[d][p]) /\ e \in mirror[d][p].content
      BY <2>1, <3>2
    <3> QED
      BY <2>1, <3>1, <3>2 DEF EditsNeverLost, Survives
  <2> QED
    BY <2>2, <2>3, <2>4
<1> QED
  BY <1>1, <1>2, <1>4 DEF EditsNeverLost

\* What one step does to one row: it stays queued and is built upon, or what it
\* had queued is what the set settled holds; a deletion takes nothing new along.
RowSettles(row, new, settled) ==
    /\ \/ IsPending(row) => IsPending(new) /\ row.content \subseteq new.content
       \/ row.content \subseteq settled
    /\ Deleting(new) => Deleting(row) /\ new.content = row.content

LEMMA DownloadSettles ==
    ASSUME NEW row \in Row, NEW doc \in Doc, NEW settled
    PROVE  /\ RowSettles(row, MergedRow(row, doc), settled)
           /\ RowSettles(row, PulledRow(row, doc), settled)
           /\ RowSettles(row, row, settled)
<1>1. RowSettles(row, row, settled)
  BY DEF RowSettles
<1>2. ~IsPending(row) => RowSettles(row, SyncedRow(doc), settled)
  BY DEF RowSettles, SyncedRow, NoRow, Deleting
<1> QED
  BY <1>1, <1>2 DEF MergedRow, PulledRow

LEMMA AnswerSettles ==
    ASSUME NEW row \in Row, NEW submitted \in Row, NEW reply \in Reply, NEW settled,
           Deleting(row) => row.content \subseteq settled,
           Acknowledged(row, submitted, reply) /\ SameRevision(row, submitted)
               /\ row.state # "pendingDelete" => row.content \subseteq settled
    PROVE  RowSettles(row, AnsweredRow(row, submitted, reply), settled)
<1>1. CASE AnsweredRow(row, submitted, reply) = row
  BY <1>1 DEF RowSettles
<1>2. CASE /\ ~Unanswered(row, submitted, reply)
           /\ AnsweredRow(row, submitted, reply) = ConflictRow(row)
  BY <1>2 DEF RowSettles, ConflictRow, Deleting, Row, IsPending, Pending
<1>3. CASE /\ Acknowledged(row, submitted, reply)
           /\ AnsweredRow(row, submitted, reply) = RebasedRow(row, reply.version)
  BY <1>3 DEF RowSettles, RebasedRow, Deleting, Row, IsPending, Pending
<1>4. CASE /\ Acknowledged(row, submitted, reply)
           /\ SameRevision(row, submitted)
           /\ AnsweredRow(row, submitted, reply) = ClearedRow(row, reply.version)
  BY <1>4 DEF RowSettles, ClearedRow, Deleting, NoRow, Row, Acknowledged, Unanswered
<1> QED
  BY <1>1, <1>2, <1>3, <1>4, AnswerCases


\* The decisions nobody needs to queue any more.
Settled == {e \in Edits : VersionsName /\ e \in authored => Safe(e)}

LEMMA DeviceStepSaves ==
    ASSUME TypeOK, TypeOK', EditsInvariant, UNCHANGED <<serverVars, localTrash, histVars>>,
           NEW d \in Devices, NEW op, MoveTo(d, op), op.at # "resolving",
           \A x \in Devices \ {d} : mirror'[x] = mirror[x],
           \A p \in Paths : RowSettles(mirror[d][p], mirror'[d][p], Settled),
           \A p \in Paths : mirror'[d][p].content \subseteq used,
           \A r \in inbox' : \A c \in r.todo : c.content \subseteq used
    PROVE  EditsInvariant'
<1> USE DEF EditsInvariant, histVars
<1>1. net' = [net EXCEPT ![d] = op] /\ net \in [Devices -> Operation]
  BY DEF MoveTo, TypeOK
<1>2. authored \subseteq used
  BY DEF TakenOnly
<1>3. ResolutionIsOpen'
  <2>1. ASSUME NEW x \in Devices, net'[x].at = "resolving"
        PROVE  x # d /\ net'[x] = net[x] /\ mirror'[x] = mirror[x]
    BY <1>1, <2>1
  <2> QED
    BY <2>1 DEF ResolutionIsOpen, Resolving, IsPending
<1>4. \A x \in Devices, p \in Paths : mirror'[x][p].content \subseteq used'
  BY DEF TakenOnly
<1>5. \A e : Safe(e) => Safe(e)'
  BY DEF Safe, serverVars
<1>6. ASSUME VersionsName, NEW x \in Devices, NEW p \in Paths
      PROVE  /\ IsPending(mirror[x][p]) =>
                    \A e \in mirror[x][p].content \cap authored : Survives(e)'
             /\ Deleting(mirror'[x][p]) =>
                    \A e \in mirror'[x][p].content \cap authored' : Safe(e)'
  <2>1. DeletionsAreSafe
    BY <1>6
  <2>2. CASE x # d
    BY <1>5, <2>1, <2>2 DEF DeletionsAreSafe, Deleting, Survives, IsPending
  <2>3. CASE x = d
    <3>1. RowSettles(mirror[d][p], mirror'[d][p], Settled)
      OBVIOUS
    <3>2. ASSUME IsPending(mirror[d][p]), NEW e \in mirror[d][p].content \cap authored
          PROVE  Survives(e)'
      <4>1. CASE IsPending(mirror'[d][p]) /\ mirror[d][p].content \subseteq mirror'[d][p].content
        <5>1. e \in mirror'[d][p].content /\ IsPending(mirror[d][p])'
          BY <3>2, <4>1 DEF IsPending
        <5> QED
          BY <5>1 DEF Survives
      <4>2. CASE mirror[d][p].content \subseteq Settled
        BY <1>5, <1>6, <3>2, <4>2 DEF Settled, Survives
      <4> QED
        BY <3>1, <3>2, <4>1, <4>2 DEF RowSettles
    <3>3. ASSUME Deleting(mirror'[d][p]), NEW e \in mirror'[d][p].content \cap authored'
          PROVE  Safe(e)'
      BY <1>5, <2>1, <3>1, <3>3 DEF RowSettles, DeletionsAreSafe
    <3> QED
      BY <2>3, <3>2, <3>3
  <2> QED
    BY <2>2, <2>3
<1> HIDE DEF EditsInvariant
<1> QED
  BY <1>2, <1>3, <1>4, <1>6, ClientStepSaves

LEMMA DeviceKeepsEdits ==
    ASSUME UploadInvariant, TypeOK', EditsInvariant, NEW d \in Devices, DeviceStep(d)
    PROVE  EditsInvariant'
<1>1. /\ TypeOK
      /\ mirror \in [Devices -> [Paths -> Row]] /\ net \in [Devices -> Operation]
      /\ inbox \subseteq Request /\ TakenOnly
  BY DEF UploadInvariant, TypeOK, ClientTypeOK, EditsInvariant
<1>2. \A p \in Paths : RowSettles(mirror[d][p], mirror[d][p], Settled)
  BY DEF RowSettles
<1>3. /\ \A p \in Paths : mirror[d][p].content \subseteq used
      /\ \A r \in inbox : \A c \in r.todo : c.content \subseteq used
  BY <1>1 DEF TakenOnly
<1>4. \A at \in {"idle", "ready", "pulling"} : [at |-> at].at # "resolving"
  OBVIOUS
<1>5. ASSUME NEW p \in Paths, NEW doc \in Doc, KnownDoc(p, doc, published)
      PROVE  SyncedRow(doc).content \subseteq used
  <2>1. CASE doc.version = 0
    BY <2>1 DEF SyncedRow, NoRow
  <2>2. CASE doc.version # 0
    <3>4. doc.version > 0
      BY <2>2 DEF Doc
    <3>1. SavedDocOf(p, doc) \in published
      BY <1>5, <3>4 DEF KnownDoc
    <3>2. SavedDocOf(p, doc).content = doc.content
      BY DEF SavedDocOf
    <3>3. doc.content \subseteq used
      BY <1>1, <3>1, <3>2 DEF TakenOnly
    <3> QED
      BY <2>2, <3>3 DEF SyncedRow
  <2> QED
    BY <2>1, <2>2
<1>6. SoundOperation(net[d], published)
  BY Regrouped DEF Sound
<1>7. CASE StartBootstrap(d)
  <2> DEFINE op == [at |-> "listed", docs |-> Listing]
  <2>1. op.at # "resolving" /\ MoveTo(d, op)
    BY <1>7 DEF StartBootstrap
  <2> HIDE DEF op
  <2> QED
    BY <1>1, <1>2, <1>3, <1>7, <2>1, DeviceStepSaves DEF StartBootstrap, clientVars
<1>8. CASE MergeCatalogue(d)
  <2>1. net[d].docs \in [Paths -> Doc]
    BY <1>1, <1>8 DEF MergeCatalogue, Operation
  <2>2. \A p \in Paths : KnownDoc(p, net[d].docs[p], published)
    BY <1>6, <1>8 DEF MergeCatalogue, SoundOperation
  <2>3. /\ \A p \in Paths : mirror'[d][p] = MergedRow(mirror[d][p], net[d].docs[p])
        /\ \A x \in Devices \ {d} : mirror'[x] = mirror[x]
    BY <1>1, <1>8 DEF MergeCatalogue, MergeListing
  <2>4. \A p \in Paths : MergedRow(mirror[d][p], net[d].docs[p]).content \subseteq used
    BY <1>3, <1>5, <2>1, <2>2 DEF MergedRow
  <2>5. \A p \in Paths : RowSettles(mirror[d][p], mirror'[d][p], Settled)
    BY <1>1, <2>1, <2>3, DownloadSettles
  <2> QED
    BY <1>1, <1>3, <1>4, <1>8, <2>3, <2>4, <2>5, DeviceStepSaves
       DEF MergeCatalogue, MergeListing
<1>9. CASE StartFlush(d)
  BY <1>1, <1>2, <1>3, <1>4, <1>9, DeviceStepSaves DEF StartFlush, clientVars
<1>10. CASE SubmitQueue(d)
  <2> DEFINE op == [at |-> "sent", rows |-> [p \in Paths |->
                       IF p \in Queue(d) THEN mirror[d][p] ELSE NoRow]]
  <2>1. op.at # "resolving" /\ MoveTo(d, op)
    BY <1>10 DEF SubmitQueue
  <2> HIDE DEF op
  <2>2. \A c \in RequestOf(d).todo : c.content \subseteq used
    BY <1>3 DEF RequestOf, Queue, ChangeOf
  <2>3. \A r \in inbox' : \A c \in r.todo : c.content \subseteq used
    BY <1>3, <1>10, <2>2 DEF SubmitQueue
  <2> QED
    BY <1>1, <1>2, <1>3, <1>10, <2>1, <2>3, DeviceStepSaves DEF SubmitQueue, clientVars
<1>11. CASE SubmitNothing(d)
  BY <1>1, <1>2, <1>3, <1>4, <1>11, DeviceStepSaves DEF SubmitNothing, clientVars
<1>12. ASSUME NEW r \in inbox, ApplyResponse(d, r)
       PROVE  EditsInvariant'
  <2>1. net[d].rows \in [Paths -> Row] /\ r.replies \in [Paths -> Reply]
    BY <1>1, <1>12 DEF ApplyResponse, Operation, Request
  <2>2. \A p \in Paths : KnownAnswer(p, net[d].rows[p], r.replies[p], published)
    BY <1>12, UploadTracked, Regrouped DEF Sound, ApplyResponse, Tracked, TrackedUpload
  <2>3. /\ \A p \in Paths :
              mirror'[d][p] = AnsweredRow(mirror[d][p], net[d].rows[p], r.replies[p])
        /\ \A x \in Devices \ {d} : mirror'[x] = mirror[x]
        /\ localTrash' = localTrash
    BY <1>1, <1>12 DEF ApplyResponse, ApplyAnswers
  <2>4. ASSUME NEW p \in Paths
        PROVE  RowSettles(mirror[d][p], mirror'[d][p], Settled)
    <3> DEFINE row == mirror[d][p]
               submitted == net[d].rows[p]
               reply == r.replies[p]
    <3>1. row \in Row /\ submitted \in Row /\ reply \in Reply /\ row.content \subseteq Edits
      BY <1>1, <2>1 DEF Row, Content
    <3>2. Deleting(row) => row.content \subseteq Settled
      BY <3>1 DEF EditsInvariant, DeletionsAreSafe, Settled
    <3>3. Acknowledged(row, submitted, reply) /\ SameRevision(row, submitted)
              /\ row.state # "pendingDelete" => row.content \subseteq Settled
      <4>1. SUFFICES ASSUME Acknowledged(row, submitted, reply), SameRevision(row, submitted),
                            row.state # "pendingDelete"
                     PROVE  row.content \subseteq Settled
        OBVIOUS
      <4>2. KnownAnswer(p, submitted, reply, published)
        BY <2>2
      <4>3. submitted.state # "pendingDelete" /\ reply.kind = "applied"
            /\ row.content = submitted.content
        BY <4>1 DEF Acknowledged, SameRevision
      <4>4. PICK doc \in published : doc.content = row.content
        BY <4>2, <4>3 DEF KnownAnswer, SavedDocOf
      <4> QED
        BY <3>1, <4>4 DEF EditsInvariant, PublishedIsSafe, Settled
    <3> HIDE DEF row, submitted, reply
    <3>4. RowSettles(row, AnsweredRow(row, submitted, reply), Settled)
      BY <3>1, <3>2, <3>3, AnswerSettles
    <3> QED
      BY <2>3, <3>4 DEF row, submitted, reply
  <2>5. \A p \in Paths : mirror'[d][p].content \subseteq used
    <3>1. ASSUME NEW p \in Paths
          PROVE  AnsweredRow(mirror[d][p], net[d].rows[p], r.replies[p]).content \subseteq used
      <4> DEFINE row == mirror[d][p]
                 reply == r.replies[p]
      <4>1. row \in Row /\ net[d].rows[p] \in Row /\ reply \in Reply /\ row.content \subseteq used
        BY <1>1, <1>3, <2>1
      <4> HIDE DEF row, reply
      <4>2. /\ ConflictRow(row).content = row.content
            /\ RebasedRow(row, reply.version).content = row.content
            /\ ClearedRow(row, reply.version).content \subseteq row.content
        BY <4>1 DEF ConflictRow, RebasedRow, ClearedRow, NoRow, Row
      <4>3. AnsweredRow(row, net[d].rows[p], reply).content \subseteq used
        BY <4>1, <4>2, AnswerCases
      <4> QED
        BY <4>3 DEF row, reply
    <3> QED
      BY <2>3, <3>1
  <2>6. \A s \in inbox' : s \in inbox
    BY <1>12 DEF ApplyResponse
  <2> QED
    BY <1>1, <1>3, <1>4, <1>12, <2>3, <2>4, <2>5, <2>6, DeviceStepSaves DEF ApplyResponse
<1>13. CASE PullChanges(d)
  <2> DEFINE op == [at |-> "pulled", delta |-> Delta(cursor[d])]
  <2>1. op.at # "resolving" /\ MoveTo(d, op)
    BY <1>13 DEF PullChanges
  <2> HIDE DEF op
  <2> QED
    BY <1>1, <1>2, <1>3, <1>13, <2>1, DeviceStepSaves DEF PullChanges, clientVars
<1>14. CASE ApplyPulled(d)
  <2>1. net[d].delta \in DeltaType
    BY <1>1, <1>14 DEF ApplyPulled, Operation
  <2>2. net[d].delta.docs \in [Paths -> Doc]
        /\ \A p \in Paths : KnownDoc(p, net[d].delta.docs[p], published)
    BY <1>6, <1>14, <2>1 DEF ApplyPulled, SoundOperation, DeltaType
  <2>3. /\ \A p \in Paths : mirror'[d][p] \in {mirror[d][p], PulledRow(mirror[d][p], net[d].delta.docs[p])}
        /\ \A x \in Devices \ {d} : mirror'[x] = mirror[x]
        /\ localTrash' = localTrash
    BY <1>1, <1>14 DEF ApplyPulled, ApplyDelta
  <2>4. \A p \in Paths : PulledRow(mirror[d][p], net[d].delta.docs[p]).content \subseteq used
    BY <1>3, <1>5, <2>2 DEF PulledRow
  <2>5. \A p \in Paths : RowSettles(mirror[d][p], mirror'[d][p], Settled)
    BY <1>1, <1>2, <2>2, <2>3, DownloadSettles
  <2>6. \A p \in Paths : mirror'[d][p].content \subseteq used
    BY <1>3, <2>3, <2>4
  <2> QED
    BY <1>1, <1>3, <1>4, <1>14, <2>3, <2>5, <2>6, DeviceStepSaves DEF ApplyPulled, Idle
<1>15. CASE BreakOff(d)
  <2>1. \A r \in inbox' : \E s \in inbox : r.todo = s.todo
    <3>1. \A s \in inbox : [s EXCEPT !.live = FALSE].todo = s.todo
      BY <1>1 DEF Request
    <3>2. \A r \in inbox' : r \in inbox \/ \E s \in inbox : r = [s EXCEPT !.live = FALSE]
      BY <1>15 DEF BreakOff
    <3> QED
      BY <1>15, <3>1, <3>2
  <2> QED
    BY <1>1, <1>2, <1>3, <1>4, <1>15, <2>1, DeviceStepSaves DEF BreakOff, Idle, clientVars
<1> QED
  BY <1>7, <1>8, <1>9, <1>10, <1>11, <1>12, <1>13, <1>14, <1>15 DEF DeviceStep


\* The owner saves or deletes one note.
LEMMA OwnerSaves ==
    ASSUME TypeOK, EditsInvariant, NEW d \in Devices, NEW p \in Paths, NEW e, NEW row,
           UNCHANGED <<serverVars, net, inbox, discarded, overwritten>>,
           e \notin used, used' = used \cup {e},
           \/ authored' = authored
           \/ authored' = authored \cup {e} /\ e \in row.content,
           guessed \subseteq guessed',
           \A x \in Devices : localTrash[x] \subseteq localTrash'[x],
           mirror' = [mirror EXCEPT ![d][p] = row],
           IsPending(row), row.content \subseteq used',
           IsPending(mirror[d][p]) => mirror[d][p].content \subseteq row.content,
           Deleting(row) => \A x \in row.content \cap authored' : Safe(x)'
    PROVE  EditsInvariant'
<1>1. /\ mirror \in [Devices -> [Paths -> Row]] /\ net \in [Devices -> Operation]
      /\ TakenOnly /\ ResolutionIsOpen
  BY DEF TypeOK, ClientTypeOK, EditsInvariant
<1>2. /\ \A x \in Devices, q \in Paths :
            mirror'[x][q] = IF x = d /\ q = p THEN row ELSE mirror[x][q]
      /\ mirror'[d][p] = row
  BY <1>1
<1>3. authored \subseteq authored' /\ authored' \subseteq used' /\ authored' \cap used \subseteq authored
  BY <1>1 DEF TakenOnly
<1>4. ResolutionIsOpen'
  <2>1. ASSUME NEW x \in Devices, net[x].at = "resolving"
        PROVE  /\ IsPending(mirror'[x][net[x].path])
               /\ net[x].edit \in used' \ authored'
               /\ EmptyDoc(net[x].doc)
    <3>1. net[x].path \in Paths
      BY <1>1, <2>1 DEF Operation
    <3>2. /\ IsPending(mirror[x][net[x].path]) /\ net[x].edit \in used \ authored
          /\ EmptyDoc(net[x].doc)
      BY <1>1, <2>1 DEF ResolutionIsOpen, Resolving
    <3> QED
      BY <1>2, <3>1, <3>2
  <2> QED
    BY <2>1 DEF ResolutionIsOpen, Resolving, IsPending
<1>5. \A x \in authored' \ authored : Survives(x)'
  <2>1. ASSUME e \in row.content
        PROVE  Survives(e)'
    <3>1. IsPending(mirror[d][p])' /\ e \in mirror'[d][p].content
      BY <1>2, <2>1 DEF IsPending
    <3> QED
      BY <3>1 DEF Survives
  <2> QED
    BY <2>1
<1>6. \A x \in Devices, q \in Paths : mirror'[x][q].content \subseteq used'
  BY <1>1, <1>2 DEF TakenOnly
<1>7. \A r \in inbox' : \A c \in r.todo : c.content \subseteq used'
  BY <1>1 DEF TakenOnly
<1>8. ASSUME VersionsName, NEW x \in Devices, NEW q \in Paths
      PROVE  /\ IsPending(mirror[x][q]) =>
                    \A y \in mirror[x][q].content \cap authored : Survives(y)'
             /\ Deleting(mirror'[x][q]) =>
                    \A y \in mirror'[x][q].content \cap authored' : Safe(y)'
  <2>1. ASSUME IsPending(mirror[x][q])
        PROVE  IsPending(mirror'[x][q]) /\ mirror[x][q].content \subseteq mirror'[x][q].content
    BY <1>2, <2>1
  <2>2. ASSUME IsPending(mirror[x][q]), NEW y \in mirror[x][q].content
        PROVE  Survives(y)'
    BY <2>1, <2>2 DEF Survives, IsPending
  <2>3. CASE x = d /\ q = p
    BY <1>2, <2>2, <2>3
  <2>4. CASE ~(x = d /\ q = p)
    <3>1. mirror'[x][q] = mirror[x][q]
      BY <1>2, <2>4
    <3>2. ASSUME Deleting(mirror[x][q]), NEW y \in mirror[x][q].content \cap authored'
          PROVE  Safe(y)'
      <4>1. y \in authored
        BY <1>1, <1>3, <3>2 DEF TakenOnly
      <4>2. Safe(y)
        BY <1>8, <3>2, <4>1 DEF EditsInvariant, DeletionsAreSafe
      <4> QED
        BY <4>2 DEF Safe, serverVars
    <3> QED
      BY <2>2, <3>1, <3>2
  <2> QED
    BY <2>3, <2>4
<1> QED
  BY <1>3, <1>4, <1>5, <1>6, <1>7, <1>8, ClientStepSaves

\* The owner resolves a conflict.
LEMMA ResolutionSaves ==
    ASSUME TypeOK, EditsInvariant, NEW d \in Devices,
           UNCHANGED <<serverVars, localTrash, inbox, used, authored, overwritten, guessed>>,
           discarded \subseteq discarded', MoveTo(d, Idle),
           \A x \in Devices \ {d} : mirror'[x] = mirror[x],
           \A p \in Paths : mirror'[d][p].content \subseteq used,
           VersionsName => \A p \in Paths :
              /\ IsPending(mirror[d][p]) => \A e \in mirror[d][p].content : Survives(e)'
              /\ Deleting(mirror'[d][p]) => \A e \in mirror'[d][p].content \cap authored : Safe(e)
    PROVE  EditsInvariant'
<1>1. /\ net \in [Devices -> Operation] /\ net' = [net EXCEPT ![d] = Idle]
      /\ TakenOnly /\ ResolutionIsOpen
  BY DEF TypeOK, EditsInvariant, MoveTo
<1>2. ResolutionIsOpen'
  <2>1. ASSUME NEW x \in Devices, net'[x].at = "resolving"
        PROVE  net'[x] = net[x] /\ mirror'[x] = mirror[x]
    BY <1>1, <2>1 DEF Idle
  <2> QED
    BY <1>1, <2>1 DEF ResolutionIsOpen, Resolving, IsPending
<1>3. /\ \A x \in Devices, p \in Paths : mirror'[x][p].content \subseteq used'
      /\ \A r \in inbox' : \A c \in r.todo : c.content \subseteq used'
      /\ authored' \subseteq used'
  BY <1>1 DEF TakenOnly
<1>4. \A e : Safe(e) => Safe(e)'
  BY DEF Safe, serverVars
<1>5. ASSUME VersionsName, NEW x \in Devices, NEW p \in Paths
      PROVE  /\ IsPending(mirror[x][p]) =>
                    \A e \in mirror[x][p].content \cap authored : Survives(e)'
             /\ Deleting(mirror'[x][p]) =>
                    \A e \in mirror'[x][p].content \cap authored' : Safe(e)'
  <2>1. CASE x = d
    BY <1>4, <1>5, <2>1
  <2>2. CASE x # d
    BY <1>4, <1>5, <2>2 DEF EditsInvariant, DeletionsAreSafe, Deleting, Survives, IsPending
  <2> QED
    BY <2>1, <2>2
<1> QED
  BY <1>2, <1>3, <1>5, ClientStepSaves


LEMMA OwnerKeepsEdits ==
    ASSUME UploadInvariant, TypeOK', EditsInvariant, NEW d \in Devices, OwnerStep(d)
    PROVE  EditsInvariant'
<1>1. /\ TypeOK
      /\ mirror \in [Devices -> [Paths -> Row]] /\ net \in [Devices -> Operation]
      /\ localTrash \in [Devices -> SUBSET [path : Paths, content : Content]]
      /\ TakenOnly /\ ResolutionIsOpen
  BY DEF UploadInvariant, TypeOK, ClientTypeOK, EditsInvariant
<1>2. \A p \in Paths : mirror[d][p] \in Row /\ mirror[d][p].content \subseteq used
  BY <1>1 DEF TakenOnly
<1>3. ASSUME NEW p \in Paths, NEW e \in Edits, CaptureNote(d, p, e)
      PROVE  EditsInvariant'
  <2> DEFINE row == SavedRow(mirror[d][p], {e}, 1)
  <2>1. mirror[d][p].state = "absent"
    BY <1>3 DEF CaptureNote, Fresh
  <2>2. /\ IsPending(row) /\ row.content = {e} /\ ~Deleting(row)
        /\ ~IsPending(mirror[d][p])
    BY <2>1 DEF SavedRow, Creating, IsPending, Pending, Deleting
  <2>3. /\ mirror' = [mirror EXCEPT ![d][p] = row]
        /\ UNCHANGED <<serverVars, net, inbox, discarded, overwritten, guessed, localTrash>>
        /\ e \notin used /\ used' = used \cup {e} /\ authored' = authored \cup {e}
    BY <1>3 DEF CaptureNote, SaveLocal, netVars, Author, Decide
  <2> HIDE DEF row
  <2> QED
    BY <1>1, <2>2, <2>3, OwnerSaves
<1>4. ASSUME NEW p \in Paths, NEW e \in Edits, EditNote(d, p, e)
      PROVE  EditsInvariant'
  <2> DEFINE row == SavedRow(mirror[d][p], mirror[d][p].content \cup {e},
                             NextVersion(mirror[d][p], mirror[d][p].version))
  <2>1. IsPending(row) /\ row.content = mirror[d][p].content \cup {e} /\ ~Deleting(row)
    BY DEF SavedRow, Creating, IsPending, Pending, Deleting
  <2>2. /\ mirror' = [mirror EXCEPT ![d][p] = row]
        /\ UNCHANGED <<serverVars, net, inbox, discarded, overwritten, localTrash>>
        /\ guessed \subseteq guessed'
        /\ e \notin used /\ used' = used \cup {e} /\ authored' = authored \cup {e}
    BY <1>4 DEF EditNote, SaveLocal, netVars, Author, Decide, Guess
  <2> HIDE DEF row
  <2> QED
    BY <1>1, <1>2, <2>1, <2>2, OwnerSaves
<1>5. ASSUME NEW p \in Paths, NEW e \in Edits, DeleteNote(d, p, e)
      PROVE  EditsInvariant'
  <2> DEFINE row == DeletedRow(mirror[d][p])
  <2>1. IsPending(row) /\ row.content = mirror[d][p].content
    BY <1>2 DEF DeletedRow, IsPending, Pending, Row
  <2>2. /\ mirror' = [mirror EXCEPT ![d][p] = row]
        /\ localTrash' = [localTrash EXCEPT ![d] =
              @ \cup {[path |-> p, content |-> mirror[d][p].content]}]
        /\ UNCHANGED <<serverVars, net, inbox, discarded, overwritten, authored>>
        /\ guessed \subseteq guessed'
        /\ e \notin used /\ used' = used \cup {e}
    BY <1>5 DEF DeleteNote, DeleteLocal, netVars, Decide, Guess
  <2> HIDE DEF row
  <2>3. /\ \A x \in Devices : localTrash[x] \subseteq localTrash'[x]
        /\ [path |-> p, content |-> mirror[d][p].content] \in localTrash'[d]
    BY <1>1, <2>2
  <2>4. \A x \in row.content : Safe(x)'
    BY <2>1, <2>3 DEF Safe
  <2> QED
    BY <1>1, <1>2, <2>1, <2>2, <2>3, <2>4, OwnerSaves
<1>6. ASSUME NEW p \in Paths, NEW choice \in Choices, NEW e \in Edits,
             StartResolve(d, p, choice, e)
      PROVE  EditsInvariant'
  <2> DEFINE op == [at |-> "resolving", path |-> p, choice |-> choice, edit |-> e,
                    doc |-> bundle[p]]
  <2>1. /\ net' = [net EXCEPT ![d] = op]
        /\ UNCHANGED <<serverVars, clientVars, inbox, authored, discarded, overwritten, guessed>>
        /\ e \notin used /\ used' = used \cup {e}
        /\ mirror[d][p].state = "conflict"
    BY <1>6 DEF StartResolve, MoveTo, Decide
  <2>2. /\ op.path = p /\ op.edit = e /\ op.doc = bundle[p]
        /\ EmptyDoc(bundle[p]) /\ IsPending(mirror[d][p])
    BY <2>1 DEF EditsInvariant, IsPending, Pending
  <2> HIDE DEF op
  <2>3. ResolutionIsOpen'
    <3>1. ASSUME NEW x \in Devices, net'[x].at = "resolving"
          PROVE  /\ IsPending(mirror[x][net'[x].path])
                 /\ net'[x].edit \in used' \ authored
                 /\ EmptyDoc(net'[x].doc)
      <4>1. CASE x = d
        BY <1>1, <2>1, <2>2, <4>1 DEF TakenOnly
      <4>2. CASE x # d
        BY <1>1, <2>1, <3>1, <4>2 DEF ResolutionIsOpen, Resolving
      <4> QED
        BY <4>1, <4>2
    <3> QED
      BY <2>1, <3>1 DEF ResolutionIsOpen, Resolving, IsPending, clientVars
  <2>4. /\ mirror' = mirror /\ localTrash' = localTrash
        /\ authored' \subseteq used'
        /\ \A x \in Devices, q \in Paths : mirror'[x][q].content \subseteq used'
        /\ \A r \in inbox' : \A c \in r.todo : c.content \subseteq used'
    BY <1>1, <2>1 DEF TakenOnly, clientVars
  <2>5. ASSUME VersionsName, NEW x \in Devices, NEW q \in Paths
        PROVE  /\ IsPending(mirror[x][q]) =>
                      \A y \in mirror[x][q].content \cap authored : Survives(y)'
               /\ Deleting(mirror'[x][q]) =>
                      \A y \in mirror'[x][q].content \cap authored' : Safe(y)'
    <3>1. \A y : Safe(y) => Safe(y)'
      BY <2>1, <2>4 DEF Safe, serverVars
    <3>2. IsPending(mirror[x][q]) => \A y \in mirror[x][q].content : Survives(y)'
      BY <2>4 DEF Survives, IsPending
    <3>3. Deleting(mirror[x][q]) => \A y \in mirror[x][q].content \cap authored : Safe(y)
      BY <2>5 DEF EditsInvariant, DeletionsAreSafe
    <3> QED
      BY <2>1, <2>4, <3>1, <3>2, <3>3
  <2> QED
    BY <2>1, <2>3, <2>4, <2>5, ClientStepSaves
<1>7. CASE KeepMine(d) \/ KeepServer(d) \/ \E p \in Paths : KeepBoth(d, p)
  <2> DEFINE q == net[d].path
             doc == net[d].doc
             row == mirror[d][q]
  <2>1. net[d].at = "resolving" /\ net[d] \in Operation
    BY <1>1, <1>7 DEF KeepMine, KeepServer, KeepBoth
  <2>2. q \in Paths /\ doc \in Doc
    BY <2>1 DEF Operation
  <2>3. KnownDoc(q, doc, published)
    BY <2>1, Regrouped DEF Sound, SoundOperation
  <2>4. /\ row \in Row /\ IsPending(row) /\ row.content \subseteq used
        /\ net[d].edit \in used \ authored /\ EmptyDoc(doc)
    BY <1>1, <1>2, <2>1, <2>2 DEF ResolutionIsOpen, Resolving
  <2>5. \/ doc.content = {}
        \/ \E known \in published : known.content = doc.content
    BY <2>2, <2>3, <2>4, SMT DEF KnownDoc, EmptyDoc, SavedDocOf, Doc
  <2>6. doc.content \subseteq used
    BY <1>1, <2>5 DEF TakenOnly
  <2>7. VersionsName => \A e \in doc.content \cap authored : Safe(e)
    BY <2>5 DEF EditsInvariant, PublishedIsSafe
  <2>8. VersionsName /\ Deleting(row) => \A e \in row.content \cap authored : Safe(e)
    BY <2>2 DEF EditsInvariant, DeletionsAreSafe
  <2>9. /\ UNCHANGED <<serverVars, localTrash, inbox, used, authored, overwritten, guessed>>
        /\ discarded \subseteq discarded' /\ MoveTo(d, Idle)
    BY <1>7 DEF KeepMine, KeepServer, KeepBoth, histVars
  <2>10. SyncedRow(doc).content \subseteq used /\ ~Deleting(SyncedRow(doc))
    BY <2>6 DEF SyncedRow, NoRow, Deleting
  <2>11. ASSUME VersionsName, NEW p \in Paths, Deleting(mirror[d][p]),
                NEW e \in mirror[d][p].content \cap authored
         PROVE  Safe(e)
    BY <2>11 DEF EditsInvariant, DeletionsAreSafe
  <2>12. CASE KeepMine(d)
    <3> DEFINE new == MineRow(row, doc, net[d].edit)
    <3>1. mirror' = [mirror EXCEPT ![d][q] = new]
      BY <2>12 DEF KeepMine
    <3>2. /\ new.content = row.content \cup doc.content \cup {net[d].edit}
          /\ IsPending(new)
          /\ Deleting(new) => Deleting(row)
      BY <2>4 DEF MineRow, IsPending, Pending, Deleting
    <3> HIDE DEF new, row, doc
    <3>3. \A p \in Paths : mirror'[d][p] = IF p = q THEN new ELSE mirror[d][p]
      BY <1>1, <2>2, <3>1
    <3>4. new.content \subseteq used
      BY <2>4, <2>6, <3>2
    <3>5. VersionsName /\ Deleting(new) => \A e \in new.content \cap authored : Safe(e)
      BY <2>4, <2>7, <2>8, <3>2
    <3>6. \A p \in Paths : IsPending(mirror[d][p]) =>
              IsPending(mirror'[d][p]) /\ mirror[d][p].content \subseteq mirror'[d][p].content
      BY <3>2, <3>3 DEF row
    <3>7. \A p \in Paths : IsPending(mirror[d][p]) =>
              \A e \in mirror[d][p].content : Survives(e)'
      BY <3>6 DEF Survives, IsPending
    <3>8. \A x \in Devices \ {d} : mirror'[x] = mirror[x]
      BY <1>1, <3>1
    <3>9. \A p \in Paths : mirror'[d][p].content \subseteq used
      BY <1>2, <3>3, <3>4
    <3>10. VersionsName => \A p \in Paths : Deleting(mirror'[d][p]) =>
               \A e \in mirror'[d][p].content \cap authored : Safe(e)
      BY <2>11, <3>3, <3>5
    <3> QED
      BY <1>1, <2>9, <3>7, <3>8, <3>9, <3>10, ResolutionSaves
  <2>13. CASE KeepServer(d)
    <3>1. /\ mirror' = [mirror EXCEPT ![d][q] = SyncedRow(doc)]
          /\ discarded' = discarded \cup row.content
      BY <2>13 DEF KeepServer
    <3> HIDE DEF row, doc
    <3>3. \A p \in Paths : mirror'[d][p] = IF p = q THEN SyncedRow(doc) ELSE mirror[d][p]
      BY <1>1, <2>2, <3>1
    <3>7. \A p \in Paths : IsPending(mirror[d][p]) =>
              \A e \in mirror[d][p].content : Survives(e)'
      <4>1. ASSUME NEW p \in Paths, IsPending(mirror[d][p]), NEW e \in mirror[d][p].content
            PROVE  Survives(e)'
        <5>1. CASE p = q
          BY <3>1, <4>1, <5>1 DEF Survives, Safe, row
        <5>2. CASE p # q
          <6>1. mirror'[d][p] = mirror[d][p]
            BY <3>3, <5>2
          <6> QED
            BY <4>1, <6>1 DEF Survives, IsPending
        <5> QED
          BY <5>1, <5>2
      <4> QED
        BY <4>1
    <3>8. \A x \in Devices \ {d} : mirror'[x] = mirror[x]
      BY <1>1, <3>1
    <3>9. \A p \in Paths : mirror'[d][p].content \subseteq used
      BY <1>2, <2>10, <3>3
    <3>10. VersionsName => \A p \in Paths : Deleting(mirror'[d][p]) =>
               \A e \in mirror'[d][p].content \cap authored : Safe(e)
      BY <2>10, <2>11, <3>3
    <3> QED
      BY <1>1, <2>9, <3>7, <3>8, <3>9, <3>10, ResolutionSaves
  <2>14. ASSUME NEW copy \in Paths, KeepBoth(d, copy)
         PROVE  EditsInvariant'
    <3> DEFINE new == RecoveredRow(row)
    <3>1. /\ mirror' = [mirror EXCEPT ![d][copy] = new, ![d][q] = SyncedRow(doc)]
          /\ mirror[d][copy].state = "absent"
      BY <2>14 DEF KeepBoth, Fresh
    <3>2. new.content = row.content /\ IsPending(new) /\ ~Deleting(new)
      BY DEF RecoveredRow, IsPending, Pending, Deleting
    <3>3. copy # q /\ ~IsPending(mirror[d][copy])
      BY <2>4, <3>1 DEF IsPending, Pending
    <3> HIDE DEF new, row, doc
    <3>4. \A p \in Paths : mirror'[d][p] = IF p = q THEN SyncedRow(doc)
                                           ELSE IF p = copy THEN new ELSE mirror[d][p]
      BY <1>1, <2>2, <3>1
    <3>7. \A p \in Paths : IsPending(mirror[d][p]) =>
              \A e \in mirror[d][p].content : Survives(e)'
      <4>1. ASSUME NEW p \in Paths, IsPending(mirror[d][p]), NEW e \in mirror[d][p].content
            PROVE  Survives(e)'
        <5>1. CASE p = q
          <6>1. mirror'[d][copy] = new /\ e \in new.content
            BY <3>2, <3>3, <3>4, <4>1, <5>1 DEF row
          <6> QED
            BY <3>2, <6>1 DEF Survives, IsPending
        <5>2. CASE p # q
          <6>1. mirror'[d][p] = mirror[d][p]
            BY <3>3, <3>4, <4>1, <5>2
          <6> QED
            BY <4>1, <6>1 DEF Survives, IsPending
        <5> QED
          BY <5>1, <5>2
      <4> QED
        BY <4>1
    <3>8. \A x \in Devices \ {d} : mirror'[x] = mirror[x]
      BY <1>1, <3>1
    <3>9. \A p \in Paths : mirror'[d][p].content \subseteq used
      BY <1>2, <2>4, <2>10, <3>2, <3>4
    <3>10. VersionsName => \A p \in Paths : Deleting(mirror'[d][p]) =>
               \A e \in mirror'[d][p].content \cap authored : Safe(e)
      BY <2>10, <2>11, <3>2, <3>4
    <3> QED
      BY <1>1, <2>9, <3>7, <3>8, <3>9, <3>10, ResolutionSaves
  <2> QED
    BY <1>7, <2>12, <2>13, <2>14
<1> QED
  BY <1>3, <1>4, <1>5, <1>6, <1>7 DEF OwnerStep

LEMMA InitKeepsEdits == Init => EditsInvariant
<1> SUFFICES ASSUME Init PROVE EditsInvariant
  OBVIOUS
<1>1. ServerInit(InitialPaths)
  BY DEF Init
<1>2. \A p \in Paths : bundle[p].content = {}
  BY <1>1 DEF ServerInit, NoDoc
<1>3. PICK editor \in [LegacyPaths -> Devices], edit \in [LegacyPaths -> Edits] :
          /\ mirror = [d \in Devices |-> [p \in Paths |->
                IF p \in LegacyPaths /\ editor[p] = d THEN LegacyRow(edit[p])
                ELSE SyncedRow(bundle[p])]]
          /\ used = {edit[p] : p \in LegacyPaths}
  BY DEF Init
<1>4. \A p \in Paths : SyncedRow(bundle[p]).content = {} /\ ~Deleting(SyncedRow(bundle[p]))
  BY <1>2 DEF SyncedRow, NoRow, Deleting
<1>5. \A e : /\ LegacyRow(e).content = {e} /\ ~Deleting(LegacyRow(e))
             /\ IsPending(LegacyRow(e))
  BY DEF LegacyRow, Deleting, IsPending, Pending
<1>6. /\ \A doc \in published : doc.content = {}
      /\ trash = {} /\ inbox = {} /\ authored = used
      /\ \A d \in Devices : net[d] = Idle
  BY <1>1 DEF ServerInit, SavedDocOf, Init
<1>7. TakenOnly
  <2>1. ASSUME NEW d \in Devices, NEW p \in Paths
        PROVE  mirror[d][p].content \subseteq used
    <3>1. mirror[d][p] = IF p \in LegacyPaths /\ editor[p] = d THEN LegacyRow(edit[p])
                         ELSE SyncedRow(bundle[p])
      BY <1>3
    <3>2. CASE p \in LegacyPaths /\ editor[p] = d
      <4>1. edit[p] \in used /\ mirror[d][p] = LegacyRow(edit[p])
        BY <1>3, <3>1, <3>2
      <4>2. mirror[d][p].content = {edit[p]}
        BY <1>5, <4>1
      <4> QED
        BY <4>1, <4>2
    <3>3. CASE ~(p \in LegacyPaths /\ editor[p] = d)
      BY <1>4, <3>1, <3>3
    <3> QED
      BY <3>2, <3>3
  <2> QED
    BY <1>6, <2>1 DEF TakenOnly
<1>8. ResolutionIsOpen
  BY <1>6 DEF ResolutionIsOpen, Resolving, Idle
<1>9. PublishedIsSafe /\ DeletionsAreSafe
  BY <1>3, <1>4, <1>5, <1>6 DEF PublishedIsSafe, DeletionsAreSafe
<1>10. \A e \in authored : Survives(e)
  <2>1. ASSUME NEW p \in LegacyPaths
        PROVE  Survives(edit[p])
    <3>1. p \in Paths /\ editor[p] \in Devices
      BY InitialPathsAssumption, LegacyPathsAssumption
    <3>2. mirror[editor[p]][p] = LegacyRow(edit[p])
      BY <1>3, <3>1
    <3> QED
      BY <1>5, <3>1, <3>2 DEF Survives
  <2> QED
    BY <1>3, <1>6, <2>1
<1> QED
  BY <1>2, <1>7, <1>8, <1>9, <1>10 DEF EditsInvariant, EmptyDoc, EditsNeverLost

LEMMA StepKeepsEdits ==
    UploadInvariant /\ UploadInvariant' /\ EditsInvariant /\ [Next]_vars => EditsInvariant'
<1> SUFFICES ASSUME UploadInvariant, UploadInvariant', EditsInvariant, [Next]_vars
             PROVE  EditsInvariant'
  OBVIOUS
<1>1. TypeOK'
  BY DEF UploadInvariant
<1>2. CASE UNCHANGED vars
  BY <1>2 DEF vars, serverVars, clientVars, netVars, histVars, EditsInvariant, EmptyDoc,
              TakenOnly, ResolutionIsOpen, Resolving, IsPending, VersionsName, Reused,
              PublishedIsSafe, DeletionsAreSafe, Deleting, EditsNeverLost, Survives, Safe
<1>3. CASE Next
  BY <1>1, <1>3, DeviceKeepsEdits, OwnerKeepsEdits, ServerKeepsEdits DEF Next
<1> QED
  BY <1>2, <1>3

\* What was ever published stays safe, a deletion takes nothing unsafe with it
\* and a resolution finds its row still queued: the strengthening the next
\* theorem rests on.
THEOREM PublishedStaysSafe == Spec => []EditsInvariant
  BY InitKeepsEdits, StepKeepsEdits, UploadsAreSound, PTL DEF Spec

\* Every edit the owner ever saved is queued on a device, in a note, in a
\* recovery copy or in a trash, or was given up for the server's note: through
\* late and lost responses, conflicts, deletions on either side and restores,
\* as long as no path was written anew and no base was guessed.
THEOREM NoEditIsLost == Spec => []EditsNeverLost
<1>1. EditsInvariant => EditsNeverLost
  BY DEF EditsInvariant
<1> QED
  BY <1>1, PublishedStaysSafe, PTL

-----------------------------------------------------------------------------
(* The journal and the cursors miss nothing.                               *)

\* A server step that changes a note journals it beyond every cursor.
Journalled ==
    /\ seq <= seq'
    /\ \A p \in Paths :
          \/ bundle'[p] = bundle[p] /\ journal'[p] = journal[p]
          \/ /\ seq < journal'[p].seq /\ journal'[p].seq <= seq'
             /\ journal'[p].deleted <=> ~(bundle'[p].version > 0)

LEMMA BehindChanges ==
    ASSUME TypeOK, TypeOK', JournalCounts, Journalled, cursor' = cursor,
           NEW d \in Devices, NEW p \in Paths, CaughtUp(d, p)'
    PROVE  CaughtUp(d, p) /\ bundle'[p] = bundle[p] /\ journal'[p] = journal[p]
<1>1. /\ cursor[d] \in Nat /\ seq \in Nat /\ cursor[d] <= seq
      /\ journal'[p].seq <= cursor[d]
  BY DEF TypeOK, ClientTypeOK, ServerTypeOK, JournalCounts, CaughtUp
<1>2. CASE bundle'[p] = bundle[p] /\ journal'[p] = journal[p]
  BY <1>1, <1>2 DEF CaughtUp
<1>3. CASE seq < journal'[p].seq /\ journal'[p].seq <= seq'
  <2>1. journal'[p].seq \in Nat
    BY DEF TypeOK, ServerTypeOK, JournalEntry
  <2> QED
    BY <1>1, <1>3, <2>1
<1> QED
  BY <1>2, <1>3 DEF Journalled

LEMMA NotifyJournals ==
    ASSUME ServerTypeOK, NEW p \in Paths, NEW doc, NEW gone \in BOOLEAN,
           bundle' = [bundle EXCEPT ![p] = doc], Notify(p, gone),
           gone <=> ~(doc.version > 0)
    PROVE  Journalled /\ seq < journal'[p].seq
<1>1. /\ bundle \in [Paths -> Doc] /\ journal \in [Paths -> JournalEntry] /\ seq \in Nat
      /\ seq' = seq + 1 /\ journal' = [journal EXCEPT ![p] = [seq |-> seq + 1, deleted |-> gone]]
  BY DEF ServerTypeOK, Notify
<1>2. \A q \in Paths \ {p} : bundle'[q] = bundle[q] /\ journal'[q] = journal[q]
  BY <1>1
<1>3. bundle'[p] = doc /\ journal'[p] = [seq |-> seq + 1, deleted |-> gone]
  BY <1>1
<1> QED
  BY <1>1, <1>2, <1>3 DEF Journalled

LEMMA RemovalJournals ==
    ASSUME ServerTypeOK, NEW p \in Paths, RemoveNote(p)
    PROVE  Journalled /\ ~(bundle'[p].version > 0)
<1>1. CASE ~Present(p) /\ UNCHANGED serverVars
  BY <1>1 DEF ServerTypeOK, serverVars, Journalled, Present
<1>2. CASE bundle' = [bundle EXCEPT ![p] = NoDoc] /\ Notify(p, TRUE)
  <2>1. ~(NoDoc.version > 0)
    BY DEF NoDoc
  <2> QED
    BY <1>2, <2>1, NotifyJournals DEF ServerTypeOK
<1> QED
  BY <1>1, <1>2 DEF RemoveNote

LEMMA WritingJournals ==
    ASSUME ServerTypeOK, NEW p \in Paths, NEW doc, WriteNote(p, doc), doc.version > 0
    PROVE  Journalled /\ seq < journal'[p].seq
  BY NotifyJournals DEF WriteNote

LEMMA PushJournals ==
    ASSUME ServerTypeOK, NEW c \in Change, NEW reply, PushChange(c, reply)
    PROVE  /\ Journalled
           /\ reply.kind = "applied" =>
                 \/ seq < journal'[c.path].seq
                 \/ IF c.deleted THEN ~(bundle'[c.path].version > 0)
                    ELSE /\ bundle'[c.path].version > 0
                         /\ bundle'[c.path] = [content |-> c.content, version |-> reply.version]
<1>1. /\ bundle \in [Paths -> Doc] /\ bundle[c.path] \in Doc /\ c.path \in Paths
      /\ seq \in Nat /\ journal \in [Paths -> JournalEntry]
  BY DEF ServerTypeOK, Change
<1>2. CASE UNCHANGED <<bundle, journal>> /\ seq <= seq' /\ reply = Refused
  BY <1>2 DEF Journalled, Refused
<1>3. CASE DeleteApplied(c, reply)
  BY <1>1, <1>3, RemovalJournals DEF DeleteApplied
<1>4. CASE NoteAdded(c, reply)
  <2>1. [content |-> c.content, version |-> 1].version > 0
    OBVIOUS
  <2> QED
    BY <1>1, <1>4, <2>1, WritingJournals DEF NoteAdded
<1>5. CASE Replayed(c, reply)
  BY <1>1, <1>5 DEF Replayed, Present, Applied, Journalled, serverVars, Doc
<1>6. CASE EditAccepted(c, reply)
  <2> DEFINE doc == [content |-> c.content, version |-> bundle[c.path].version + 1]
  <2>1. doc.version > 0
    BY <1>1 DEF Doc
  <2>2. WriteNote(c.path, doc)
    BY <1>6 DEF EditAccepted
  <2> HIDE DEF doc
  <2> QED
    BY <1>1, <2>1, <2>2, WritingJournals
<1>7. CASE LegacyWins(c, reply)
  <2> DEFINE won == IF c.version > bundle[c.path].version THEN c.version
                    ELSE bundle[c.path].version + 1
             doc == [content |-> c.content, version |-> won]
  <2>1. /\ bundle' = [bundle EXCEPT ![c.path] = doc]
        /\ journal' = [journal EXCEPT ![c.path] = [seq |-> seq + 1, deleted |-> FALSE]]
        /\ seq' = seq + 2
        /\ reply = Refused
    BY <1>7 DEF LegacyWins
  <2>2. doc.version > 0
    BY <1>1 DEF Doc, Change
  <2> HIDE DEF doc
  <2>3. \A q \in Paths \ {c.path} : bundle'[q] = bundle[q] /\ journal'[q] = journal[q]
    BY <1>1, <2>1
  <2>4. bundle'[c.path] = doc /\ journal'[c.path] = [seq |-> seq + 1, deleted |-> FALSE]
    BY <1>1, <2>1
  <2> QED
    BY <1>1, <2>1, <2>2, <2>3, <2>4 DEF Journalled, Refused
<1> QED
  BY <1>1, <1>2, <1>3, <1>4, <1>5, <1>6, <1>7
     DEF PushChange, DeleteRefused, EditOfDeleted, EditConflicts, LegacyLoses, serverVars

\* The server's own state moves on: a device is behind on what changed.
LEMMA ServerMovesOn ==
    ASSUME TypeOK, TypeOK', PullInvariant, Journalled, UNCHANGED <<mirror, cursor, net>>,
           AnswerIsCurrent'
    PROVE  PullInvariant'
<1> USE DEF PullInvariant
<1>1. /\ \A d \in Devices : cursor[d] \in Nat
      /\ seq \in Nat /\ seq' \in Nat /\ seq <= seq'
      /\ \A p \in Paths : journal[p].seq \in Nat /\ journal'[p].seq \in Nat
  BY DEF TypeOK, ClientTypeOK, ServerTypeOK, JournalEntry, Journalled
<1>2. \A d \in Devices, p \in Paths : CaughtUp(d, p)' =>
          CaughtUp(d, p) /\ bundle'[p] = bundle[p] /\ journal'[p] = journal[p]
  BY BehindChanges
<1>3. JournalCounts'
  <2>1. ASSUME NEW p \in Paths
        PROVE  /\ journal'[p].seq <= seq'
               /\ journal'[p].seq > 0 => (journal'[p].deleted <=> ~(bundle'[p].version > 0))
    BY <1>1 DEF Journalled, JournalCounts, Present
  <2>2. \A d \in Devices : cursor'[d] <= seq'
    BY <1>1 DEF JournalCounts
  <2> QED
    BY <2>1, <2>2 DEF JournalCounts, Present
<1>4. FetchedIsCurrent'
  <2>1. ASSUME NEW d \in Devices, net[d].at = "pulled"
        PROVE  DeltaIsComplete(d, net[d].delta)'
    <3> DEFINE delta == net[d].delta
    <3>1. DeltaIsComplete(d, delta)
      BY <2>1 DEF FetchedIsCurrent
    <3>2. delta.cursor \in Nat
      BY <2>1 DEF TypeOK, Operation, DeltaType
    <3>3. ASSUME NEW p \in Paths, journal'[p].seq <= delta.cursor
          PROVE  bundle'[p] = bundle[p] /\ journal'[p] = journal[p]
      BY <1>1, <3>1, <3>2, <3>3 DEF DeltaIsComplete, Journalled
    <3>4. cursor'[d] <= delta.cursor /\ delta.cursor <= seq'
      BY <1>1, <3>1, <3>2 DEF DeltaIsComplete
    <3>5. ASSUME NEW p \in Paths, journal'[p].seq <= delta.cursor
          PROVE  IF p \in delta.touched THEN SyncedRow(delta.docs[p]) = SyncedRow(bundle'[p])
                 ELSE journal'[p].seq <= cursor'[d]
      BY <3>1, <3>3, <3>5 DEF DeltaIsComplete, Shows, CaughtUp
    <3> QED
      BY <3>4, <3>5 DEF DeltaIsComplete, Shows, CaughtUp
  <2>2. ASSUME NEW d \in Devices, net[d].at = "listed", NEW p \in Paths, CaughtUp(d, p)'
        PROVE  Shows(net[d].docs[p], p)'
    BY <1>2, <2>2 DEF FetchedIsCurrent, Shows
  <2>3. ASSUME NEW d \in Devices, net[d].at = "resolving", CaughtUp(d, net[d].path)'
        PROVE  Shows(net[d].doc, net[d].path)'
    <3>1. net[d].path \in Paths
      BY <2>3 DEF TypeOK, Operation
    <3> QED
      BY <1>2, <2>3, <3>1 DEF FetchedIsCurrent, Shows, CaughtUp
  <2> QED
    BY <2>1, <2>2, <2>3 DEF FetchedIsCurrent, CaughtUp, Shows
<1>5. RowsInPlace'
  BY DEF RowsInPlace, Uploadable, IsPending
<1>6. CaughtUpMirrors'
  <2>1. ASSUME NEW d \in Devices, NEW p \in Paths, journal'[p].seq <= cursor'[d],
               ~IsPending(mirror[d][p])
        PROVE  mirror[d][p] = SyncedRow(bundle'[p])
    BY <1>2, <2>1 DEF CaughtUpMirrors, CaughtUp
  <2> QED
    BY <2>1 DEF CaughtUpMirrors, IsPending
<1> QED
  BY <1>3, <1>4, <1>5, <1>6


LEMMA ServerKeepsPulls ==
    ASSUME UploadInvariant, TypeOK', PullInvariant, ServerStep
    PROVE  PullInvariant'
<1>1. TypeOK /\ ServerTypeOK /\ inbox \subseteq Request /\ AnswerIsCurrent /\ JournalCounts
  BY DEF UploadInvariant, TypeOK, PullInvariant
<1>2. ASSUME NEW r \in inbox, NEW c \in r.todo, ServeChange(r, c)
      PROVE  PullInvariant'
  <2>1. PICK reply \in {Refused} \cup {Applied(v) : v \in 0..(bundle[c.path].version + 1)} :
            /\ PushChange(c, reply)
            /\ inbox' \subseteq (inbox \ {r}) \cup {Served(r, c, reply)}
    BY <1>2, ServeChangeEffect
  <2>2. r \in Request /\ c \in Change /\ c.path \in Paths /\ r.dev \in Devices
    BY <1>1 DEF Request, Change
  <2>3. UNCHANGED <<mirror, cursor, net>>
    BY <1>2, ServeChangeEffect DEF clientVars
  <2>4. Journalled
    BY <1>1, <2>1, <2>2, PushJournals
  <2>5. \A d \in Devices, p \in Paths : CaughtUp(d, p)' => CaughtUp(d, p) /\ bundle'[p] = bundle[p]
    BY <1>1, <2>3, <2>4, BehindChanges
  <2>6. ASSUME NEW s \in inbox, NEW p \in Paths, s.live, s.replies[p].kind = "applied",
               CaughtUp(s.dev, p)'
        PROVE  IF net[s.dev].rows[p].state = "pendingDelete" THEN ~(bundle'[p].version > 0)
               ELSE /\ bundle'[p].version > 0
                    /\ bundle'[p] = [content |-> net[s.dev].rows[p].content,
                                     version |-> s.replies[p].version]
    <3>1. s.dev \in Devices
      BY <1>1 DEF Request
    <3> QED
      BY <1>1, <2>5, <2>6, <3>1 DEF AnswerIsCurrent, Present
  <2>7. ASSUME r.live, reply.kind = "applied", CaughtUp(r.dev, c.path)'
        PROVE  IF net[r.dev].rows[c.path].state = "pendingDelete"
               THEN ~(bundle'[c.path].version > 0)
               ELSE /\ bundle'[c.path].version > 0
                    /\ bundle'[c.path] = [content |-> net[r.dev].rows[c.path].content,
                                          version |-> reply.version]
    <3>1. c = ChangeOf(c.path, net[r.dev].rows[c.path])
      BY <2>7, Regrouped, UploadTracked DEF Sound, Tracked, TrackedUpload
    <3>2. /\ c.deleted = (net[r.dev].rows[c.path].state = "pendingDelete")
          /\ c.content = net[r.dev].rows[c.path].content
      BY <3>1 DEF ChangeOf
    <3>3. ~(seq < journal'[c.path].seq)
      <4>1. cursor[r.dev] \in Nat /\ seq \in Nat /\ journal'[c.path].seq \in Nat
            /\ cursor[r.dev] <= seq
        BY <1>1, <2>2 DEF TypeOK, ClientTypeOK, ServerTypeOK, JournalEntry, JournalCounts
      <4>2. journal'[c.path].seq <= cursor[r.dev]
        BY <2>3, <2>7 DEF CaughtUp
      <4> QED
        BY <4>1, <4>2
    <3> QED
      BY <1>1, <2>1, <2>2, <2>7, <3>2, <3>3, PushJournals
  <2>8. AnswerIsCurrent'
    <3> DEFINE served == Served(r, c, reply)
    <3>1. /\ served.dev = r.dev /\ served.live = r.live
          /\ served.replies[c.path] = reply
          /\ \A p \in Paths : p # c.path => served.replies[p] = r.replies[p]
      BY <2>2 DEF Served, Request
    <3> HIDE DEF served
    <3>2. ASSUME NEW p \in Paths, served.live, served.replies[p].kind = "applied",
                 CaughtUp(served.dev, p)'
          PROVE  IF net[served.dev].rows[p].state = "pendingDelete"
                 THEN ~(bundle'[p].version > 0)
                 ELSE /\ bundle'[p].version > 0
                      /\ bundle'[p] = [content |-> net[served.dev].rows[p].content,
                                       version |-> served.replies[p].version]
      <4>1. CASE p = c.path
        BY <2>7, <3>1, <3>2, <4>1
      <4>2. CASE p # c.path
        <5>1. served.replies[p] = r.replies[p] /\ served.dev = r.dev /\ r.live
          BY <3>1, <3>2, <4>2
        <5>2. r.replies[p].kind = "applied" /\ CaughtUp(r.dev, p)'
          BY <3>2, <5>1
        <5> QED
          BY <2>6, <5>1, <5>2
      <4> QED
        BY <4>1, <4>2
    <3>3. \A s \in inbox' : s \in inbox \/ s = served
      BY <2>1 DEF served
    <3>4. ASSUME NEW s \in inbox', NEW p \in Paths, s.live, s.replies[p].kind = "applied",
                 CaughtUp(s.dev, p)'
          PROVE  IF net'[s.dev].rows[p].state = "pendingDelete" THEN ~(bundle'[p].version > 0)
                 ELSE /\ bundle'[p].version > 0
                      /\ bundle'[p] = [content |-> net'[s.dev].rows[p].content,
                                       version |-> s.replies[p].version]
      <4>1. CASE s \in inbox
        BY <2>3, <2>6, <3>4, <4>1
      <4>2. CASE s = served
        <5>1. net' = net /\ CaughtUp(served.dev, p)' /\ served.live
              /\ served.replies[p].kind = "applied"
          BY <2>3, <3>4, <4>2
        <5> QED
          BY <3>2, <4>2, <5>1
      <4> QED
        BY <3>3, <4>1, <4>2
    <3> QED
      BY <3>4 DEF AnswerIsCurrent, Present, CaughtUp
  <2> QED
    BY <1>1, <2>3, <2>4, <2>8, ServerMovesOn
<1>3. ASSUME Journalled, UNCHANGED <<mirror, cursor, net, inbox>>
      PROVE  PullInvariant'
  <2>1. \A d \in Devices, p \in Paths : CaughtUp(d, p)' => CaughtUp(d, p) /\ bundle'[p] = bundle[p]
    BY <1>1, <1>3, BehindChanges
  <2>2. ASSUME NEW s \in inbox, NEW p \in Paths, s.live, s.replies[p].kind = "applied",
               CaughtUp(s.dev, p)'
        PROVE  IF net[s.dev].rows[p].state = "pendingDelete" THEN ~(bundle'[p].version > 0)
               ELSE /\ bundle'[p].version > 0
                    /\ bundle'[p] = [content |-> net[s.dev].rows[p].content,
                                     version |-> s.replies[p].version]
    <3>1. s.dev \in Devices
      BY <1>1 DEF Request
    <3> QED
      BY <1>1, <2>1, <2>2, <3>1 DEF AnswerIsCurrent, Present
  <2>3. AnswerIsCurrent'
    BY <1>3, <2>2 DEF AnswerIsCurrent, Present, CaughtUp
  <2> QED
    BY <1>1, <1>3, <2>3, ServerMovesOn
<1>4. ASSUME NEW p \in Paths, NEW e \in Edits, NEW known \in published, NEW doc \in Doc,
             AgentWrote(p, known, e, doc)
      PROVE  PullInvariant'
  <2>1. WriteNote(p, doc) /\ doc.version > 0 /\ UNCHANGED <<mirror, cursor, net, inbox>>
    BY <1>4 DEF AgentWrote, clientVars, netVars
  <2> QED
    BY <1>1, <1>3, <2>1, WritingJournals
<1>5. ASSUME NEW p \in Paths, NEW e \in Edits, ServerDelete(p, e)
      PROVE  PullInvariant'
  BY <1>1, <1>3, <1>5, RemovalJournals DEF ServerDelete, ServiceDelete, clientVars, netVars
<1>6. ASSUME NEW t \in trash, ServerRestore(t)
      PROVE  PullInvariant'
  <2> DEFINE doc == [content |-> t.content, version |-> t.version + 1]
  <2>1. WriteNote(t.path, doc) /\ UNCHANGED <<mirror, cursor, net, inbox>>
    BY <1>6 DEF ServerRestore, RestoreFromTrash, clientVars, netVars
  <2>2. t.path \in Paths /\ doc.version > 0
    BY <1>1 DEF ServerTypeOK, SavedDoc
  <2> HIDE DEF doc
  <2> QED
    BY <1>1, <1>3, <2>1, <2>2, WritingJournals
<1> QED
  BY <1>1, <1>2, <1>4, <1>5, <1>6, AgentsWrite DEF ServerStep

\* What the invariant says of one device: its operation op, its cursor cur and
\* one of its rows.
HoldsCurrent(op, cur) ==
    /\ op.at = "listed" =>
          \A p \in Paths : journal[p].seq <= cur => Shows(op.docs[p], p)
    /\ op.at = "pulled" =>
          /\ cur <= op.delta.cursor /\ op.delta.cursor <= seq
          /\ \A p \in Paths : journal[p].seq <= op.delta.cursor =>
                IF p \in op.delta.touched THEN Shows(op.delta.docs[p], p)
                ELSE journal[p].seq <= cur
    /\ op.at = "resolving" => (journal[op.path].seq <= cur => Shows(op.doc, op.path))

RowCurrent(p, row, op, cur) ==
    /\ row.conflictDeleted => row.state \in {"conflict", "pendingDelete"}
    /\ op.at = "sent" => (op.rows[p].state # "absent" => Uploadable(row))
    /\ journal[p].seq <= cur /\ ~IsPending(row) => row = SyncedRow(bundle[p])

LEMMA PullsRegrouped ==
    PullInvariant <=> /\ JournalCounts
                      /\ AnswerIsCurrent
                      /\ \A d \in Devices : HoldsCurrent(net[d], cursor[d])
                      /\ \A d \in Devices, p \in Paths :
                            RowCurrent(p, mirror[d][p], net[d], cursor[d])
<1>1. FetchedIsCurrent <=> \A d \in Devices : HoldsCurrent(net[d], cursor[d])
  BY DEF FetchedIsCurrent, HoldsCurrent, DeltaIsComplete, CaughtUp
<1>2. RowsInPlace /\ CaughtUpMirrors <=>
          \A d \in Devices, p \in Paths : RowCurrent(p, mirror[d][p], net[d], cursor[d])
  BY DEF RowsInPlace, CaughtUpMirrors, RowCurrent
<1> QED
  BY <1>1, <1>2 DEF PullInvariant

LEMMA PullsRegroupedNext ==
    ASSUME UNCHANGED serverVars, JournalCounts', AnswerIsCurrent',
           \A d \in Devices : HoldsCurrent(net'[d], cursor'[d]),
           \A d \in Devices, p \in Paths : RowCurrent(p, mirror'[d][p], net'[d], cursor'[d])
    PROVE  PullInvariant'
<1>1. bundle' = bundle /\ journal' = journal /\ seq' = seq
  BY DEF serverVars
<1>2. FetchedIsCurrent'
  BY <1>1 DEF FetchedIsCurrent, HoldsCurrent, DeltaIsComplete, CaughtUp, Shows
<1>3. RowsInPlace' /\ CaughtUpMirrors'
  BY <1>1 DEF RowsInPlace, CaughtUpMirrors, RowCurrent, Uploadable, IsPending
<1> QED
  BY <1>2, <1>3 DEF PullInvariant

\* A step of one device: the others hold what they held.
LEMMA DevicePulls ==
    ASSUME TypeOK, TypeOK', PullInvariant, UNCHANGED serverVars,
           NEW d \in Devices, NEW op, MoveTo(d, op),
           \A x \in Devices \ {d} : mirror'[x] = mirror[x] /\ cursor'[x] = cursor[x],
           cursor'[d] <= seq,
           HoldsCurrent(op, cursor'[d]),
           \A p \in Paths : RowCurrent(p, mirror'[d][p], op, cursor'[d]),
           \A r \in inbox' : r.live =>
              \/ r \in inbox /\ r.dev # d
              \/ \A p \in Paths : r.replies[p].kind # "applied"
    PROVE  PullInvariant'
<1>1. /\ net \in [Devices -> Operation] /\ inbox \subseteq Request
      /\ net' = [net EXCEPT ![d] = op]
      /\ bundle' = bundle /\ journal' = journal /\ seq' = seq
  BY DEF TypeOK, MoveTo, serverVars
<1>2. net'[d] = op /\ \A x \in Devices \ {d} : net'[x] = net[x]
  BY <1>1
<1>3. JournalCounts'
  BY <1>1, PullsRegrouped DEF JournalCounts, Present
<1>4. AnswerIsCurrent'
  <2>1. ASSUME NEW r \in inbox', NEW p \in Paths, r.live, r.replies[p].kind = "applied",
               journal'[p].seq <= cursor'[r.dev]
        PROVE  IF net'[r.dev].rows[p].state = "pendingDelete" THEN ~(bundle'[p].version > 0)
               ELSE /\ bundle'[p].version > 0
                    /\ bundle'[p] = [content |-> net'[r.dev].rows[p].content,
                                     version |-> r.replies[p].version]
    <3>1. r \in inbox /\ r.dev \in Devices \ {d}
      BY <1>1, <2>1 DEF Request
    <3>2. net'[r.dev] = net[r.dev] /\ cursor'[r.dev] = cursor[r.dev]
      BY <1>2, <3>1
    <3> QED
      BY <1>1, <2>1, <3>1, <3>2 DEF PullInvariant, AnswerIsCurrent, CaughtUp, Present
  <2> QED
    BY <2>1 DEF AnswerIsCurrent, CaughtUp, Present
<1>5. \A x \in Devices : HoldsCurrent(net'[x], cursor'[x])
  BY <1>2, PullsRegrouped
<1>6. \A x \in Devices, p \in Paths : RowCurrent(p, mirror'[x][p], net'[x], cursor'[x])
  BY <1>2, PullsRegrouped
<1> QED
  BY <1>3, <1>4, <1>5, <1>6, PullsRegroupedNext

\* A local save: one row becomes a pending one, and an upload stays an upload.
LEMMA EditPulls ==
    ASSUME TypeOK, TypeOK', PullInvariant, UNCHANGED <<serverVars, net, cursor, inbox>>,
           NEW d \in Devices, NEW p \in Paths, NEW row,
           mirror' = [mirror EXCEPT ![d][p] = row],
           IsPending(row), Uploadable(mirror[d][p]) => Uploadable(row),
           row.conflictDeleted => row.state \in {"conflict", "pendingDelete"}
    PROVE  PullInvariant'
<1>1. mirror \in [Devices -> [Paths -> Row]]
  BY DEF TypeOK, ClientTypeOK
<1>2. bundle' = bundle /\ journal' = journal /\ seq' = seq
  BY DEF serverVars
<1>3. JournalCounts'
  BY <1>2, PullsRegrouped DEF JournalCounts, Present
<1>4. AnswerIsCurrent'
  BY <1>2, PullsRegrouped DEF AnswerIsCurrent, CaughtUp, Present
<1>5. ASSUME NEW x \in Devices, NEW q \in Paths
      PROVE  RowCurrent(q, mirror'[x][q], net[x], cursor[x])
  <2>1. RowCurrent(q, mirror[x][q], net[x], cursor[x])
    BY PullsRegrouped
  <2>2. CASE x = d /\ q = p
    <3>1. mirror'[x][q] = row
      BY <1>1, <2>2
    <3> QED
      BY <2>1, <2>2, <3>1 DEF RowCurrent
  <2>3. CASE ~(x = d /\ q = p)
    <3>1. mirror'[x][q] = mirror[x][q]
      BY <1>1, <2>3
    <3> QED
      BY <2>1, <3>1
  <2> QED
    BY <2>2, <2>3
<1>6. \A x \in Devices : HoldsCurrent(net'[x], cursor'[x])
  BY PullsRegrouped
<1> QED
  BY <1>3, <1>4, <1>5, <1>6, PullsRegroupedNext

\* An answered row of a device caught up with its note: a conflict or a newer
\* edit is still pending, a cleared one is the server's note.
LEMMA AnsweredRowCurrent ==
    ASSUME NEW p \in Paths, NEW row \in Row, NEW submitted \in Row, NEW reply \in Reply,
           bundle[p] \in Doc,
           row.conflictDeleted => row.state \in {"conflict", "pendingDelete"},
           submitted.state # "absent" => Uploadable(row),
           ~IsPending(row) => row = SyncedRow(bundle[p]),
           submitted.state # "absent" /\ reply.kind = "applied" =>
              IF submitted.state = "pendingDelete" THEN ~Present(p)
              ELSE /\ Present(p)
                   /\ bundle[p] = [content |-> submitted.content, version |-> reply.version]
    PROVE  LET new == AnsweredRow(row, submitted, reply)
           IN  ~IsPending(new) => new = SyncedRow(bundle[p])
<1> DEFINE new == AnsweredRow(row, submitted, reply)
<1>1. CASE new = row
  BY <1>1
<1>2. CASE new = ConflictRow(row)
  BY <1>2 DEF ConflictRow, IsPending, Pending, Row
<1>3. CASE new = RebasedRow(row, reply.version)
  BY <1>3 DEF RebasedRow, IsPending, Pending, Row
<1>4. CASE /\ Acknowledged(row, submitted, reply) /\ SameRevision(row, submitted)
           /\ new = ClearedRow(row, reply.version)
  <2>1. /\ submitted.state # "absent" /\ reply.kind = "applied"
        /\ row.state = submitted.state /\ row.content = submitted.content
    BY <1>4 DEF Acknowledged, Unanswered, SameRevision
  <2>2. CASE row.state = "pendingDelete"
    <3>1. bundle[p].version = 0
      BY <2>1, <2>2 DEF Present, Doc
    <3> QED
      BY <1>4, <2>2, <3>1 DEF ClearedRow, SyncedRow
  <2>3. CASE row.state # "pendingDelete"
    <3>1. row.conflictDeleted = FALSE
      BY <2>1, <2>3 DEF Uploadable, Row
    <3>2. /\ bundle[p].version # 0
          /\ bundle[p].content = row.content /\ bundle[p].version = reply.version
      BY <2>1, <2>3 DEF Present
    <3> QED
      BY <1>4, <2>3, <3>1, <3>2 DEF ClearedRow, SyncedRow, Row
  <2> QED
    BY <2>2, <2>3
<1> QED
  BY <1>1, <1>2, <1>3, <1>4, AnswerCases

LEMMA AnsweredRowInPlace ==
    ASSUME NEW row \in Row, NEW submitted \in Row, NEW reply \in Reply,
           row.conflictDeleted => row.state \in {"conflict", "pendingDelete"},
           submitted.state # "absent" => Uploadable(row)
    PROVE  LET new == AnsweredRow(row, submitted, reply)
           IN  new.conflictDeleted => new.state \in {"conflict", "pendingDelete"}
<1> DEFINE new == AnsweredRow(row, submitted, reply)
<1>1. CASE new = row
  BY <1>1
<1>2. CASE new = ConflictRow(row)
  BY <1>2 DEF ConflictRow, Row
<1>3. CASE Acknowledged(row, submitted, reply) /\ new = RebasedRow(row, reply.version)
  <2>1. row.state # "conflict"
    BY <1>3 DEF Acknowledged, Unanswered, Uploadable
  <2> QED
    BY <1>3, <2>1 DEF RebasedRow, Row
<1>4. CASE Acknowledged(row, submitted, reply) /\ new = ClearedRow(row, reply.version)
  <2>1. row.state # "conflict"
    BY <1>4 DEF Acknowledged, Unanswered, Uploadable
  <2> QED
    BY <1>4, <2>1 DEF ClearedRow, NoRow, Row
<1> QED
  BY <1>1, <1>2, <1>3, <1>4, AnswerCases

\* What a pull brings is complete: a path it leaves out has not changed since.
LEMMA DeltaHolds ==
    ASSUME TypeOK, JournalCounts, NEW d \in Devices
    PROVE  HoldsCurrent([at |-> "pulled", delta |-> Delta(cursor[d])], cursor[d])
<1> DEFINE delta == Delta(cursor[d])
<1>1. /\ cursor[d] \in Nat /\ seq \in Nat /\ cursor[d] <= seq
      /\ \A p \in Paths : journal[p].seq \in Nat /\ bundle[p] \in Doc
  BY DEF TypeOK, ClientTypeOK, ServerTypeOK, JournalEntry, JournalCounts
<1>2. delta.cursor = seq
  BY DEF Delta
<1>3. ASSUME NEW p \in Paths
      PROVE  IF p \in delta.touched THEN Shows(delta.docs[p], p) ELSE journal[p].seq <= cursor[d]
  <2>1. CASE p \in delta.touched
    <3>1. journal[p].seq > cursor[d]
      BY <2>1 DEF Delta
    <3>2. journal[p].deleted <=> ~Present(p)
      BY <1>1, <3>1 DEF JournalCounts
    <3>3. CASE journal[p].deleted
      <4>1. bundle[p].version = 0
        BY <1>1, <3>2, <3>3 DEF Present, Doc
      <4> QED
        BY <2>1, <3>3, <4>1 DEF Delta, Shows, SyncedRow, NoDoc
    <3>4. CASE ~journal[p].deleted
      BY <2>1, <3>4 DEF Delta, Shows
    <3> QED
      BY <2>1, <3>3, <3>4
  <2>2. CASE p \notin delta.touched
    <3>1. ~(journal[p].seq > cursor[d]) \/ (~journal[p].deleted /\ ~Present(p))
      BY <2>2 DEF Delta
    <3> QED
      BY <1>1, <2>2, <3>1 DEF JournalCounts
  <2> QED
    BY <2>1, <2>2
<1> HIDE DEF delta
<1>4. HoldsCurrent([at |-> "pulled", delta |-> delta], cursor[d])
  BY <1>1, <1>2, <1>3 DEF HoldsCurrent
<1> QED
  BY <1>4 DEF delta

LEMMA DeviceKeepsPulls ==
    ASSUME UploadInvariant, TypeOK', PullInvariant, NEW d \in Devices, DeviceStep(d)
    PROVE  PullInvariant'
<1>1. /\ TypeOK /\ JournalCounts
      /\ mirror \in [Devices -> [Paths -> Row]] /\ net \in [Devices -> Operation]
      /\ cursor \in [Devices -> Nat] /\ bundle \in [Paths -> Doc] /\ inbox \subseteq Request
  BY PullsRegrouped DEF UploadInvariant, TypeOK, ClientTypeOK, ServerTypeOK
<1>2. /\ HoldsCurrent(net[d], cursor[d]) /\ cursor[d] <= seq
      /\ \A p \in Paths : mirror[d][p] \in Row /\ RowCurrent(p, mirror[d][p], net[d], cursor[d])
  BY <1>1, PullsRegrouped DEF JournalCounts
<1>3. net[d].at # "sent" => \A r \in inbox : r.live => r.dev # d
  BY DEF UploadInvariant, UploadIsTracked
<1>4. \A at \in {"idle", "ready", "pulling"} : \A cur : HoldsCurrent([at |-> at], cur)
  BY DEF HoldsCurrent
<1>5. \A p \in Paths : \A op : op.at # "sent" => RowCurrent(p, mirror[d][p], op, cursor[d])
  BY <1>2 DEF RowCurrent
<1>6. ASSUME NEW op, MoveTo(d, op), net[d].at # "sent", op.at # "sent",
             UNCHANGED <<serverVars, clientVars, inbox>>, HoldsCurrent(op, cursor[d])
      PROVE  PullInvariant'
  BY <1>1, <1>2, <1>3, <1>5, <1>6, DevicePulls DEF clientVars
<1>7. CASE StartBootstrap(d)
  <2> DEFINE op == [at |-> "listed", docs |-> Listing]
  <2>1. HoldsCurrent(op, cursor[d]) /\ op.at # "sent"
    BY DEF HoldsCurrent, Listing, Shows
  <2>2. MoveTo(d, op) /\ net[d].at # "sent" /\ UNCHANGED <<serverVars, clientVars, inbox>>
    BY <1>7 DEF StartBootstrap, Idle
  <2> HIDE DEF op
  <2> QED
    BY <1>6, <2>1, <2>2
<1>8. CASE StartFlush(d)
  BY <1>4, <1>6, <1>8 DEF StartFlush, Idle
<1>9. CASE SubmitNothing(d)
  BY <1>4, <1>6, <1>9 DEF SubmitNothing
<1>10. CASE PullChanges(d)
  <2> DEFINE op == [at |-> "pulled", delta |-> Delta(cursor[d])]
  <2>1. HoldsCurrent(op, cursor[d]) /\ op.at # "sent"
    BY <1>1, DeltaHolds
  <2>2. MoveTo(d, op) /\ net[d].at # "sent" /\ UNCHANGED <<serverVars, clientVars, inbox>>
    BY <1>10 DEF PullChanges
  <2> HIDE DEF op
  <2> QED
    BY <1>6, <2>1, <2>2
<1>11. CASE MergeCatalogue(d)
  <2> DEFINE docs == net[d].docs
             op == [at |-> "ready"]
  <2>1. /\ \A p \in Paths : mirror'[d][p] = MergedRow(mirror[d][p], docs[p])
        /\ \A x \in Devices \ {d} : mirror'[x] = mirror[x]
        /\ UNCHANGED <<serverVars, cursor, inbox>>
        /\ MoveTo(d, op) /\ net[d].at = "listed"
    BY <1>1, <1>11 DEF MergeCatalogue, MergeListing
  <2>2. \A p \in Paths : journal[p].seq <= cursor[d] => Shows(docs[p], p)
    BY <1>2, <2>1 DEF HoldsCurrent
  <2>3. ASSUME NEW p \in Paths
        PROVE  RowCurrent(p, mirror'[d][p], op, cursor[d])
    <3>1. CASE mirror'[d][p] = mirror[d][p]
      BY <1>5, <3>1
    <3>2. CASE mirror'[d][p] = SyncedRow(docs[p])
      <4>1. SyncedRow(docs[p]).conflictDeleted = FALSE
        BY DEF SyncedRow, NoRow
      <4> QED
        BY <2>2, <3>2, <4>1 DEF RowCurrent, Shows
    <3> QED
      BY <2>1, <3>1, <3>2 DEF MergedRow
  <2>4. HoldsCurrent(op, cursor[d])
    BY <1>4
  <2> HIDE DEF op
  <2> QED
    BY <1>1, <1>2, <1>3, <2>1, <2>3, <2>4, DevicePulls
<1>12. CASE SubmitQueue(d)
  <2> DEFINE rows == [p \in Paths |-> IF p \in Queue(d) THEN mirror[d][p] ELSE NoRow]
             op == [at |-> "sent", rows |-> rows]
             request == RequestOf(d)
  <2>1. /\ MoveTo(d, op) /\ inbox' = inbox \cup {request}
        /\ net[d].at = "ready" /\ UNCHANGED <<serverVars, clientVars>>
    BY <1>12 DEF SubmitQueue
  <2>2. \A p \in Paths : request.replies[p].kind # "applied"
    BY DEF RequestOf, NoReply
  <2>3. \A p \in Paths : rows[p].state # "absent" => Uploadable(mirror[d][p])
    BY DEF Queue, NoRow
  <2>4. op.at = "sent" /\ op.rows = rows /\ HoldsCurrent(op, cursor[d])
    BY DEF HoldsCurrent
  <2> HIDE DEF op, rows, request
  <2>5. \A p \in Paths : RowCurrent(p, mirror[d][p], op, cursor[d])
    BY <1>2, <2>3, <2>4 DEF RowCurrent
  <2>6. \A r \in inbox' : r.live => \/ r \in inbox /\ r.dev # d
                                    \/ \A p \in Paths : r.replies[p].kind # "applied"
    BY <1>3, <2>1, <2>2
  <2> QED
    BY <1>1, <1>2, <2>1, <2>4, <2>5, <2>6, DevicePulls DEF clientVars
<1>13. ASSUME NEW r \in inbox, ApplyResponse(d, r)
       PROVE  PullInvariant'
  <2> DEFINE rows == net[d].rows
             op == [at |-> "pulling"]
  <2>1. /\ \A p \in Paths : mirror'[d][p] = AnsweredRow(mirror[d][p], rows[p], r.replies[p])
        /\ \A x \in Devices \ {d} : mirror'[x] = mirror[x]
        /\ UNCHANGED <<serverVars, cursor>>
        /\ MoveTo(d, op) /\ net[d].at = "sent"
        /\ inbox' = inbox \ {r} /\ r.dev = d /\ r.live
    BY <1>1, <1>13 DEF ApplyResponse, ApplyAnswers
  <2>2. rows \in [Paths -> Row] /\ r.replies \in [Paths -> Reply]
    BY <1>1, <2>1 DEF Operation, Request
  <2>3. \A s \in inbox' : s.live => s \in inbox /\ s.dev # d
    BY <2>1 DEF UploadInvariant, OneUpload
  <2>4. ASSUME NEW p \in Paths
        PROVE  RowCurrent(p, mirror'[d][p], op, cursor[d])
    <3> DEFINE row == mirror[d][p]
    <3>1. /\ row \in Row /\ rows[p] \in Row /\ r.replies[p] \in Reply /\ bundle[p] \in Doc
          /\ RowCurrent(p, row, net[d], cursor[d])
      BY <1>1, <1>2, <2>2
    <3>2. /\ row.conflictDeleted => row.state \in {"conflict", "pendingDelete"}
          /\ rows[p].state # "absent" => Uploadable(row)
      BY <2>1, <3>1 DEF RowCurrent
    <3>3. ASSUME journal[p].seq <= cursor[d], ~IsPending(mirror'[d][p])
          PROVE  mirror'[d][p] = SyncedRow(bundle[p])
      <4>1. ~IsPending(row) => row = SyncedRow(bundle[p])
        BY <3>1, <3>3 DEF RowCurrent
      <4>2. ASSUME r.replies[p].kind = "applied"
            PROVE  IF rows[p].state = "pendingDelete" THEN ~Present(p)
                   ELSE /\ Present(p)
                        /\ bundle[p] = [content |-> rows[p].content,
                                        version |-> r.replies[p].version]
        BY <2>1, <3>3, <4>2 DEF PullInvariant, AnswerIsCurrent, CaughtUp
      <4> HIDE DEF row, rows
      <4>3. LET new == AnsweredRow(row, rows[p], r.replies[p])
            IN  ~IsPending(new) => new = SyncedRow(bundle[p])
        BY <3>1, <3>2, <4>1, <4>2, AnsweredRowCurrent
      <4> QED
        BY <2>1, <3>3, <4>3 DEF row
    <3> HIDE DEF row, rows
    <3>4. mirror'[d][p].conflictDeleted => mirror'[d][p].state \in {"conflict", "pendingDelete"}
      BY <2>1, <3>1, <3>2, AnsweredRowInPlace DEF row
    <3> QED
      BY <3>3, <3>4 DEF RowCurrent
  <2>5. HoldsCurrent(op, cursor[d])
    BY <1>4
  <2> HIDE DEF op
  <2> QED
    BY <1>1, <1>2, <2>1, <2>3, <2>4, <2>5, DevicePulls
<1>14. CASE ApplyPulled(d)
  <2> DEFINE delta == net[d].delta
  <2>1. /\ \A p \in Paths : mirror'[d][p] = IF p \in delta.touched
                                            THEN PulledRow(mirror[d][p], delta.docs[p])
                                            ELSE mirror[d][p]
        /\ \A x \in Devices \ {d} : mirror'[x] = mirror[x] /\ cursor'[x] = cursor[x]
        /\ cursor'[d] = delta.cursor
        /\ UNCHANGED <<serverVars, inbox>>
        /\ MoveTo(d, Idle) /\ net[d].at = "pulled"
    BY <1>1, <1>14 DEF ApplyPulled, ApplyDelta
  <2>2. /\ delta.cursor <= seq
        /\ \A p \in Paths : journal[p].seq <= delta.cursor =>
              IF p \in delta.touched THEN Shows(delta.docs[p], p)
              ELSE journal[p].seq <= cursor[d]
    BY <1>2, <2>1 DEF HoldsCurrent
  <2>3. ASSUME NEW p \in Paths
        PROVE  RowCurrent(p, mirror'[d][p], Idle, delta.cursor)
    <3>1. RowCurrent(p, mirror[d][p], Idle, cursor[d])
      BY <1>5 DEF Idle
    <3>2. CASE p \in delta.touched /\ ~IsPending(mirror[d][p])
      <4>1. mirror'[d][p] = SyncedRow(delta.docs[p])
        BY <2>1, <3>2 DEF PulledRow
      <4>2. SyncedRow(delta.docs[p]).conflictDeleted = FALSE
        BY DEF SyncedRow, NoRow
      <4> QED
        BY <2>2, <3>2, <4>1, <4>2 DEF RowCurrent, Shows, Idle
    <3>3. CASE p \notin delta.touched \/ IsPending(mirror[d][p])
      <4>1. mirror'[d][p] = mirror[d][p]
        BY <2>1, <3>3 DEF PulledRow
      <4> QED
        BY <2>2, <3>1, <3>3, <4>1 DEF RowCurrent
    <3> QED
      BY <3>2, <3>3
  <2>4. HoldsCurrent(Idle, delta.cursor)
    BY <1>4 DEF Idle
  <2>5. \A s \in inbox' : s.live => s \in inbox /\ s.dev # d
    BY <1>3, <2>1
  <2> HIDE DEF delta
  <2> QED
    BY <1>1, <2>1, <2>2, <2>3, <2>4, <2>5, DevicePulls
<1>15. CASE BreakOff(d)
  <2>1. \A r \in inbox' : r.live => r \in inbox /\ r.dev # d
    <3> DEFINE mine == {r \in inbox : r.dev = d /\ r.live}
    <3>1. \A r \in inbox' : \/ r \in inbox /\ r \notin mine
                            \/ \E s \in mine : r = [s EXCEPT !.live = FALSE]
      BY <1>15 DEF BreakOff
    <3>2. \A s \in inbox : [s EXCEPT !.live = FALSE].live = FALSE
      BY <1>1 DEF Request
    <3> QED
      BY <3>1, <3>2
  <2>2. MoveTo(d, Idle) /\ UNCHANGED <<serverVars, clientVars>>
    BY <1>15 DEF BreakOff
  <2>3. HoldsCurrent(Idle, cursor[d]) /\ \A p \in Paths : RowCurrent(p, mirror[d][p], Idle, cursor[d])
    BY <1>4, <1>5 DEF Idle
  <2> QED
    BY <1>1, <1>2, <2>1, <2>2, <2>3, DevicePulls DEF clientVars
<1> QED
  BY <1>7, <1>8, <1>9, <1>10, <1>11, <1>12, <1>13, <1>14, <1>15 DEF DeviceStep

LEMMA OwnerKeepsPulls ==
    ASSUME UploadInvariant, TypeOK', PullInvariant, NEW d \in Devices, OwnerStep(d)
    PROVE  PullInvariant'
<1>1. /\ TypeOK
      /\ mirror \in [Devices -> [Paths -> Row]] /\ net \in [Devices -> Operation]
  BY DEF UploadInvariant, TypeOK, ClientTypeOK
<1>2. /\ HoldsCurrent(net[d], cursor[d]) /\ cursor[d] <= seq
      /\ \A p \in Paths : mirror[d][p] \in Row /\ RowCurrent(p, mirror[d][p], net[d], cursor[d])
  BY <1>1, PullsRegrouped DEF JournalCounts
<1>3. net[d].at # "sent" => \A r \in inbox : r.live => r.dev # d
  BY DEF UploadInvariant, UploadIsTracked
<1>4. ASSUME NEW p \in Paths, NEW content, NEW version, SaveLocal(d, p, content, version),
             UNCHANGED <<serverVars, net, inbox>>
      PROVE  PullInvariant'
  <2> DEFINE row == SavedRow(mirror[d][p], content, version)
  <2>1. mirror' = [mirror EXCEPT ![d][p] = row] /\ cursor' = cursor
    BY <1>4 DEF SaveLocal
  <2>2. /\ IsPending(row) /\ row.conflictDeleted = FALSE
        /\ Uploadable(mirror[d][p]) => Uploadable(row)
    BY DEF SavedRow, Creating, IsPending, Pending, Uploadable
  <2> HIDE DEF row
  <2> QED
    BY <1>1, <1>4, <2>1, <2>2, EditPulls
<1>5. ASSUME NEW p \in Paths, NEW e \in Edits, CaptureNote(d, p, e) \/ EditNote(d, p, e)
      PROVE  PullInvariant'
  BY <1>4, <1>5 DEF CaptureNote, EditNote, netVars
<1>6. ASSUME NEW p \in Paths, NEW e \in Edits, DeleteNote(d, p, e)
      PROVE  PullInvariant'
  <2> DEFINE row == DeletedRow(mirror[d][p])
  <2>1. /\ mirror' = [mirror EXCEPT ![d][p] = row]
        /\ UNCHANGED <<serverVars, net, cursor, inbox>>
    BY <1>6 DEF DeleteNote, DeleteLocal, netVars
  <2>2. row.state = "pendingDelete"
    BY <1>2 DEF DeletedRow, Row
  <2> HIDE DEF row
  <2>3. IsPending(row) /\ Uploadable(row)
    BY <2>2 DEF IsPending, Pending, Uploadable
  <2> QED
    BY <1>1, <2>1, <2>2, <2>3, EditPulls
<1>7. ASSUME NEW p \in Paths, NEW choice \in Choices, NEW e \in Edits,
             StartResolve(d, p, choice, e)
      PROVE  PullInvariant'
  <2> DEFINE op == [at |-> "resolving", path |-> p, choice |-> choice, edit |-> e,
                    doc |-> bundle[p]]
  <2>1. /\ MoveTo(d, op) /\ UNCHANGED <<serverVars, clientVars, inbox>>
        /\ net[d].at # "sent"
    BY <1>7 DEF StartResolve, Idle
  <2>2. HoldsCurrent(op, cursor[d]) /\ op.at # "sent"
    BY DEF HoldsCurrent, Shows
  <2> HIDE DEF op
  <2>3. \A q \in Paths : RowCurrent(q, mirror[d][q], op, cursor[d])
    BY <1>2, <2>2 DEF RowCurrent
  <2> QED
    BY <1>1, <1>2, <1>3, <2>1, <2>2, <2>3, DevicePulls DEF clientVars
<1>8. CASE KeepMine(d) \/ KeepServer(d) \/ \E copy \in Paths : KeepBoth(d, copy)
  <2> DEFINE q == net[d].path
             doc == net[d].doc
  <2>1. /\ net[d].at = "resolving" /\ MoveTo(d, Idle)
        /\ UNCHANGED <<serverVars, cursor, inbox>>
    BY <1>8 DEF KeepMine, KeepServer, KeepBoth
  <2>2. q \in Paths /\ (journal[q].seq <= cursor[d] => Shows(doc, q))
    BY <1>1, <1>2, <2>1 DEF HoldsCurrent, Operation
  <2>3. RowCurrent(q, SyncedRow(doc), Idle, cursor[d])
    <3>1. SyncedRow(doc).conflictDeleted = FALSE
      BY DEF SyncedRow, NoRow
    <3> QED
      BY <2>2, <3>1 DEF RowCurrent, Shows, Idle
  <2>4. \A p \in Paths : RowCurrent(p, mirror[d][p], Idle, cursor[d])
    BY <1>2 DEF RowCurrent, Idle
  <2>5. HoldsCurrent(Idle, cursor[d])
    BY DEF HoldsCurrent, Idle
  <2>6. ASSUME \A x \in Devices \ {d} : mirror'[x] = mirror[x],
               \A p \in Paths : RowCurrent(p, mirror'[d][p], Idle, cursor[d])
        PROVE  PullInvariant'
    BY <1>1, <1>2, <1>3, <2>1, <2>5, <2>6, DevicePulls
  <2>7. CASE KeepMine(d)
    <3> DEFINE new == MineRow(mirror[d][q], doc, net[d].edit)
    <3>1. mirror' = [mirror EXCEPT ![d][q] = new]
      BY <2>7 DEF KeepMine
    <3>2. IsPending(new) /\ new.conflictDeleted = FALSE
      BY DEF MineRow, IsPending, Pending
    <3> HIDE DEF new, q, doc
    <3>3. RowCurrent(q, new, Idle, cursor[d])
      BY <3>2 DEF RowCurrent, Idle
    <3> QED
      BY <1>1, <2>2, <2>4, <2>6, <3>1, <3>3
  <2>8. CASE KeepServer(d)
    <3>1. mirror' = [mirror EXCEPT ![d][q] = SyncedRow(doc)]
      BY <2>8 DEF KeepServer
    <3> HIDE DEF q, doc
    <3> QED
      BY <1>1, <2>2, <2>3, <2>4, <2>6, <3>1
  <2>9. ASSUME NEW copy \in Paths, KeepBoth(d, copy)
        PROVE  PullInvariant'
    <3> DEFINE new == RecoveredRow(mirror[d][q])
    <3>1. mirror' = [mirror EXCEPT ![d][copy] = new, ![d][q] = SyncedRow(doc)]
      BY <2>9 DEF KeepBoth
    <3>2. IsPending(new) /\ new.conflictDeleted = FALSE
      BY DEF RecoveredRow, IsPending, Pending
    <3> HIDE DEF new, q, doc
    <3>3. RowCurrent(copy, new, Idle, cursor[d])
      BY <3>2 DEF RowCurrent, Idle
    <3>4. \A p \in Paths : mirror'[d][p] = IF p = q THEN SyncedRow(doc)
                                           ELSE IF p = copy THEN new ELSE mirror[d][p]
      BY <1>1, <2>2, <3>1
    <3> QED
      BY <1>1, <2>3, <2>4, <2>6, <3>1, <3>3, <3>4
  <2> QED
    BY <1>8, <2>7, <2>8, <2>9
<1> QED
  BY <1>5, <1>6, <1>7, <1>8 DEF OwnerStep

LEMMA InitKeepsPulls == Init => PullInvariant
<1> SUFFICES ASSUME Init PROVE PullInvariant
  OBVIOUS
<1>1. /\ seq = 0 /\ journal = [p \in Paths |-> [seq |-> 0, deleted |-> FALSE]]
      /\ cursor = [d \in Devices |-> 0] /\ inbox = {} /\ net = [d \in Devices |-> Idle]
  BY DEF Init, ServerInit
<1>2. JournalCounts /\ AnswerIsCurrent
  BY <1>1 DEF JournalCounts, AnswerIsCurrent
<1>3. \A d \in Devices : HoldsCurrent(net[d], cursor[d])
  BY <1>1 DEF HoldsCurrent, Idle
<1>4. PICK editor \in [LegacyPaths -> Devices], edit \in [LegacyPaths -> Edits] :
          mirror = [d \in Devices |-> [p \in Paths |->
              IF p \in LegacyPaths /\ editor[p] = d THEN LegacyRow(edit[p])
              ELSE SyncedRow(bundle[p])]]
  BY DEF Init
<1>5. ASSUME NEW d \in Devices, NEW p \in Paths
      PROVE  RowCurrent(p, mirror[d][p], net[d], cursor[d])
  <2>1. CASE mirror[d][p] = SyncedRow(bundle[p])
    <3>1. SyncedRow(bundle[p]).conflictDeleted = FALSE
      BY DEF SyncedRow, NoRow
    <3> QED
      BY <1>1, <2>1, <3>1 DEF RowCurrent, Idle
  <2>2. CASE p \in LegacyPaths /\ mirror[d][p] = LegacyRow(edit[p])
    BY <1>1, <2>2 DEF RowCurrent, LegacyRow, IsPending, Pending, Idle
  <2> QED
    BY <1>4, <2>1, <2>2
<1> QED
  BY <1>2, <1>3, <1>5, PullsRegrouped

LEMMA StepKeepsPulls ==
    UploadInvariant /\ TypeOK' /\ PullInvariant /\ [Next]_vars => PullInvariant'
<1> SUFFICES ASSUME UploadInvariant, TypeOK', PullInvariant, [Next]_vars PROVE PullInvariant'
  OBVIOUS
<1>1. CASE UNCHANGED vars
  <2>1. UNCHANGED <<serverVars, mirror, cursor, net, inbox>>
    BY <1>1 DEF vars, clientVars, netVars
  <2>2. JournalCounts' /\ AnswerIsCurrent'
    BY <2>1, PullsRegrouped DEF JournalCounts, AnswerIsCurrent, CaughtUp, Present, serverVars
  <2> QED
    BY <2>1, <2>2, PullsRegrouped, PullsRegroupedNext
<1>2. CASE Next
  BY <1>2, DeviceKeepsPulls, OwnerKeepsPulls, ServerKeepsPulls DEF Next
<1> QED
  BY <1>1, <1>2

\* What a device fetched or was answered, and what it shows, is the server's
\* note of now wherever its cursor is past the path's last change: the
\* strengthening the next theorem rests on.
THEOREM PullsAreComplete == Spec => []PullInvariant
  BY InitKeepsPulls, StepKeepsPulls, UploadsAreSound, Typing, PTL DEF Spec

\* The pull cursor misses no change: once it has passed a note's last change,
\* the device's unedited row is the server's note, whatever was downloaded,
\* uploaded, answered late or resolved meanwhile.
THEOREM CaughtUpRowsAreCurrent == Spec => []CaughtUpMirrors
<1>1. PullInvariant => CaughtUpMirrors
  BY DEF PullInvariant
<1> QED
  BY <1>1, PullsAreComplete, PTL

-----------------------------------------------------------------------------
(* What an upload does to a note, for every document.  SyncServer takes a  *)
(* note's text and metadata for one value; SyncService.push is built from  *)
(* the operators of Documents.                                             *)

Docs == INSTANCE Documents

IsMap(f) == f = [k \in DOMAIN f |-> f[k]]

IsConcept(c) ==
    /\ c = [meta |-> c.meta, own |-> c.own, body |-> c.body]
    /\ IsMap(c.meta)
    /\ IsMap(c.own)
    /\ Docs!VersionOf(c) \in Nat

\* What Merge leaves in the vesnai namespace, key by key: every key of either
\* side but perhaps done_at, and the device's value unless the key identifies
\* the note.
LEMMA MergedKeys ==
    ASSUME NEW e, NEW i
    PROVE  /\ Docs!Merge(e, i).meta = Docs!Over(e.meta, i.meta)
           /\ Docs!Merge(e, i).body = i.body
           /\ DOMAIN Docs!Merge(e, i).own \subseteq DOMAIN e.own \cup DOMAIN i.own
           /\ (DOMAIN e.own \cup DOMAIN i.own) \ {"done_at"} \subseteq DOMAIN Docs!Merge(e, i).own
           /\ \A k \in DOMAIN Docs!Merge(e, i).own :
                 Docs!Merge(e, i).own[k] =
                    IF k \in DOMAIN e.own /\ (k \in Docs!Identity \/ k \notin DOMAIN i.own)
                    THEN e.own[k] ELSE i.own[k]
<1> DEFINE both == Docs!Over(Docs!Over(e.own, i.own), Docs!Only(e.own, Docs!Identity))
<1>1. /\ DOMAIN both = DOMAIN e.own \cup DOMAIN i.own
      /\ \A k \in DOMAIN both :
            both[k] = IF k \in DOMAIN e.own /\ (k \in Docs!Identity \/ k \notin DOMAIN i.own)
                      THEN e.own[k] ELSE i.own[k]
  BY DEF Docs!Over, Docs!Only
<1>2. Docs!Merge(e, i) = [meta |-> Docs!Over(e.meta, i.meta),
                     own |-> IF Docs!Entry(both, "done", 0) = 0
                             THEN Docs!Without(both, {"done_at"}) ELSE both,
                     body |-> i.body]
  BY DEF Docs!Merge
<1> HIDE DEF both
<1>3. CASE Docs!Entry(both, "done", 0) = 0
  <2>1. Docs!Merge(e, i).own = Docs!Without(both, {"done_at"})
    BY <1>2, <1>3
  <2> QED BY <1>1, <1>2, <2>1 DEF Docs!Without
<1>4. CASE Docs!Entry(both, "done", 0) # 0
  <2>1. Docs!Merge(e, i).own = both
    BY <1>2, <1>4
  <2> QED BY <1>1, <1>2, <2>1
<1> QED BY <1>3, <1>4

\* done_at stays exactly when the merged note is marked as done.
LEMMA MergedDone ==
    ASSUME NEW e, NEW i
    PROVE  "done_at" \in DOMAIN Docs!Merge(e, i).own
             <=> /\ "done_at" \in DOMAIN e.own \cup DOMAIN i.own
                 /\ Docs!Entry(i.own, "done", Docs!Entry(e.own, "done", 0)) # 0
<1> DEFINE both == Docs!Over(Docs!Over(e.own, i.own), Docs!Only(e.own, Docs!Identity))
<1>1. DOMAIN both = DOMAIN e.own \cup DOMAIN i.own
  BY DEF Docs!Over, Docs!Only
<1>2. Docs!Entry(both, "done", 0) = Docs!Entry(i.own, "done", Docs!Entry(e.own, "done", 0))
  BY DEF Docs!Over, Docs!Only, Docs!Entry, Docs!Identity
<1>3. Docs!Merge(e, i).own = IF Docs!Entry(both, "done", 0) = 0 THEN Docs!Without(both, {"done_at"}) ELSE both
  BY DEF Docs!Merge
<1> HIDE DEF both
<1>4. DOMAIN Docs!Without(both, {"done_at"}) = DOMAIN both \ {"done_at"}
  BY DEF Docs!Without
<1> QED BY <1>1, <1>2, <1>3, <1>4

\* An upload never changes which note it is: the server's id, creation time and
\* vector survive whatever the device sent (_merge_metadata).
THEOREM IdentityIsKept ==
    ASSUME NEW e, NEW i, NEW k \in Docs!Identity, k \in DOMAIN e.own
    PROVE  k \in DOMAIN Docs!Merge(e, i).own /\ Docs!Merge(e, i).own[k] = e.own[k]
BY MergedKeys DEF Docs!Identity

\* No key of the note's frontmatter is lost by an upload that does not carry it:
\* an old app that does not know a key cannot drop it.
THEOREM KeysSurviveUploads ==
    ASSUME NEW e, NEW i
    PROVE  /\ \A k \in DOMAIN e.meta \ DOMAIN i.meta :
                  k \in DOMAIN Docs!Merge(e, i).meta /\ Docs!Merge(e, i).meta[k] = e.meta[k]
           /\ \A k \in DOMAIN e.own \ (DOMAIN i.own \cup {"done_at"}) :
                  k \in DOMAIN Docs!Merge(e, i).own /\ Docs!Merge(e, i).own[k] = e.own[k]
<1>1. \A k \in DOMAIN e.meta \ DOMAIN i.meta :
          k \in DOMAIN Docs!Over(e.meta, i.meta) /\ Docs!Over(e.meta, i.meta)[k] = e.meta[k]
  BY DEF Docs!Over
<1>2. Docs!Merge(e, i).meta = Docs!Over(e.meta, i.meta)
  BY MergedKeys
<1>3. \A k \in DOMAIN e.own \ (DOMAIN i.own \cup {"done_at"}) :
          k \in DOMAIN Docs!Merge(e, i).own /\ Docs!Merge(e, i).own[k] = e.own[k]
  BY MergedKeys
<1> QED BY <1>1, <1>2, <1>3

LEMMA VersionIsSet ==
    ASSUME NEW c, NEW v, IsConcept(c)
    PROVE  /\ Docs!VersionOf(Docs!WithVersion(c, v)) = v
           /\ Docs!WithVersion(c, v).body = c.body
           /\ Docs!WithVersion(c, v).meta = c.meta
           /\ DOMAIN Docs!WithVersion(c, v).own = DOMAIN c.own \cup {"version"}
           /\ \A k \in DOMAIN c.own \ {"version"} : Docs!WithVersion(c, v).own[k] = c.own[k]
BY DEF Docs!WithVersion, Docs!VersionOf, Docs!Entry, Docs!Over, IsConcept

\* The result of a merge is a document.
LEMMA MergeIsConcept ==
    ASSUME NEW e, NEW i, IsConcept(e), IsConcept(i)
    PROVE  IsConcept(Docs!Merge(e, i))
<1> DEFINE both == Docs!Over(Docs!Over(e.own, i.own), Docs!Only(e.own, Docs!Identity))
           m == Docs!Merge(e, i)
<1>1. m = [meta |-> m.meta, own |-> m.own, body |-> m.body] /\ IsMap(m.meta)
  BY DEF Docs!Merge, Docs!Over, IsMap
<1>2. IsMap(m.own)
  <2>1. m.own = IF Docs!Entry(both, "done", 0) = 0 THEN Docs!Without(both, {"done_at"}) ELSE both
    BY DEF Docs!Merge
  <2>2. IsMap(both) /\ IsMap(Docs!Without(both, {"done_at"}))
    BY DEF Docs!Over, Docs!Without, IsMap
  <2> QED BY <2>1, <2>2
<1>3. Docs!VersionOf(m) \in Nat
  <2>1. "version" \notin Docs!Identity
    BY DEF Docs!Identity
  <2>2. "version" \in DOMAIN m.own =>
            \/ "version" \in DOMAIN i.own /\ m.own["version"] = i.own["version"]
            \/ "version" \in DOMAIN e.own /\ m.own["version"] = e.own["version"]
    BY MergedKeys, <2>1
  <2> QED BY <2>2 DEF Docs!VersionOf, Docs!Entry, IsConcept
<1> QED BY <1>1, <1>2, <1>3 DEF IsConcept

\* A note's version rises whenever an upload replaces it, also for devices that
\* send no base version: whoever still names the old version learns of it.
THEOREM UploadsRaiseTheVersion ==
    ASSUME NEW path, NEW e, NEW i, NEW base, NEW id, IsConcept(e), IsConcept(i)
    PROVE  LET r == Docs!Updated(path, e, i, base, id)
           IN r.note = e \/ Docs!VersionOf(r.note) > Docs!VersionOf(e)
<1> DEFINE m == Docs!Merge(e, i)
           n == Docs!NextVersion(e, m, base)
<1>1. IsConcept(m)
  BY MergeIsConcept
<1>2. n > Docs!VersionOf(e)
  BY <1>1 DEF Docs!NextVersion, IsConcept
<1>3. Docs!VersionOf(Docs!WithVersion(m, n)) = n
  BY <1>1, VersionIsSet
<1> HIDE DEF m, n
<1>4. Docs!Updated(path, e, i, base, id).note \in {e, Docs!WithVersion(m, n)}
  BY DEF Docs!Updated, m, n
<1> QED BY <1>2, <1>3, <1>4

\* No text is lost: what was uploaded is the note's body or its recovery copy's,
\* and the note's earlier body is replaced without a copy only by a device that
\* named the version it replaces, or by the same text.
THEOREM UploadsLoseNoText ==
    ASSUME NEW path, NEW e, NEW i, NEW base, NEW id, IsConcept(e), IsConcept(i)
    PROVE  LET r == Docs!Updated(path, e, i, base, id)
           IN /\ \E c \in {r.note} \cup r.copy : c.body = i.body
              /\ \/ \E c \in {r.note} \cup r.copy : c.body = e.body
                 \/ Docs!VersionOf(e) \in base
<1> DEFINE m == Docs!Merge(e, i)
           known == Docs!VersionOf(e) \in base
           wins == known \/ (base = {} /\ Docs!IncomingWins(e, m))
           accepted == Docs!WithVersion(m, Docs!NextVersion(e, m, base))
           r == Docs!Updated(path, e, i, base, id)
<1>1. m.body = i.body /\ accepted.body = i.body
  BY MergeIsConcept, MergedKeys, VersionIsSet
<1>3. Docs!Copy(e, path, id).body = e.body /\ Docs!Copy(m, path, id).body = i.body
  BY <1>1, MergeIsConcept DEF Docs!Copy, IsConcept
<1>4. CASE Docs!Content(e) = Docs!Content(m)
  <2>1. e.body = m.body
    BY <1>4 DEF Docs!Content
  <2>2. r.note = e
    BY <1>4 DEF Docs!Updated
  <2> QED BY <2>1, <2>2, <1>1
<1>5. CASE Docs!Content(e) # Docs!Content(m)
  <2>1. r = [kind |-> IF known THEN "applied" ELSE "conflict",
             note |-> IF wins THEN accepted ELSE e,
             copy |-> IF known THEN {} ELSE {Docs!Copy(IF wins THEN e ELSE m, path, id)}]
    BY <1>5 DEF Docs!Updated
  <2> HIDE DEF m, accepted, wins, known
  <2>5. known => wins /\ Docs!VersionOf(e) \in base
    BY DEF known, wins
  <2>2. CASE known
    BY <2>1, <2>2, <2>5, <1>1
  <2>3. CASE ~known /\ wins
    BY <2>1, <2>3, <1>1, <1>3 DEF m
  <2>4. CASE ~known /\ ~wins
    BY <2>1, <2>4, <1>1, <1>3 DEF m
  <2> QED BY <2>2, <2>3, <2>4
<1> QED BY <1>4, <1>5

\* Uploading the same document again changes nothing: its content is recognised
\* as the stored one, so a lost acknowledgement makes no conflict and no version.
\* (The stored body is taken as read back unchanged, see ReadBody.)
THEOREM RepetitionIsRecognised ==
    ASSUME NEW path, NEW e, NEW i, NEW v \in Nat, NEW base, NEW id,
           IsConcept(e), IsConcept(i)
    PROVE  LET stored == Docs!WithVersion(Docs!Merge(e, i), v)
           IN Docs!Updated(path, stored, i, base, id).note = stored
<1> DEFINE m == Docs!Merge(e, i)
           stored == Docs!WithVersion(m, v)
           again == Docs!Merge(stored, i)
<1>1. IsConcept(m)
  BY MergeIsConcept
<1>2. /\ stored.meta = m.meta /\ stored.body = i.body
      /\ DOMAIN stored.own = DOMAIN m.own \cup {"version"}
      /\ \A k \in DOMAIN m.own \ {"version"} : stored.own[k] = m.own[k]
  BY <1>1, VersionIsSet, MergedKeys
<1>3. Docs!Without(again.meta, {"timestamp"}) = Docs!Without(stored.meta, {"timestamp"})
  <2>1. again.meta = Docs!Over(Docs!Over(e.meta, i.meta), i.meta) /\ stored.meta = Docs!Over(e.meta, i.meta)
    BY <1>2, MergedKeys
  <2> QED BY <2>1 DEF Docs!Over, Docs!Without
<1>4. Docs!Without(again.own, Docs!Bookkeeping) = Docs!Without(stored.own, Docs!Bookkeeping)
  <2>1. DOMAIN again.own \ Docs!Bookkeeping = DOMAIN stored.own \ Docs!Bookkeeping
    <3>1. {"version"} \subseteq Docs!Bookkeeping /\ {"done", "done_at"} \cap Docs!Bookkeeping = {}
      BY DEF Docs!Bookkeeping, Docs!Identity
    <3>2. DOMAIN again.own \ (Docs!Bookkeeping \cup {"done_at"})
            = DOMAIN stored.own \ (Docs!Bookkeeping \cup {"done_at"})
      BY <3>1, <1>2, MergedKeys
    <3>3. Docs!Entry(i.own, "done", Docs!Entry(stored.own, "done", 0))
            = Docs!Entry(i.own, "done", Docs!Entry(e.own, "done", 0))
      <4>1. "done" \notin DOMAIN i.own =>
                /\ "done" \in DOMAIN stored.own <=> "done" \in DOMAIN e.own
                /\ "done" \in DOMAIN e.own => stored.own["done"] = e.own["done"]
        BY <1>2, MergedKeys
      <4> QED BY <4>1 DEF Docs!Entry
    <3>4. "done_at" \in DOMAIN again.own <=> "done_at" \in DOMAIN stored.own
      BY <1>2, <3>3, MergedDone
    <3> QED BY <3>1, <3>2, <3>4
  <2>2. \A k \in DOMAIN again.own \ Docs!Bookkeeping : again.own[k] = stored.own[k]
    <3>1. Docs!Identity \cup {"version"} \subseteq Docs!Bookkeeping
      BY DEF Docs!Bookkeeping
    <3>2. \A k \in DOMAIN again.own : k \notin Docs!Bookkeeping =>
              again.own[k] = IF k \in DOMAIN stored.own /\ k \notin DOMAIN i.own
                             THEN stored.own[k] ELSE i.own[k]
      BY <3>1, MergedKeys
    <3>3. \A k \in DOMAIN i.own : k \notin Docs!Bookkeeping /\ k \in DOMAIN m.own =>
              stored.own[k] = i.own[k]
      BY <3>1, <1>2, MergedKeys
    <3> QED BY <2>1, <3>1, <3>2, <3>3, <1>2
  <2> QED BY <2>1, <2>2 DEF Docs!Without
<1>5. again.body = stored.body
  BY <1>2, MergedKeys
<1>6. Docs!Content(stored) = Docs!Content(again)
  BY <1>3, <1>4, <1>5 DEF Docs!Content
<1> QED BY <1>6 DEF Docs!Updated
=============================================================================
