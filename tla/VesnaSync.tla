------------------------------ MODULE VesnaSync ------------------------------
(***************************************************************************)
(* Note synchronisation between the server and the owner's devices.        *)
(*                                                                         *)
(* Each device runs at most one network operation at a time (_serialize);  *)
(* its local saves, the other devices, the server's own routes and agents  *)
(* and the network interleave with its steps.  A network operation may     *)
(* break off at any point (lost connection, killed app); an upload that    *)
(* reached the server by then is still processed, however late.            *)
(***************************************************************************)
EXTENDS SyncServer, SyncClient, FiniteSets

CONSTANTS
    InitialPaths,   \* notes the server and every device start with
    LegacyPaths,    \* those with an edit queued before base versions existed
    AgentPaths,     \* notes the server's own routes and agents change
    StalePaths,     \* those an agent may have read long before it writes them
    MaxFailures     \* network operations that may break off

ASSUME InitialPathsAssumption == InitialPaths \subseteq Paths
ASSUME LegacyPathsAssumption == LegacyPaths \subseteq InitialPaths
ASSUME MaxFailuresAssumption == MaxFailures \in Nat

VARIABLES
    net,          \* the network operation each device is in
    inbox,        \* uploads on their way to, or at, the server
    failures,     \* network operations that broke off so far
    used,         \* user decisions taken so far
    authored,     \* history: those that wrote into a note
    discarded,    \* history: edits the owner gave up by keeping the server's
    overwritten,  \* history: edits an agent wrote over, not having read them
    guessed       \* history: paths whose base was taken from the local version

netVars == <<net, inbox, failures>>
histVars == <<used, authored, discarded, overwritten, guessed>>
vars == <<serverVars, clientVars, netVars, histVars>>

DeltaType == [cursor : Nat, touched : SUBSET Paths, docs : [Paths -> Doc]]
Choices == {"mine", "server", "both"}

Operation ==
    [at : {"idle"}]
        \cup [at : {"listed"}, docs : [Paths -> Doc]]
        \cup [at : {"ready"}]
        \cup [at : {"sent"}, rows : [Paths -> Row]]
        \cup [at : {"pulling"}]
        \cup [at : {"pulled"}, delta : DeltaType]
        \cup [at : {"resolving"}, path : Paths, choice : Choices,
              edit : Edits, doc : Doc]

Idle == [at |-> "idle"]

\* An upload: the changes the server has not processed yet, the outcomes of
\* the others, and whether its device still waits for the response.  try
\* tells a retry from the upload it repeats.
Request == [dev : Devices, try : Nat, live : BOOLEAN, todo : SUBSET Change,
            replies : [Paths -> Reply]]

TypeOK ==
    /\ ServerTypeOK
    /\ ClientTypeOK
    /\ net \in [Devices -> Operation]
    /\ inbox \subseteq Request
    /\ failures \in Nat
    /\ used \subseteq Edits
    /\ authored \subseteq Edits
    /\ discarded \subseteq Edits
    /\ overwritten \subseteq Edits
    /\ guessed \subseteq Paths

\* push holds the bundle lock from its first change to its last.
InPush(r) == r.todo # {} /\ \E p \in Paths : r.replies[p] # NoReply
LockFree == \A r \in inbox : ~InPush(r)

\* Every device has downloaded the initial notes; a legacy path is being
\* edited on one device, whose row knows no base.
LegacyRow(e) == [state |-> "pendingUpdate", content |-> {e}, version |-> 2,
                 base |-> NoBase, conflictDeleted |-> FALSE]

Init ==
    /\ ServerInit(InitialPaths)
    /\ \E editor \in [LegacyPaths -> Devices], edit \in [LegacyPaths -> Edits] :
          /\ \A p, q \in LegacyPaths : edit[p] = edit[q] => p = q
          /\ mirror = [d \in Devices |-> [p \in Paths |->
                IF p \in LegacyPaths /\ editor[p] = d THEN LegacyRow(edit[p])
                ELSE SyncedRow(bundle[p])]]
          /\ used = {edit[p] : p \in LegacyPaths}
    /\ cursor = [d \in Devices |-> 0]
    /\ localTrash = [d \in Devices |-> {}]
    /\ net = [d \in Devices |-> Idle]
    /\ inbox = {}
    /\ failures = 0
    /\ authored = used
    /\ discarded = {}
    /\ overwritten = {}
    /\ guessed = {}

-----------------------------------------------------------------------------
(* The owner, on a device.                                                 *)

Decide(e) == e \notin used /\ used' = used \cup {e}
Author(e) == Decide(e) /\ authored' = authored \cup {e}

\* saveLocal and deleteLocal of a row that knows no base take its version for
\* it, though every edit since the download has raised that version.
Guess(d, p) ==
    guessed' = IF mirror[d][p].base = NoBase THEN guessed \cup {p} ELSE guessed

Visible(row) == row.state \notin {"absent", "pendingDelete"}

\* A path no document, row, upload or trash item has named: slugs of new notes
\* carry a hash of the time, and recovered copies the time itself.
Fresh(p) ==
    /\ journal[p].seq = 0
    /\ ~Present(p)
    /\ \A d \in Devices : /\ mirror[d][p].state = "absent"
                          /\ \A t \in localTrash[d] : t.path # p
    /\ \A r \in inbox : \A c \in r.todo : c.path # p

CaptureNote(d, p, e) ==
    /\ Fresh(p)
    /\ Author(e)
    /\ SaveLocal(d, p, {e}, 1)
    /\ UNCHANGED <<serverVars, netVars, discarded, overwritten, guessed>>

\* An edit of the note as the mirror has it: a pin, a task, the completion.
EditNote(d, p, e) ==
    /\ Visible(mirror[d][p])
    /\ Author(e)
    /\ SaveLocal(d, p, mirror[d][p].content \cup {e},
                 NextVersion(mirror[d][p], mirror[d][p].version))
    /\ Guess(d, p)
    /\ UNCHANGED <<serverVars, netVars, discarded, overwritten>>

DeleteNote(d, p, e) ==
    /\ Visible(mirror[d][p])
    /\ Decide(e)
    /\ DeleteLocal(d, p)
    /\ Guess(d, p)
    /\ UNCHANGED <<serverVars, netVars, authored, discarded, overwritten>>

-----------------------------------------------------------------------------
(* A device's network operations.                                          *)

MoveTo(d, op) == net' = [net EXCEPT ![d] = op]

\* bootstrap: ask for the catalogue.
StartBootstrap(d) ==
    /\ net[d] = Idle
    /\ LockFree
    /\ MoveTo(d, [at |-> "listed", docs |-> Listing])
    /\ UNCHANGED <<serverVars, clientVars, inbox, failures, histVars>>

\* bootstrap: merge the catalogue into the mirror, then flush.
MergeCatalogue(d) ==
    /\ net[d].at = "listed"
    /\ MergeListing(d, net[d].docs)
    /\ MoveTo(d, [at |-> "ready"])
    /\ UNCHANGED <<serverVars, inbox, failures, histVars>>

\* flush, as every local save starts it.
StartFlush(d) ==
    /\ net[d] = Idle
    /\ MoveTo(d, [at |-> "ready"])
    /\ UNCHANGED <<serverVars, clientVars, inbox, failures, histVars>>

Queue(d) == {p \in Paths : Uploadable(mirror[d][p])}

RequestOf(d) ==
    [dev |-> d, try |-> failures, live |-> TRUE,
     todo |-> {ChangeOf(p, mirror[d][p]) : p \in Queue(d)},
     replies |-> [p \in Paths |-> NoReply]]

\* _flush: read the queue and upload it.
SubmitQueue(d) ==
    /\ net[d].at = "ready"
    /\ Queue(d) # {}
    /\ MoveTo(d, [at |-> "sent", rows |-> [p \in Paths |->
          IF p \in Queue(d) THEN mirror[d][p] ELSE NoRow]])
    /\ inbox' = inbox \cup {RequestOf(d)}
    /\ UNCHANGED <<serverVars, clientVars, failures, histVars>>

SubmitNothing(d) ==
    /\ net[d].at = "ready"
    /\ Queue(d) = {}
    /\ MoveTo(d, [at |-> "pulling"])
    /\ UNCHANGED <<serverVars, clientVars, inbox, failures, histVars>>

\* SyncService.push processes change c of upload r.  The response waits for
\* the device, unless the device has given up on it.
ServeChange(r, c) ==
    /\ r \in inbox
    /\ c \in r.todo
    /\ \A other \in inbox \ {r} : ~InPush(other)
    /\ \E reply \in {Refused} \cup {Applied(v) : v \in 0..(bundle[c.path].version + 1)} :
          /\ PushChange(c, reply)
          /\ inbox' = (inbox \ {r}) \cup
                {served \in {[r EXCEPT !.todo = @ \ {c}, !.replies[c.path] = reply]} :
                    served.live \/ served.todo # {}}
    /\ UNCHANGED <<clientVars, net, failures, histVars>>

\* _flush: apply the response in one transaction, then pull.
ApplyResponse(d, r) ==
    /\ net[d].at = "sent"
    /\ r \in inbox
    /\ r.dev = d /\ r.live /\ r.todo = {}
    /\ ApplyAnswers(d, net[d].rows, r.replies)
    /\ inbox' = inbox \ {r}
    /\ MoveTo(d, [at |-> "pulling"])
    /\ UNCHANGED <<serverVars, failures, histVars>>

PullChanges(d) ==
    /\ net[d].at = "pulling"
    /\ LockFree
    /\ MoveTo(d, [at |-> "pulled", delta |-> Delta(cursor[d])])
    /\ UNCHANGED <<serverVars, clientVars, inbox, failures, histVars>>

ApplyPulled(d) ==
    /\ net[d].at = "pulled"
    /\ ApplyDelta(d, net[d].delta)
    /\ MoveTo(d, Idle)
    /\ UNCHANGED <<serverVars, inbox, failures, histVars>>

\* The operation breaks off.  Its upload may have been lost on the way, or
\* stay with the server without anyone waiting for its response.
BreakOff(d) ==
    /\ net[d] # Idle
    /\ failures < MaxFailures
    /\ failures' = failures + 1
    /\ MoveTo(d, Idle)
    /\ LET mine == {r \in inbox : r.dev = d /\ r.live}
       IN  \/ /\ \A r \in mine : ~InPush(r)
              /\ inbox' = inbox \ mine
           \/ /\ \E r \in mine : r.todo # {}
              /\ inbox' = (inbox \ mine) \cup {[r EXCEPT !.live = FALSE] : r \in mine}
    /\ UNCHANGED <<serverVars, clientVars, histVars>>

-----------------------------------------------------------------------------
(* Resolving a conflict.                                                   *)

\* The owner chooses in the dialog of a conflict and the server's current
\* note is fetched.
StartResolve(d, p, choice, e) ==
    /\ net[d] = Idle
    /\ mirror[d][p].state = "conflict"
    /\ LockFree
    /\ Decide(e)
    /\ MoveTo(d, [at |-> "resolving", path |-> p, choice |-> choice, edit |-> e,
                  doc |-> bundle[p]])
    /\ UNCHANGED <<serverVars, clientVars, inbox, failures, authored, discarded,
                   overwritten, guessed>>

KeepMine(d) ==
    /\ net[d].at = "resolving" /\ net[d].choice = "mine"
    /\ mirror' = [mirror EXCEPT ![d][net[d].path] = MineRow(@, net[d].doc, net[d].edit)]
    /\ MoveTo(d, Idle)
    /\ UNCHANGED <<serverVars, cursor, localTrash, inbox, failures, histVars>>

KeepServer(d) ==
    /\ net[d].at = "resolving" /\ net[d].choice = "server"
    /\ mirror' = [mirror EXCEPT ![d][net[d].path] = SyncedRow(net[d].doc)]
    /\ discarded' = discarded \cup mirror[d][net[d].path].content
    /\ MoveTo(d, Idle)
    /\ UNCHANGED <<serverVars, cursor, localTrash, inbox, failures, used, authored, overwritten,
                   guessed>>

KeepBoth(d, copy) ==
    /\ net[d].at = "resolving" /\ net[d].choice = "both"
    /\ Fresh(copy)
    /\ mirror' = [mirror EXCEPT ![d][copy] = RecoveredRow(mirror[d][net[d].path]),
                                ![d][net[d].path] = SyncedRow(net[d].doc)]
    /\ MoveTo(d, Idle)
    /\ UNCHANGED <<serverVars, cursor, localTrash, inbox, failures, histVars>>

-----------------------------------------------------------------------------
(* The server's own routes and agents.                                     *)

\* What an agent may know of p: the note of now or, the more time it takes
\* between its read and its write, any document p had before.
Readable(p) ==
    {doc \in published : /\ doc.path = p
                         /\ p \in StalePaths \/ doc = SavedDocOf(p, bundle[p])}

WritesOver(known) ==
    overwritten' = overwritten \cup (bundle[known.path].content \ known.content)

ServerEdit(known, e) ==
    /\ known.path \in AgentPaths
    /\ LockFree
    /\ Author(e)
    /\ ServiceUpdate(known, e)
    /\ WritesOver(known)
    /\ UNCHANGED <<clientVars, netVars, discarded, guessed>>

\* What is added is an edit (a link, an attachment), or a stamp or a cache that
\* every later upload is merged with and no comparison shows.
ServerWritesBack(known, added, e) ==
    /\ known.path \in AgentPaths \cap StalePaths
    /\ LockFree
    /\ Decide(e)
    /\ added \subseteq {e}
    /\ authored' = authored \cup added
    /\ WriteBack(known, added)
    /\ WritesOver(known)
    /\ UNCHANGED <<clientVars, netVars, discarded, guessed>>

ServerDelete(p, e) ==
    /\ p \in AgentPaths
    /\ LockFree
    /\ Decide(e)
    /\ ServiceDelete(p)
    /\ UNCHANGED <<clientVars, netVars, authored, discarded, overwritten, guessed>>

ServerRestore(t) ==
    /\ t.path \in AgentPaths
    /\ LockFree
    /\ RestoreFromTrash(t)
    /\ UNCHANGED <<clientVars, netVars, histVars>>

-----------------------------------------------------------------------------
DeviceStep(d) ==
    \/ StartBootstrap(d)
    \/ MergeCatalogue(d)
    \/ StartFlush(d)
    \/ SubmitQueue(d)
    \/ SubmitNothing(d)
    \/ \E r \in inbox : ApplyResponse(d, r)
    \/ PullChanges(d)
    \/ ApplyPulled(d)
    \/ BreakOff(d)

OwnerStep(d) ==
    \/ \E p \in Paths, e \in Edits :
          CaptureNote(d, p, e) \/ EditNote(d, p, e) \/ DeleteNote(d, p, e)
    \/ \E p \in Paths, choice \in Choices, e \in Edits : StartResolve(d, p, choice, e)
    \/ KeepMine(d)
    \/ KeepServer(d)
    \/ \E p \in Paths : KeepBoth(d, p)

AgentWrites ==
    \E p \in Paths, e \in Edits : \E known \in Readable(p) :
        \/ ServerEdit(known, e)
        \/ \E added \in {{}, {e}} : ServerWritesBack(known, added, e)

ServerStep ==
    \/ \E r \in inbox : \E c \in r.todo : ServeChange(r, c)
    \/ AgentWrites
    \/ \E p \in Paths, e \in Edits : ServerDelete(p, e)
    \/ \E t \in trash : ServerRestore(t)

Next ==
    \/ \E d \in Devices : DeviceStep(d) \/ OwnerStep(d)
    \/ ServerStep

Spec == Init /\ [][Next]_vars

\* The app syncs again and again (start, resume, retry, background poll), an
\* operation that does not break off goes on to its end, and the server
\* processes what it received.  The owner and the agents owe nothing.
Fairness ==
    /\ \A d \in Devices :
          /\ WF_vars(StartBootstrap(d) \/ StartFlush(d))
          /\ WF_vars(MergeCatalogue(d))
          /\ WF_vars(SubmitQueue(d) \/ SubmitNothing(d))
          /\ WF_vars(\E r \in inbox : ApplyResponse(d, r))
          /\ WF_vars(PullChanges(d))
          /\ WF_vars(ApplyPulled(d))
          /\ WF_vars(KeepMine(d) \/ KeepServer(d) \/ \E p \in Paths : KeepBoth(d, p))
    /\ WF_vars(\E r \in inbox : \E c \in r.todo : ServeChange(r, c))

FairSpec == Spec /\ Fairness

-----------------------------------------------------------------------------
(* Safety.                                                                 *)

\* p was deleted and written anew, or written back under an old version, so a
\* version no longer names one document.
Reused(p) ==
    \E a, b \in published : /\ a.path = p /\ b.path = p
                           /\ a.version = b.version /\ a.content # b.content

\* "No unsent edit should be labelled safely synced" (UPGRADE_PLAN.md): a row
\* marked synced is a document the server has had under that very version,
\* whatever was edited on the device while its upload was in flight.
SyncedIsPublished ==
    \A d \in Devices, p \in Paths :
        mirror[d][p].state = "synced" =>
            [path |-> p, content |-> mirror[d][p].content,
             version |-> mirror[d][p].version] \in published

\* The base a device will upload against names a server document the edit
\* grew from, through lost responses, edits during an upload and resolutions.
Grounded(p, base, content) ==
    base > 0 => \E doc \in published :
                   doc.path = p /\ doc.version = base /\ doc.content \subseteq content

BaseIsGrounded ==
    /\ \A d \in Devices, p \in Paths \ guessed :
          mirror[d][p].state # "absent" =>
              Grounded(p, mirror[d][p].base, mirror[d][p].content)
    /\ \A r \in inbox : \A c \in r.todo :
          c.path \notin guessed => Grounded(c.path, c.base, c.content)

\* The journal and the cursor miss nothing: once a device's cursor has passed
\* the last change of a path, its unedited row is the server's note.
CaughtUpMirrors ==
    \A d \in Devices, p \in Paths :
        journal[p].seq <= cursor[d] /\ ~IsPending(mirror[d][p]) =>
            mirror[d][p] = SyncedRow(bundle[p])

\* Where an edit no longer depends on an upload: in a note, in a recovery copy
\* or in a trash; or the owner chose the server's note over it, or an agent
\* wrote over it what it had read before.
Safe(e) ==
    \/ \E p \in Paths : e \in bundle[p].content
    \/ \E doc \in kept \cup trash : e \in doc.content
    \/ \E d \in Devices : \E doc \in localTrash[d] : e \in doc.content
    \/ e \in discarded \cup overwritten

\* Where an edit survives: there, or queued on a device.
Survives(e) ==
    \/ \E d \in Devices, p \in Paths :
          IsPending(mirror[d][p]) /\ e \in mirror[d][p].content
    \/ Safe(e)

\* No edit is lost to a device or to an upload: every edit that was ever saved
\* survives somewhere it can be recovered from, but for those an agent wrote
\* over itself, as long as no version names two documents (of a path deleted and
\* written anew, or given a link under its old version) and no base was guessed.
VersionsName == \A p \in Paths : p \notin guessed /\ ~Reused(p)

EditsNeverLost == VersionsName => \A e \in authored : Survives(e)

\* But for an agent's own write, no step replaces a note by one that was not
\* built on it, unless it is kept as a recovery copy: two devices with the same
\* base never silently overwrite.
Overwrites(p) ==
    /\ Present(p) /\ bundle'[p].version > 0
    /\ ~(bundle[p].content \subseteq bundle'[p].content)
    /\ [path |-> p, content |-> bundle[p].content] \notin kept'

NoSilentOverwrite ==
    [][(\A p \in Paths \ guessed : Overwrites(p) => Reused(p)') \/ AgentWrites]_vars

\* The same without the exception: "a stale edit of a deleted path is rejected"
\* and two devices on one base "never silently overwrite".
NeverSilentlyOverwrites == [][\A p \in Paths : ~Overwrites(p)]_vars

-----------------------------------------------------------------------------
(* The inductive invariant behind SyncedIsPublished, BaseIsGrounded and      *)
(* NoSilentOverwrite (see VesnaSync_proofs).                                 *)

CurrentIsPublished == \A p \in Paths : Present(p) => SavedDocOf(p, bundle[p]) \in published

Fetched(p, doc) == doc.version > 0 => SavedDocOf(p, doc) \in published

FetchedIsPublished ==
    \A d \in Devices :
        /\ net[d].at = "listed" => \A p \in Paths : Fetched(p, net[d].docs[p])
        /\ net[d].at = "pulled" => \A p \in Paths : Fetched(p, net[d].delta.docs[p])
        /\ net[d].at = "resolving" => Fetched(net[d].path, net[d].doc)

\* An acknowledged change of row is a document the server had, or a deletion.
Answered(p, row, reply) ==
    reply.kind = "applied" =>
        IF row.state = "pendingDelete" THEN reply.version = 0
        ELSE SavedDocOf(p, [content |-> row.content, version |-> reply.version]) \in published

\* The upload a device waits for carries the rows it submitted, and what the
\* response acknowledges was published.
UploadIsTracked ==
    \A r \in inbox : r.live =>
        /\ net[r.dev].at = "sent"
        /\ \A c \in r.todo : c = ChangeOf(c.path, net[r.dev].rows[c.path])
        /\ \A p \in Paths : Answered(p, net[r.dev].rows[p], r.replies[p])

OneUpload ==
    \A r, s \in inbox : r.live /\ s.live /\ r.dev = s.dev => r = s

\* Whatever the owner does while an upload is in flight, the submitted rows
\* stay queued and are only built upon.
SubmittedIsKept ==
    \A d \in Devices : net[d].at = "sent" =>
        \A p \in Paths : net[d].rows[p].state # "absent" =>
            /\ Uploadable(net[d].rows[p])
            /\ IsPending(mirror[d][p])
            /\ net[d].rows[p].content \subseteq mirror[d][p].content

UploadInvariant ==
    /\ TypeOK
    /\ CurrentIsPublished
    /\ FetchedIsPublished
    /\ UploadIsTracked
    /\ OneUpload
    /\ SubmittedIsKept
    /\ BaseIsGrounded
    /\ SyncedIsPublished

-----------------------------------------------------------------------------
(* The inductive invariant behind EditsNeverLost: what was ever published is *)
(* safe, and so is what a deletion takes with it.                           *)

EmptyDoc(doc) == doc.version = 0 => doc.content = {}

\* A row whose upload, acknowledged, leaves nothing behind.
Deleting(row) == row.state = "pendingDelete" \/ row.conflictDeleted

Resolving(d) == net[d].at = "resolving"

PublishedIsSafe ==
    \A doc \in published : \A e \in doc.content \cap authored : Safe(e)

DeletionsAreSafe ==
    \A d \in Devices, p \in Paths : Deleting(mirror[d][p]) =>
        \A e \in mirror[d][p].content \cap authored : Safe(e)

\* The decision of a resolution is no edit, and its row is still queued.
ResolutionIsOpen ==
    \A d \in Devices : Resolving(d) =>
        /\ IsPending(mirror[d][net[d].path])
        /\ net[d].edit \in used \ authored
        /\ EmptyDoc(net[d].doc)

\* Nobody has seen a decision that was not taken.
TakenOnly ==
    /\ authored \subseteq used
    /\ \A doc \in published \cup trash : doc.content \subseteq used
    /\ \A d \in Devices, p \in Paths : mirror[d][p].content \subseteq used
    /\ \A r \in inbox : \A c \in r.todo : c.content \subseteq used

EditsInvariant ==
    /\ \A p \in Paths : EmptyDoc(bundle[p])
    /\ TakenOnly
    /\ ResolutionIsOpen
    /\ VersionsName => PublishedIsSafe /\ DeletionsAreSafe
    /\ EditsNeverLost

-----------------------------------------------------------------------------
(* The inductive invariant behind CaughtUpMirrors: whatever a device still   *)
(* holds of a path it is caught up with is the server's note of now.        *)

CaughtUp(d, p) == journal[p].seq <= cursor[d]

Shows(doc, p) == SyncedRow(doc) = SyncedRow(bundle[p])

JournalCounts ==
    /\ \A d \in Devices : cursor[d] <= seq
    /\ \A p \in Paths :
          /\ journal[p].seq <= seq
          /\ journal[p].seq > 0 => (journal[p].deleted <=> ~Present(p))

\* A pull brings every path up to the cursor it brings.
DeltaIsComplete(d, delta) ==
    /\ cursor[d] <= delta.cursor /\ delta.cursor <= seq
    /\ \A p \in Paths : journal[p].seq <= delta.cursor =>
          IF p \in delta.touched THEN Shows(delta.docs[p], p) ELSE CaughtUp(d, p)

FetchedIsCurrent ==
    \A d \in Devices :
        /\ net[d].at = "listed" =>
              \A p \in Paths : CaughtUp(d, p) => Shows(net[d].docs[p], p)
        /\ net[d].at = "pulled" => DeltaIsComplete(d, net[d].delta)
        /\ net[d].at = "resolving" =>
              (CaughtUp(d, net[d].path) => Shows(net[d].doc, net[d].path))

\* The note an acknowledgement speaks of, if the device is caught up with it.
AnswerIsCurrent ==
    \A r \in inbox, p \in Paths :
        r.live /\ r.replies[p].kind = "applied" /\ CaughtUp(r.dev, p) =>
            IF net[r.dev].rows[p].state = "pendingDelete" THEN ~Present(p)
            ELSE /\ Present(p)
                 /\ bundle[p] = [content |-> net[r.dev].rows[p].content,
                                 version |-> r.replies[p].version]

\* Rows under way stay uploads, and only a conflict remembers a deletion.
RowsInPlace ==
    \A d \in Devices, p \in Paths :
        /\ mirror[d][p].conflictDeleted => mirror[d][p].state \in {"conflict", "pendingDelete"}
        /\ net[d].at = "sent" =>
              (net[d].rows[p].state # "absent" => Uploadable(mirror[d][p]))

PullInvariant ==
    /\ JournalCounts
    /\ FetchedIsCurrent
    /\ AnswerIsCurrent
    /\ RowsInPlace
    /\ CaughtUpMirrors

-----------------------------------------------------------------------------
(* Liveness.                                                               *)

\* A queued change is not retried forever: it is acknowledged or surfaces as a
\* conflict for the owner, whatever broke off and was edited meanwhile.
UploadsSettle ==
    \A d \in Devices, p \in Paths :
        Uploadable(mirror[d][p]) ~> ~Uploadable(mirror[d][p])

\* Once the edits cease, every device ends up showing the server's notes, but
\* for the conflicts it leaves to the owner.
DevicesConverge ==
    <>[](\A d \in Devices, p \in Paths :
            ~IsPending(mirror[d][p]) => mirror[d][p] = SyncedRow(bundle[p]))
=============================================================================
