---------------------------- MODULE NoteWriters -----------------------------
(***************************************************************************)
(* The server's own writers of the note bundle, next to the owner's        *)
(* requests: the illustration job and the enrichment a chat or a request   *)
(* asks for, the Marena review, and the tools and routes that read a note, *)
(* change it and write it back whole.                                      *)
(*                                                                         *)
(* A single write, and everything BundleStore's observers do with it, runs *)
(* under the bundle lock, as do update, create, delete, restore and an     *)
(* upload.  Reading a note and writing it back are two lock sections, so   *)
(* other threads run in between.  The search index is left out: none of    *)
(* these operations reads it.                                              *)
(***************************************************************************)
EXTENDS Naturals, FiniteSets

CONSTANTS
    Notes,          \* paths of the owner's notes
    NoPath,
    MaxTexts,       \* accepted edits
    MaxDeletes, MaxImages, MaxRestarts,
    MaxCalls        \* chat tools and requests that write notes back, or ask for an image

ASSUME NoPathAssumption == NoPath \notin Notes
ASSUME NotesAssumption == Notes \cap (1..MaxImages) = {}
ASSUME BoundsAssumption ==
    {MaxTexts, MaxDeletes, MaxImages, MaxRestarts, MaxCalls} \subseteq Nat

VARIABLES
    disk,       \* the bundle's notes
    files,      \* the bundle's attachments, by content (0 is none)
    trash,      \* recovery snapshots
    known,      \* a note as it was when it got its version: devices may have that
    inflight,   \* notes whose illustration is queued or being drawn
    artist,     \* the illustration job, and an enrichment asked for
    critic,     \* a Marena review
    tool,       \* a tool or route between its read and its write
    texts, deletes, calls, restarts,   \* bounded counters
    drawn,      \* images notes created so far
    read,       \* history: texts a review has read
    mixed,      \* history: notes a stale write-back hit, created again, or put
                \* back as they were before their last version
    extra       \* history: images not drawn by the job: asked for, or brought back

owner == <<known, texts>>
tasks == <<inflight, artist, critic, tool>>
counts == <<texts, deletes, calls, restarts, drawn>>
history == <<read, mixed, extra>>
vars == <<disk, files, trash, known, tasks, counts, history>>

Images == 1..MaxImages
Paths == Notes \cup Images
Artists == {"job", "tool"}
UploadOf(n) == <<"upload", n>>
PictureOf(n) == <<"picture", n>>
Media == {UploadOf(n) : n \in Notes} \cup {PictureOf(n) : n \in Notes}

\* reviewed is Marena's stamp, source the note an image was drawn for, back
\* the snapshot a note was restored from.
Doc == [text : 0..MaxTexts, version : Nat, reviewed : Nat, links : SUBSET Images,
        media : SUBSET Media, source : Notes \cup {NoPath}, back : 0..MaxDeletes]
NoDoc == [text |-> 0, version |-> 0, reviewed |-> 0, links |-> {}, media |-> {},
          source |-> NoPath, back |-> 0]

Exists(p) == disk[p].version > 0
Resting == [pc |-> "idle", note |-> NoPath, image |-> 0, doc |-> NoDoc]
Unread == [pc |-> "idle", note |-> NoPath, version |-> 0, doc |-> NoDoc]
Unheld == [pc |-> "idle", path |-> NoPath, doc |-> NoDoc]

TypeOK ==
    /\ disk \in [Paths -> Doc] /\ known \in [Notes -> Doc]
    /\ files \in [Media -> 0..2]
    /\ \A s \in trash : s.id \in 1..deletes /\ DOMAIN s.docs \subseteq Paths
    /\ inflight \subseteq Notes
    /\ \A a \in Artists : artist[a].pc \in {"idle", "drawing", "saved", "linking", "linked"}
    /\ critic.pc \in {"idle", "reading", "stamping"}
    /\ tool.pc \in {"idle", "uploaded", "attach", "keep"}
    /\ artist["job"].pc # "idle" => artist["job"].note \in inflight
    /\ drawn \in 0..MaxImages /\ mixed \subseteq Notes

Init ==
    /\ disk = [p \in Paths |-> NoDoc] /\ known = [n \in Notes |-> NoDoc]
    /\ files = [m \in Media |-> 0]
    /\ trash = {} /\ inflight = {}
    /\ artist = [a \in Artists |-> Resting] /\ critic = Unread /\ tool = Unheld
    /\ texts = 0 /\ deletes = 0 /\ calls = 0 /\ restarts = 0
    /\ drawn = 0 /\ read = {} /\ mixed = {} /\ extra = 0

-----------------------------------------------------------------------------
(* What a write leads to.                                                  *)

\* Faulty variant: the images a note links to.
LinkedChildren(p, d) == {c \in IF p \in Paths THEN d[p].links ELSE {} : d[c].version > 0}

\* Generated images of a note.
Children(p, d) == {c \in Images : d[c].version > 0 /\ d[c].source = p}

\* _should_illustrate: a note without attachments and without an image.
ShouldIllustrate(d, n) ==
    d[n].version > 0 /\ d[n].media = {} /\ Children(n, d) = {}

\* The observer schedules an illustration for a note's first version only.
Scheduled(d, p) ==
    {n \in {p} \cap Notes : d[n].version = 1 /\ ShouldIllustrate(d, n)}

\* write_concept with its observers.
Write(p, doc) ==
    /\ disk' = [disk EXCEPT ![p] = doc]
    /\ inflight' = inflight \cup Scheduled(disk', p)

\* A note read before somebody else changed it is written back.
Stale(p, doc) == disk[p] # doc

-----------------------------------------------------------------------------
(* The owner's requests; each holds the lock throughout.                   *)

\* A new path is uploaded or created.  A device that had the note before may
\* upload it again, with the metadata it had.
Create(n, old) ==
    /\ ~Exists(n) /\ texts < MaxTexts
    /\ old = NoDoc \/ \E s \in trash : n \in DOMAIN s.docs /\ old = s.docs[n]
    /\ Write(n, [old EXCEPT !.text = texts + 1, !.version = 1])
    /\ known' = [known EXCEPT ![n] = disk'[n]]
    /\ texts' = texts + 1
    /\ mixed' = IF deletes > 0 THEN mixed \cup {n} ELSE mixed
    /\ UNCHANGED <<files, trash, artist, critic, tool, deletes, calls, restarts,
                   drawn, read, extra>>

\* An accepted update gets the next version.  An upload brings the metadata
\* its device has: as of now, or as of when the note got its version.
Edit(n, had) ==
    /\ Exists(n) /\ texts < MaxTexts
    /\ had \in {disk[n], known[n]} /\ had.version = disk[n].version
    /\ Write(n, [had EXCEPT !.text = texts + 1, !.version = @ + 1,
                     !.reviewed = IF @ = 0 THEN disk[n].reviewed ELSE @,
                     !.back = IF @ = 0 THEN disk[n].back ELSE @])
    /\ known' = [known EXCEPT ![n] = disk'[n]]
    /\ texts' = texts + 1
    /\ UNCHANGED <<files, trash, artist, critic, tool, deletes, calls, restarts,
                   drawn, history>>

MediaOf(ps, d) == UNION {d[q].media : q \in {q \in ps : d[q].version > 0}}

\* Attachments of deleted notes that no note left refers to.
Freed(gone, after) == MediaOf(gone, disk) \ MediaOf(Paths, after)

\* A note goes with its images, after a snapshot of all of them and of their
\* attachments.  Nothing is kept of the images of a note that is gone already.
Delete(p) ==
    LET gone == {q \in {p} \cup Children(p, disk) : Exists(q)}
        kept == {m \in MediaOf(gone, disk) : files[m] # 0}
    IN
    /\ gone # {} /\ deletes < MaxDeletes
    /\ deletes' = deletes + 1
    /\ disk' = [q \in Paths |-> IF q \in gone THEN NoDoc ELSE disk[q]]
    /\ files' = [m \in Media |-> IF m \in Freed(gone, disk') THEN 0 ELSE files[m]]
    /\ trash' = IF Exists(p)
                THEN trash \cup {[id |-> deletes', docs |-> [q \in gone |-> disk[q]],
                                  files |-> [m \in kept |-> files[m]]]}
                ELSE trash
    /\ UNCHANGED <<owner, tasks, calls, restarts, drawn, history>>

\* Faulty variant: a path that is taken is passed over.
RestorableOver(s) == \A m \in DOMAIN s.files : files[m] \in {0, s.files[m]}

\* Preflight of a restore: every path is free, or holds what this restore
\* already wrote, and every attachment is missing or the same.
Restorable(s) ==
    /\ \A q \in DOMAIN s.docs : ~Exists(q) \/ disk[q].back = s.id
    /\ \A m \in DOMAIN s.files : files[m] \in {0, s.files[m]}

\* The missing ones of some of a snapshot's notes are written, as new versions.
PutBack(s, some) ==
    LET new == {q \in some : ~Exists(q)} IN
    /\ disk' = [q \in Paths |-> IF q \in new
                    THEN [s.docs[q] EXCEPT !.version = @ + 1, !.back = s.id] ELSE disk[q]]
    /\ files' = [m \in Media |-> IF m \in DOMAIN s.files THEN s.files[m] ELSE files[m]]
    /\ known' = [n \in Notes |-> IF n \in new THEN disk'[n] ELSE known[n]]
    /\ mixed' = mixed \cup {n \in new \cap Notes : s.docs[n].version < known[n].version}
    /\ extra' = extra + Cardinality(new \cap Images)

Restore(s) ==
    /\ s \in trash /\ Restorable(s)
    /\ PutBack(s, DOMAIN s.docs)
    /\ trash' = trash \ {s}
    /\ UNCHANGED <<tasks, counts, read>>

-----------------------------------------------------------------------------
(* Drawing an image for a note: the job, one at a time, or an enrichment   *)
(* that was asked for.                                                     *)

Free(a) == artist[a] = Resting

\* Faulty variant: an enrichment that ends takes the note off the queue too.
EndsForAll(a) ==
    /\ artist' = [artist EXCEPT ![a] = Resting]
    /\ inflight' = inflight \ {artist[a].note}

\* A task ends, drawn or failed; the job's note is queued no more.
Ends(a) ==
    /\ artist' = [artist EXCEPT ![a] = Resting]
    /\ inflight' = IF a = "job" THEN inflight \ {artist[a].note} ELSE inflight

Moves(a, pc) == artist' = [artist EXCEPT ![a].pc = pc]

\* Room for one more image in the bounded instance.
MayDraw == drawn + Cardinality({a \in Artists : artist[a].pc \in {"drawing", "saved"}}) < MaxImages

\* enrich_idea: a note that has an image keeps it, one that is gone fails.
ShouldDraw(n) == Exists(n) /\ Children(n, disk) = {}

\* The job of a queued note begins.
JobStarts(n) ==
    /\ n \in inflight /\ Free("job") /\ MayDraw
    /\ IF ShouldDraw(n)
       THEN /\ artist' = [artist EXCEPT !["job"].pc = "drawing", !["job"].note = n]
            /\ UNCHANGED inflight
       ELSE inflight' = inflight \ {n} /\ UNCHANGED artist
    /\ UNCHANGED <<disk, files, trash, known, critic, tool, counts, history>>

\* A chat tool or POST /enrich asks for an image; nobody looks at the queue.
ToolAsks(n) ==
    /\ calls < MaxCalls /\ Free("tool") /\ MayDraw /\ ShouldDraw(n)
    /\ artist' = [artist EXCEPT !["tool"].pc = "drawing", !["tool"].note = n]
    /\ calls' = calls + 1 /\ extra' = extra + 1
    /\ UNCHANGED <<disk, files, trash, known, inflight, critic, tool, texts, deletes,
                   restarts, drawn, read, mixed>>

\* The image is drawn; its file is named after the note.
Draw(a, b) ==
    /\ artist[a].pc = "drawing" /\ Moves(a, "saved")
    /\ files' = [files EXCEPT ![PictureOf(artist[a].note)] = b]
    /\ UNCHANGED <<disk, trash, known, inflight, critic, tool, counts, history>>

DrawFails(a) ==
    /\ artist[a].pc = "drawing" /\ Ends(a)
    /\ UNCHANGED <<disk, files, trash, known, critic, tool, counts, history>>

\* The image note is created, whatever has become of the note.
CreateImage(a) ==
    LET n == artist[a].note c == drawn + 1 IN
    /\ artist[a].pc = "saved"
    /\ artist' = [artist EXCEPT ![a].pc = "linking", ![a].image = c]
    /\ Write(c, [NoDoc EXCEPT !.version = 1, !.media = {PictureOf(n)}, !.source = n])
    /\ drawn' = c
    /\ UNCHANGED <<files, trash, known, critic, tool, texts, deletes, calls, restarts,
                   history>>

\* _link_back reads the note ...
LinkReads(a) ==
    LET n == artist[a].note IN
    /\ artist[a].pc = "linking"
    /\ IF Exists(n) /\ artist[a].image \notin disk[n].links
       THEN /\ artist' = [artist EXCEPT ![a].pc = "linked", ![a].doc = disk[n]]
            /\ UNCHANGED inflight
       ELSE Ends(a)
    /\ UNCHANGED <<disk, files, trash, known, critic, tool, counts, history>>

\* ... and writes it back with the link.  The job's note leaves the queue after
\* the write, whose observer may still have found it there.
LinkWrites(a) ==
    LET n == artist[a].note IN
    /\ artist[a].pc = "linked"
    /\ disk' = [disk EXCEPT ![n] = [artist[a].doc EXCEPT !.links = @ \cup {artist[a].image}]]
    /\ artist' = [artist EXCEPT ![a] = Resting]
    /\ inflight' = (inflight \cup Scheduled(disk', n)) \ (IF a = "job" THEN {n} ELSE {})
    /\ mixed' = IF Stale(n, artist[a].doc) THEN mixed \cup {n} ELSE mixed
    /\ UNCHANGED <<files, trash, known, critic, tool, counts, read, extra>>

-----------------------------------------------------------------------------
(* The Marena review.                                                      *)

\* Notes that are new or changed since their last review.
Candidate(n) == Exists(n) /\ disk[n].reviewed < disk[n].version

ReviewStarts(n) ==
    /\ critic = Unread /\ Candidate(n)
    /\ critic' = [Unread EXCEPT !.pc = "reading", !.note = n, !.version = disk[n].version]
    /\ read' = read \cup {disk[n].text}
    /\ UNCHANGED <<disk, files, trash, known, inflight, artist, tool, counts, mixed, extra>>

\* The model fails, or the note is gone: the note is left for the next run.
ReviewFails ==
    /\ \/ critic.pc = "reading"
       \/ critic.pc = "stamping" /\ ~Exists(critic.note)
    /\ critic' = Unread
    /\ UNCHANGED <<disk, files, trash, known, inflight, artist, tool, counts, history>>

\* _stamp_reviewed reads the note again ...
StampReads ==
    /\ critic.pc = "reading" /\ Exists(critic.note)
    /\ critic' = [critic EXCEPT !.pc = "stamping", !.doc = disk[critic.note]]
    /\ UNCHANGED <<disk, files, trash, known, inflight, artist, tool, counts, history>>

\* Faulty variant: the version of the note as it is now.
VersionNow == critic.doc.version

\* The stamp is the version the review read.
StampVersion == critic.version

\* ... and writes it back with the stamp.
StampWrites ==
    LET n == critic.note IN
    /\ critic.pc = "stamping"
    /\ Write(n, [critic.doc EXCEPT !.reviewed = StampVersion])
    /\ mixed' = IF Stale(n, critic.doc) THEN mixed \cup {n} ELSE mixed
    /\ critic' = Unread
    /\ UNCHANGED <<files, trash, known, artist, tool, counts, read, extra>>

-----------------------------------------------------------------------------
(* Tools and routes that read a note and write it back: a file attached to *)
(* it, its extracts cached, a marker set.                                  *)

\* The file is saved first, whether or not the note is there.
Upload(n) ==
    /\ tool = Unheld /\ calls < MaxCalls
    /\ files' = [files EXCEPT ![UploadOf(n)] = 1]
    /\ tool' = [Unheld EXCEPT !.pc = "uploaded", !.path = n]
    /\ calls' = calls + 1
    /\ UNCHANGED <<disk, trash, owner, inflight, artist, critic, deletes, restarts, drawn,
                   history>>

AttachReads ==
    LET n == tool.path IN
    /\ tool.pc = "uploaded"
    /\ tool' = IF Exists(n) /\ UploadOf(n) \notin disk[n].media
               THEN [tool EXCEPT !.pc = "attach", !.doc = disk[n]] ELSE Unheld
    /\ UNCHANGED <<disk, files, trash, known, inflight, artist, critic, counts, history>>

ToolReads(n) ==
    /\ tool = Unheld /\ calls < MaxCalls /\ Exists(n)
    /\ tool' = [pc |-> "keep", path |-> n, doc |-> disk[n]]
    /\ calls' = calls + 1
    /\ UNCHANGED <<disk, files, trash, owner, inflight, artist, critic, deletes, restarts,
                   drawn, history>>

\* Whatever the note is by now, it becomes what was read, with the change.
ToolWrites ==
    LET n == tool.path IN
    /\ tool.pc \in {"attach", "keep"}
    /\ Write(n, [tool.doc EXCEPT !.media = IF tool.pc = "attach" THEN @ \cup {UploadOf(n)} ELSE @])
    /\ mixed' = IF Stale(n, tool.doc) THEN mixed \cup {n} ELSE mixed
    /\ tool' = Unheld
    /\ UNCHANGED <<files, trash, known, artist, critic, counts, read, extra>>

-----------------------------------------------------------------------------
(* The server stops and starts: tasks are gone, and every note that still  *)
(* lacks its image is queued, whatever its version.                        *)

Stopped ==
    /\ restarts < MaxRestarts
    /\ restarts' = restarts + 1
    /\ artist' = [a \in Artists |-> Resting] /\ critic' = Unread /\ tool' = Unheld
    /\ inflight' = {n \in Notes : ShouldIllustrate(disk', n)}

Restart ==
    /\ UNCHANGED <<disk, files, trash, owner, deletes, calls, drawn, history>>
    /\ Stopped

\* It stops in the middle of a restore, after some of the notes.
RestoreBreaksOff(s, some) ==
    /\ s \in trash /\ Restorable(s) /\ some \subseteq DOMAIN s.docs
    /\ PutBack(s, some)
    /\ Stopped
    /\ UNCHANGED <<trash, texts, deletes, calls, drawn, read>>

Requests ==
    \/ \E n \in Notes : \/ \E old \in {NoDoc} \cup {s.docs[n] : s \in {t \in trash : n \in DOMAIN t.docs}} :
                             Create(n, old)
                        \/ \E had \in {disk[n], known[n]} : Edit(n, had)
    \/ \E p \in Paths : Delete(p)
    \/ \E s \in trash : Restore(s)

Illustration ==
    \/ \E n \in Notes : JobStarts(n) \/ ToolAsks(n)
    \/ \E a \in Artists : \/ \E b \in 1..2 : Draw(a, b)
                          \/ DrawFails(a) \/ CreateImage(a) \/ LinkReads(a) \/ LinkWrites(a)

Review ==
    \/ \E n \in Notes : ReviewStarts(n)
    \/ ReviewFails \/ StampReads \/ StampWrites

ToolCalls ==
    \/ \E n \in Notes : Upload(n) \/ ToolReads(n)
    \/ AttachReads \/ ToolWrites

Stops ==
    \/ Restart
    \/ \E s \in trash : \E some \in SUBSET DOMAIN s.docs : RestoreBreaksOff(s, some)

Next == Requests \/ Illustration \/ Review \/ ToolCalls \/ Stops

Spec == Init /\ [][Next]_vars

-----------------------------------------------------------------------------
(* Properties.                                                             *)

\* A note Marena passes over as reviewed had its present text read by a
\* review, though it was edited while the review ran, restored or stamped
\* twice; unless a stale write-back, a re-creation or the restore of an older
\* snapshot mixed its versions up.
SkippedNotesWereRead ==
    \A n \in Notes : Exists(n) /\ ~Candidate(n) /\ n \notin mixed => disk[n].text \in read

\* The illustration job and its queue leave one image to a note: more come
\* only from a chat or a request that asked at the same time, or from the
\* trash.
ImagesAreAskedFor ==
    \A n \in Notes :
        Cardinality({c \in Images : Exists(c) /\ disk[c].source = n}) <= 1 + extra

\* A snapshot leaves the trash only when all of it stands in the bundle as its
\* restore wrote it: notes, images and attachments, even if an earlier
\* attempt stopped half-way and others wrote to its paths since.
RestoresAreWhole ==
    [][\A s \in trash \ trash' :
           /\ \A q \in DOMAIN s.docs : disk'[q].version > 0 /\ disk'[q].back = s.id
           /\ \A m \in DOMAIN s.files : files'[m] = s.files[m]]_vars
=============================================================================
