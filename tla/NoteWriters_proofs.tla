------------------------- MODULE NoteWriters_proofs -------------------------
(***************************************************************************)
(* The writers of the note bundle for any notes, edits, deletions, images, *)
(* calls and stops: their types, what the Marena review skips, how many    *)
(* images a note gets, and that a restore is whole.                        *)
(***************************************************************************)
EXTENDS NoteWriters, FiniteSetTheorems, TLAPS

Pending == {a \in Artists : artist[a].pc \in {"drawing", "saved"}}

Task == [pc : {"idle", "drawing", "saved", "linking", "linked"},
         note : Notes \cup {NoPath}, image : 0..MaxImages, doc : Doc]

\* Who holds what.
ArtistInv ==
    /\ artist \in [Artists -> Task]
    /\ \A a \in Artists :
          /\ artist[a].pc # "idle" => artist[a].note \in Notes
          /\ artist[a].pc \in {"linking", "linked"} => artist[a].image \in Images
    /\ drawn \in 0..MaxImages /\ drawn + Cardinality(Pending) <= MaxImages

CriticInv ==
    /\ critic \in [pc : {"idle", "reading", "stamping"}, note : Notes \cup {NoPath},
                   version : Nat, doc : Doc]
    /\ critic.pc # "idle" => critic.note \in Notes /\ critic.version > 0
    /\ critic.pc = "stamping" => critic.doc.version > 0

ToolInv ==
    /\ tool \in [pc : {"idle", "uploaded", "attach", "keep"}, path : Notes \cup {NoPath}, doc : Doc]
    /\ tool.pc # "idle" => tool.path \in Notes

Snapshot(s) ==
    /\ DOMAIN s.docs \subseteq Paths /\ \A q \in DOMAIN s.docs : s.docs[q] \in Doc
    /\ DOMAIN s.files \subseteq Media /\ \A m \in DOMAIN s.files : s.files[m] \in 0..2

TrashInv == \A s \in trash : s.id \in 1..deletes /\ Snapshot(s)

CountInv ==
    /\ texts \in 0..MaxTexts /\ deletes \in 0..MaxDeletes /\ extra \in Nat

Typed == TypeOK /\ ArtistInv /\ CriticInv /\ ToolInv /\ TrashInv /\ CountInv

\* A note and its last version, as devices may have it: the present note is
\* that version's text, and what is stamped with its own version was read.
Stamped(doc, texts_read) == doc.reviewed = doc.version => doc.text \in texts_read

SoundNote(doc, last, texts_read) ==
    /\ doc.version > 0 => /\ doc.version = last.version /\ doc.text = last.text
                          /\ Stamped(doc, texts_read)
    /\ last.version > 0 => Stamped(last, texts_read)
    /\ doc.reviewed <= doc.version /\ last.reviewed <= last.version

\* A snapshot is of the last version or an older one.
SoundSnapshots(n, snapshots, last) ==
    \A s \in snapshots : n \in DOMAIN s.docs =>
        s.docs[n].version <= last.version /\ s.docs[n].reviewed <= s.docs[n].version

\* A review under way has read the last version or an older one.
SoundReview(n, review, last, texts_read) ==
    review.pc # "idle" /\ review.note = n =>
        /\ review.version <= last.version
        /\ review.version = last.version => last.text \in texts_read

VersionsInv(n) ==
    n \notin mixed =>
        /\ SoundNote(disk[n], known[n], read)
        /\ SoundSnapshots(n, trash, known[n])
        /\ SoundReview(n, critic, known[n], read)
        /\ deletes = 0 /\ ~Exists(n) => known[n].version = 0

\* Images of a note, drawn or under way.
Due(a, n) == IF artist[a].pc \in {"drawing", "saved"} /\ artist[a].note = n THEN 1 ELSE 0

ImagesInv ==
    /\ artist["tool"].pc \in {"drawing", "saved"} => extra >= 1
    /\ \A n \in Notes :
          Cardinality(Children(n, disk)) + Due("job", n) + Due("tool", n) <= 1 + extra

IInv == Typed /\ (\A n \in Notes : VersionsInv(n)) /\ ImagesInv

-----------------------------------------------------------------------------
(* The documents that are written. *)

LEMMA NoDocTyped == NoDoc \in Doc /\ NoDoc.version = 0 /\ NoDoc.reviewed = 0 /\ NoDoc.text = 0
  BY BoundsAssumption DEF NoDoc, Doc

LEMMA CreatedDoc ==
    ASSUME NEW d \in Doc, NEW t \in 0..MaxTexts, NEW e, e = [d EXCEPT !.text = t, !.version = 1]
    PROVE  e \in Doc /\ e.text = t /\ e.version = 1 /\ e.reviewed = d.reviewed
  BY DEF Doc

\* An edited document: r and b are the reviewed and back of the note on disk.
EditedOf(d, t, r, b) ==
    [d EXCEPT !.text = t, !.version = @ + 1, !.reviewed = IF @ = 0 THEN r ELSE @,
              !.back = IF @ = 0 THEN b ELSE @]

LEMMA EditedDoc ==
    ASSUME NEW d \in Doc, NEW t \in 0..MaxTexts, NEW r \in Nat, NEW b \in 0..MaxDeletes,
           NEW e, e = EditedOf(d, t, r, b)
    PROVE  /\ e \in Doc /\ e.text = t /\ e.version = d.version + 1
           /\ e.reviewed = IF d.reviewed = 0 THEN r ELSE d.reviewed
  <1> DEFINE v == d.version + 1
             rr == IF d.reviewed = 0 THEN r ELSE d.reviewed
             bb == IF d.back = 0 THEN b ELSE d.back
  <1>1. v \in Nat /\ rr \in Nat /\ bb \in 0..MaxDeletes
    BY DEF Doc
  <1>2. e = [d EXCEPT !.text = t, !.version = v, !.reviewed = rr, !.back = bb]
    BY DEF EditedOf
  <1>3. e \in Doc /\ e.text = t /\ e.version = v /\ e.reviewed = rr
    <2> HIDE DEF v, rr, bb
    <2> QED BY <1>1, <1>2 DEF Doc
  <1> QED BY <1>3

\* A document put back from a snapshot.
PutBackOf(d, id) == [d EXCEPT !.version = @ + 1, !.back = id]

LEMMA PutBackDoc ==
    ASSUME NEW d \in Doc, NEW id \in 0..MaxDeletes, NEW e, e = PutBackOf(d, id)
    PROVE  /\ e \in Doc /\ e.version = d.version + 1 /\ e.text = d.text /\ e.back = id
           /\ e.reviewed = d.reviewed /\ e.source = d.source
  <1> DEFINE v == d.version + 1
  <1>1. v \in Nat /\ e = [d EXCEPT !.version = v, !.back = id]
    BY DEF Doc, PutBackOf
  <1>2. e \in Doc /\ e.version = v /\ e.text = d.text /\ e.back = id
        /\ e.reviewed = d.reviewed /\ e.source = d.source
    <2> HIDE DEF v
    <2> QED BY <1>1 DEF Doc
  <1> QED BY <1>2

LEMMA LinkedDoc ==
    ASSUME NEW d \in Doc, NEW i \in Images, NEW e, e = [d EXCEPT !.links = @ \cup {i}]
    PROVE  e \in Doc /\ e.version = d.version /\ e.text = d.text /\ e.reviewed = d.reviewed
  <1>1. d.links \cup {i} \in SUBSET Images
    BY DEF Doc
  <1> QED BY <1>1 DEF Doc

LEMMA StampedDoc ==
    ASSUME NEW d \in Doc, NEW v \in Nat, NEW e, e = [d EXCEPT !.reviewed = v]
    PROVE  e \in Doc /\ e.version = d.version /\ e.text = d.text /\ e.reviewed = v
  BY DEF Doc

LEMMA AttachedDoc ==
    ASSUME NEW d \in Doc, NEW n \in Notes, NEW more \in BOOLEAN, NEW e,
           e = [d EXCEPT !.media = IF more THEN @ \cup {UploadOf(n)} ELSE @]
    PROVE  e \in Doc /\ e.version = d.version /\ e.text = d.text /\ e.reviewed = d.reviewed
  <1> DEFINE m == IF more THEN d.media \cup {UploadOf(n)} ELSE d.media
  <1>1. m \in SUBSET Media /\ e = [d EXCEPT !.media = m]
    BY DEF Doc, Media
  <1> HIDE DEF m
  <1> QED BY <1>1 DEF Doc

LEMMA ImageDoc ==
    ASSUME NEW n \in Notes, NEW e,
           e = [NoDoc EXCEPT !.version = 1, !.media = {PictureOf(n)}, !.source = n]
    PROVE  e \in Doc /\ e.version = 1 /\ e.source = n
  <1>1. {PictureOf(n)} \in SUBSET Media /\ n \in Notes \cup {NoPath}
    BY DEF Media
  <1> QED BY <1>1, NoDocTyped DEF Doc

-----------------------------------------------------------------------------
(* Types, action by action. *)

LEMMA WriteTyped ==
    ASSUME Typed, NEW p, NEW doc \in Doc, Write(p, doc)
    PROVE  disk' \in [Paths -> Doc] /\ inflight \subseteq inflight' /\ inflight' \subseteq Notes
  BY DEF Typed, TypeOK, Write, Scheduled

LEMMA TypedAgain ==
    ASSUME disk' \in [Paths -> Doc], known' \in [Notes -> Doc], files' \in [Media -> 0..2],
           inflight' \subseteq Notes, mixed' \subseteq Notes,
           artist'["job"].pc # "idle" => artist'["job"].note \in inflight',
           ArtistInv', CriticInv', ToolInv', TrashInv', CountInv'
    PROVE  Typed'
  <1>1. \A a \in Artists : artist'[a].pc \in {"idle", "drawing", "saved", "linking", "linked"}
    BY DEF ArtistInv, Task
  <1>2. \A snap \in trash' : snap.id \in 1..deletes' /\ DOMAIN snap.docs \subseteq Paths
    BY DEF TrashInv, Snapshot
  <1>3. TypeOK'
    BY <1>1, <1>2 DEF TypeOK, ArtistInv, CriticInv, ToolInv
  <1> QED BY <1>3 DEF Typed

LEMMA ArtistsSame == ASSUME ArtistInv, UNCHANGED <<artist, drawn>> PROVE ArtistInv'
  BY DEF ArtistInv, Pending

LEMMA CriticSame == ASSUME CriticInv, UNCHANGED critic PROVE CriticInv'
  BY DEF CriticInv

LEMMA ToolSame == ASSUME ToolInv, UNCHANGED tool PROVE ToolInv'
  BY DEF ToolInv

LEMMA TrashSame == ASSUME TrashInv, UNCHANGED <<trash, deletes>> PROVE TrashInv'
  BY DEF TrashInv

LEMMA CountSame == ASSUME CountInv, UNCHANGED <<texts, deletes, extra>> PROVE CountInv'
  BY DEF CountInv

LEMMA TypesOf ==
    ASSUME Typed
    PROVE  /\ disk \in [Paths -> Doc] /\ known \in [Notes -> Doc] /\ files \in [Media -> 0..2]
           /\ inflight \subseteq Notes /\ mixed \subseteq Notes
           /\ artist["job"].pc # "idle" => artist["job"].note \in inflight
           /\ ArtistInv /\ CriticInv /\ ToolInv /\ TrashInv /\ CountInv
           /\ Notes \subseteq Paths /\ Images \subseteq Paths /\ "job" \in Artists /\ "tool" \in Artists
  BY DEF Typed, TypeOK, Paths, Artists

LEMMA CreateTyped ==
    ASSUME Typed, NEW n \in Notes, NEW old, Create(n, old) PROVE Typed'
  <1>1. old \in Doc
    BY NoDocTyped, TypesOf DEF Create, TrashInv, Snapshot
  <1>2. texts + 1 \in 0..MaxTexts /\ texts' \in 0..MaxTexts
    BY TypesOf, BoundsAssumption DEF Create, CountInv
  <1> DEFINE doc == [old EXCEPT !.text = texts + 1, !.version = 1]
  <1>3. doc \in Doc /\ Write(n, doc)
    BY <1>1, <1>2, CreatedDoc DEF Create
  <1> HIDE DEF doc
  <1>4. disk' \in [Paths -> Doc] /\ inflight \subseteq inflight' /\ inflight' \subseteq Notes
    BY <1>3, WriteTyped
  <1>5. known' \in [Notes -> Doc] /\ mixed' \subseteq Notes /\ files' = files
    BY <1>4, TypesOf DEF Create
  <1>6. ArtistInv' /\ CriticInv' /\ ToolInv' /\ TrashInv'
    BY TypesOf, ArtistsSame, CriticSame, ToolSame, TrashSame DEF Create
  <1>7. CountInv'
    BY <1>2, TypesOf DEF Create, CountInv
  <1> QED BY <1>4, <1>5, <1>6, <1>7, TypesOf, TypedAgain DEF Create

LEMMA EditTyped ==
    ASSUME Typed, NEW n \in Notes, NEW had, Edit(n, had) PROVE Typed'
  <1>1. had \in Doc /\ disk[n] \in Doc
    BY TypesOf DEF Edit
  <1>2. texts + 1 \in 0..MaxTexts /\ texts' \in 0..MaxTexts
    BY TypesOf, BoundsAssumption DEF Edit, CountInv
  <1> DEFINE doc == EditedOf(had, texts + 1, disk[n].reviewed, disk[n].back)
  <1>3. doc \in Doc /\ Write(n, doc)
    <2>1. disk[n].reviewed \in Nat /\ disk[n].back \in 0..MaxDeletes
      BY <1>1 DEF Doc
    <2>2. doc \in Doc
      BY <1>1, <1>2, <2>1, EditedDoc
    <2> QED BY <2>2 DEF Edit, EditedOf
  <1> HIDE DEF doc
  <1>4. disk' \in [Paths -> Doc] /\ inflight \subseteq inflight' /\ inflight' \subseteq Notes
    BY <1>3, WriteTyped
  <1>5. known' \in [Notes -> Doc] /\ mixed' = mixed /\ files' = files
    BY <1>4, TypesOf DEF Edit, history
  <1>6. ArtistInv' /\ CriticInv' /\ ToolInv' /\ TrashInv'
    BY TypesOf, ArtistsSame, CriticSame, ToolSame, TrashSame DEF Edit
  <1>7. CountInv'
    BY <1>2, TypesOf DEF Edit, CountInv, history
  <1> QED BY <1>4, <1>5, <1>6, <1>7, TypesOf, TypedAgain DEF Edit

LEMMA DeleteTyped ==
    ASSUME Typed, NEW p \in Paths, Delete(p) PROVE Typed'
  <1> DEFINE gone == {q \in {p} \cup Children(p, disk) : Exists(q)}
             kept == {m \in MediaOf(gone, disk) : files[m] # 0}
             snap == [id |-> deletes', docs |-> [q \in gone |-> disk[q]],
                      files |-> [m \in kept |-> files[m]]]
  <1>1. gone \subseteq Paths
    BY DEF Children, Paths
  <1>2. kept \subseteq Media
    BY <1>1, TypesOf DEF MediaOf, Doc
  <1>3. disk' \in [Paths -> Doc]
    BY TypesOf, NoDocTyped DEF Delete
  <1>4. files' \in [Media -> 0..2]
    BY TypesOf DEF Delete
  <1>5. deletes' = deletes + 1 /\ deletes' \in 0..MaxDeletes
    BY TypesOf, BoundsAssumption DEF Delete, CountInv
  <1>6. Snapshot(snap) /\ snap.id = deletes'
    BY <1>1, <1>2, TypesOf DEF Snapshot
  <1>7. trash' \subseteq trash \cup {snap}
    BY DEF Delete
  <1>8. TrashInv'
    <2> HIDE DEF snap
    <2> QED BY <1>5, <1>6, <1>7, TypesOf DEF TrashInv, CountInv
  <1>9. UNCHANGED <<known, inflight, artist, critic, tool, drawn, mixed, texts, extra>>
    BY DEF Delete, owner, tasks, history
  <1>10. ArtistInv' /\ CriticInv' /\ ToolInv'
    BY <1>9, TypesOf, ArtistsSame, CriticSame, ToolSame
  <1>11. CountInv'
    BY <1>5, <1>9, TypesOf DEF CountInv
  <1> QED BY <1>3, <1>4, <1>8, <1>9, <1>10, <1>11, TypesOf, TypedAgain

LEMMA PutBackTyped ==
    ASSUME Typed, NEW snap \in trash, NEW some \in SUBSET DOMAIN snap.docs, PutBack(snap, some)
    PROVE  /\ disk' \in [Paths -> Doc] /\ known' \in [Notes -> Doc] /\ files' \in [Media -> 0..2]
           /\ mixed' \subseteq Notes /\ extra' \in Nat /\ extra' >= extra
  <1> DEFINE new == {q \in some : ~Exists(q)}
  <1>1. Snapshot(snap) /\ snap.id \in 0..MaxDeletes
    BY TypesOf, BoundsAssumption DEF TrashInv, CountInv
  <1>2. \A q \in new : PutBackOf(snap.docs[q], snap.id) \in Doc
    BY <1>1, PutBackDoc DEF Snapshot
  <1>3. disk' \in [Paths -> Doc]
    <2>1. disk' = [q \in Paths |-> IF q \in new THEN PutBackOf(snap.docs[q], snap.id) ELSE disk[q]]
      BY DEF PutBack, PutBackOf
    <2> QED BY <1>2, <2>1, TypesOf
  <1>4. known' \in [Notes -> Doc]
    BY <1>3, TypesOf DEF PutBack
  <1>5. files' \in [Media -> 0..2]
    BY <1>1, TypesOf DEF PutBack, Snapshot
  <1>6. extra' \in Nat /\ extra' >= extra
    <2>1. IsFiniteSet(Images)
      BY BoundsAssumption, FS_Interval DEF Images
    <2>2. Cardinality(new \cap Images) \in Nat
      BY <2>1, FS_Subset, FS_CardinalityType
    <2>3. extra' = extra + Cardinality(new \cap Images)
      BY DEF PutBack
    <2> HIDE DEF new
    <2> QED BY <2>2, <2>3, TypesOf DEF CountInv
  <1> QED BY <1>3, <1>4, <1>5, <1>6, TypesOf DEF PutBack

LEMMA RestoreTyped ==
    ASSUME Typed, NEW snap \in trash, Restore(snap) PROVE Typed'
  <1>1. /\ disk' \in [Paths -> Doc] /\ known' \in [Notes -> Doc] /\ files' \in [Media -> 0..2]
        /\ mixed' \subseteq Notes /\ extra' \in Nat
    BY PutBackTyped DEF Restore
  <1>2. UNCHANGED <<inflight, artist, critic, tool, drawn, texts, deletes>> /\ trash' \subseteq trash
    BY DEF Restore, tasks, counts
  <1>3. ArtistInv' /\ CriticInv' /\ ToolInv'
    BY <1>2, TypesOf, ArtistsSame, CriticSame, ToolSame
  <1>4. TrashInv' /\ CountInv'
    BY <1>1, <1>2, TypesOf DEF TrashInv, CountInv
  <1> QED BY <1>1, <1>2, <1>3, <1>4, TypesOf, TypedAgain

\* A stop leaves no task behind.
LEMMA StoppedTyped ==
    ASSUME Typed, Stopped, drawn' = drawn
    PROVE  /\ inflight' \subseteq Notes /\ artist'["job"].pc = "idle"
           /\ ArtistInv' /\ CriticInv' /\ ToolInv'
  <1>1. Resting \in Task /\ Resting.pc = "idle"
    BY NoDocTyped, BoundsAssumption DEF Resting, Task
  <1>2. artist' = [a \in Artists |-> Resting] /\ critic' = Unread /\ tool' = Unheld
    BY DEF Stopped
  <1>3. Pending' = {}
    BY <1>1, <1>2 DEF Pending
  <1>4. drawn' + Cardinality(Pending') <= MaxImages /\ drawn' \in 0..MaxImages
    BY <1>3, FS_EmptySet, TypesOf DEF ArtistInv
  <1>5. ArtistInv'
    BY <1>1, <1>2, <1>4 DEF ArtistInv
  <1>6. CriticInv' /\ ToolInv'
    BY <1>2, NoDocTyped DEF CriticInv, ToolInv, Unread, Unheld
  <1> QED BY <1>1, <1>2, <1>5, <1>6, TypesOf DEF Stopped

LEMMA RestartTyped == ASSUME Typed, Restart PROVE Typed'
  <1>1. UNCHANGED <<disk, files, trash, known, texts, deletes, drawn, mixed, extra>> /\ Stopped
    BY DEF Restart, owner, history
  <1>2. TrashInv' /\ CountInv'
    BY <1>1, TypesOf, TrashSame, CountSame
  <1> QED BY <1>1, <1>2, TypesOf, StoppedTyped, TypedAgain

LEMMA RestoreBreaksOffTyped ==
    ASSUME Typed, NEW snap \in trash, NEW some \in SUBSET DOMAIN snap.docs,
           RestoreBreaksOff(snap, some)
    PROVE  Typed'
  <1>1. /\ disk' \in [Paths -> Doc] /\ known' \in [Notes -> Doc] /\ files' \in [Media -> 0..2]
        /\ mixed' \subseteq Notes /\ extra' \in Nat
    BY PutBackTyped DEF RestoreBreaksOff
  <1>2. UNCHANGED <<trash, drawn, texts, deletes>> /\ Stopped
    BY DEF RestoreBreaksOff
  <1>3. TrashInv' /\ CountInv'
    BY <1>1, <1>2, TypesOf, TrashSame DEF CountInv
  <1> QED BY <1>1, <1>2, <1>3, TypesOf, StoppedTyped, TypedAgain

Draws(task) == task.pc \in {"drawing", "saved"}

LEMMA PendingFinite ==
    /\ IsFiniteSet(Pending) /\ Cardinality(Pending) \in Nat
    /\ \A a \in Artists : Draws(artist[a]) => Cardinality(Pending) >= 1
  <1>1. IsFiniteSet(Pending)
    <2>1. Artists = ({} \cup {"job"}) \cup {"tool"}
      BY DEF Artists
    <2>2. IsFiniteSet(Artists)
      BY <2>1, FS_EmptySet, FS_AddElement
    <2> QED BY <2>2, FS_Subset DEF Pending
  <1>2. Cardinality(Pending) \in Nat
    BY <1>1, FS_CardinalityType
  <1>3. \A a \in Artists : Draws(artist[a]) => Pending # {}
    BY DEF Pending, Draws
  <1> QED BY <1>1, <1>2, <1>3, FS_EmptySet

LEMMA PendingAfter ==
    ASSUME ArtistInv, NEW a \in Artists, NEW task \in Task, artist' = [artist EXCEPT ![a] = task]
    PROVE  Cardinality(Pending') = Cardinality(Pending)
                + (IF Draws(task) THEN 1 ELSE 0) - (IF Draws(artist[a]) THEN 1 ELSE 0)
  <1>1. Pending' = IF Draws(task) THEN Pending \cup {a} ELSE Pending \ {a}
    BY DEF Pending, ArtistInv, Draws
  <1>2. a \in Pending <=> Draws(artist[a])
    BY DEF Pending, Draws
  <1>3. CASE Draws(task)
    <2>1. Pending' = Pending \cup {a}
      BY <1>1, <1>3
    <2>2. Cardinality(Pending \cup {a}) = IF a \in Pending THEN Cardinality(Pending)
                                          ELSE Cardinality(Pending) + 1
      BY PendingFinite, FS_AddElement
    <2> QED BY <1>2, <1>3, <2>1, <2>2, PendingFinite
  <1>4. CASE ~Draws(task)
    <2>1. Pending' = Pending \ {a}
      BY <1>1, <1>4
    <2>2. Cardinality(Pending \ {a}) = IF a \in Pending THEN Cardinality(Pending) - 1
                                       ELSE Cardinality(Pending)
      BY PendingFinite, FS_RemoveElement
    <2> QED BY <1>2, <1>4, <2>1, <2>2, PendingFinite
  <1> QED BY <1>3, <1>4

\* One task changes; it starts drawing only when there is room.
LEMMA ArtistsAfter ==
    ASSUME ArtistInv, NEW a \in Artists, NEW task \in Task, artist' = [artist EXCEPT ![a] = task],
           task.pc # "idle" => task.note \in Notes,
           task.pc \in {"linking", "linked"} => task.image \in Images,
           Draws(task) => Draws(artist[a]) \/ drawn + Cardinality(Pending) < MaxImages,
           \/ drawn' = drawn
           \/ drawn' = drawn + 1 /\ Draws(artist[a]) /\ ~Draws(task)
    PROVE  ArtistInv'
  <1> DEFINE old == Cardinality(Pending)  new == Cardinality(Pending')
             d == Draws(task)  e == Draws(artist[a])
  <1>1. old \in Nat /\ (e => old >= 1)
    BY PendingFinite
  <1>2. drawn \in Nat /\ MaxImages \in Nat /\ drawn + old <= MaxImages
    BY BoundsAssumption DEF ArtistInv
  <1>3. artist' \in [Artists -> Task]
        /\ \A b \in Artists : /\ artist'[b].pc # "idle" => artist'[b].note \in Notes
                              /\ artist'[b].pc \in {"linking", "linked"} => artist'[b].image \in Images
    BY DEF ArtistInv
  <1>4. new = old + (IF d THEN 1 ELSE 0) - (IF e THEN 1 ELSE 0)
    BY PendingAfter
  <1>5. new \in Nat /\ drawn' \in Nat /\ drawn' + new <= MaxImages
    <2>1. d => e \/ drawn + old < MaxImages
      OBVIOUS
    <2>2. drawn' = drawn \/ (drawn' = drawn + 1 /\ e /\ ~d)
      OBVIOUS
    <2> HIDE DEF old, new, d, e
    <2>3. CASE d /\ e
      BY <1>1, <1>2, <1>4, <2>2, <2>3
    <2>4. CASE d /\ ~e
      BY <1>1, <1>2, <1>4, <2>1, <2>2, <2>4
    <2>5. CASE ~d /\ e
      BY <1>1, <1>2, <1>4, <2>2, <2>5
    <2>6. CASE ~d /\ ~e
      BY <1>1, <1>2, <1>4, <2>2, <2>6
    <2> QED BY <2>3, <2>4, <2>5, <2>6
  <1>6. drawn' \in 0..MaxImages
    BY <1>2, <1>5
  <1> QED BY <1>3, <1>5, <1>6 DEF ArtistInv

LEMMA RestingTask == Resting \in Task /\ Resting.pc = "idle"
  BY NoDocTyped, BoundsAssumption DEF Resting, Task

LEMMA TaskMoves ==
    ASSUME ArtistInv, NEW a \in Artists, NEW pc \in {"drawing", "saved", "linking", "linked"}
    PROVE  /\ [artist[a] EXCEPT !.pc = pc] \in Task
           /\ [artist[a] EXCEPT !.pc = pc].pc = pc
           /\ [artist[a] EXCEPT !.pc = pc].note = artist[a].note
           /\ [artist[a] EXCEPT !.pc = pc].image = artist[a].image
  <1>1. artist[a] \in Task
    BY DEF ArtistInv
  <1> QED BY <1>1 DEF Task

LEMMA EndsTyped ==
    ASSUME Typed, NEW a \in Artists, Ends(a), drawn' = drawn
    PROVE  /\ ArtistInv' /\ inflight' \subseteq Notes
           /\ artist'["job"].pc # "idle" => artist'["job"].note \in inflight'
  <1>1. ArtistInv'
    BY TypesOf, RestingTask, ArtistsAfter DEF Ends, Draws
  <1>2. artist'["job"].pc # "idle" => artist'["job"].note \in inflight'
    <2>1. CASE a = "job"
      BY <2>1, TypesOf, RestingTask DEF Ends, ArtistInv
    <2>2. CASE a # "job"
      BY <2>2, TypesOf DEF Ends, ArtistInv
    <2> QED BY <2>1, <2>2
  <1> QED BY <1>1, <1>2, TypesOf DEF Ends

\* Steps of the illustration that leave the notes alone.
LEMMA IllustrationTyped ==
    ASSUME Typed, UNCHANGED <<disk, trash, known, critic, tool, texts, deletes, mixed>>,
           files' \in [Media -> 0..2], extra' \in Nat,
           ArtistInv', inflight' \subseteq Notes,
           artist'["job"].pc # "idle" => artist'["job"].note \in inflight'
    PROVE  Typed'
  <1>1. CriticInv' /\ ToolInv' /\ TrashInv'
    BY TypesOf, CriticSame, ToolSame, TrashSame
  <1>2. CountInv'
    BY TypesOf DEF CountInv
  <1> QED BY <1>1, <1>2, TypesOf, TypedAgain

LEMMA JobStartsTyped == ASSUME Typed, NEW n \in Notes, JobStarts(n) PROVE Typed'
  <1>1. UNCHANGED <<disk, files, trash, known, critic, tool, texts, deletes, drawn, mixed, extra>>
    BY DEF JobStarts, counts, history
  <1>2. extra' \in Nat /\ files' \in [Media -> 0..2]
    BY <1>1, TypesOf DEF CountInv
  <1>3. CASE ShouldDraw(n)
    <2> DEFINE task == [artist["job"] EXCEPT !.pc = "drawing", !.note = n]
    <2>1. artist' = [artist EXCEPT !["job"] = task] /\ inflight' = inflight /\ n \in inflight
      BY <1>3 DEF JobStarts
    <2>2. task \in Task /\ task.pc = "drawing" /\ task.note = n
      <3>1. artist["job"] \in Task
        BY TypesOf DEF ArtistInv
      <3> QED BY <3>1 DEF Task
    <2>3. drawn + Cardinality(Pending) < MaxImages
      BY DEF JobStarts, MayDraw, Pending
    <2> HIDE DEF task
    <2>4. ArtistInv'
      BY <1>1, <2>1, <2>2, <2>3, TypesOf, ArtistsAfter
    <2>5. artist'["job"] = task
      BY <2>1, TypesOf DEF ArtistInv
    <2> QED BY <1>1, <1>2, <2>1, <2>2, <2>4, <2>5, TypesOf, IllustrationTyped
  <1>4. CASE ~ShouldDraw(n)
    <2>1. artist' = artist /\ inflight' = inflight \ {n} /\ artist["job"] = Resting
      BY <1>4 DEF JobStarts, Free
    <2>2. ArtistInv'
      BY <1>1, <2>1, TypesOf, ArtistsSame
    <2> QED BY <1>1, <1>2, <2>1, <2>2, TypesOf, RestingTask, IllustrationTyped
  <1> QED BY <1>3, <1>4

LEMMA ToolAsksTyped == ASSUME Typed, NEW n \in Notes, ToolAsks(n) PROVE Typed'
  <1>1. UNCHANGED <<disk, files, trash, known, inflight, critic, tool, texts, deletes, drawn, mixed>>
    BY DEF ToolAsks
  <1>2. extra' \in Nat /\ files' \in [Media -> 0..2]
    BY <1>1, TypesOf DEF CountInv, ToolAsks
  <1> DEFINE task == [artist["tool"] EXCEPT !.pc = "drawing", !.note = n]
  <1>3. artist' = [artist EXCEPT !["tool"] = task]
    BY DEF ToolAsks
  <1>4. task \in Task /\ task.pc = "drawing" /\ task.note = n
    <2>1. artist["tool"] \in Task
      BY TypesOf DEF ArtistInv
    <2> QED BY <2>1 DEF Task
  <1>5. drawn + Cardinality(Pending) < MaxImages
    BY DEF ToolAsks, MayDraw, Pending
  <1> HIDE DEF task
  <1>6. ArtistInv'
    BY <1>1, <1>3, <1>4, <1>5, TypesOf, ArtistsAfter
  <1>7. artist'["job"] = artist["job"]
    BY <1>3, TypesOf DEF ArtistInv
  <1> QED BY <1>1, <1>2, <1>6, <1>7, TypesOf, IllustrationTyped

LEMMA DrawTyped ==
    ASSUME Typed, NEW a \in Artists, NEW b \in 1..2, Draw(a, b) PROVE Typed'
  <1>1. UNCHANGED <<disk, trash, known, inflight, critic, tool, texts, deletes, drawn, mixed, extra>>
    BY DEF Draw, counts, history
  <1> DEFINE task == [artist[a] EXCEPT !.pc = "saved"]
  <1>2. artist' = [artist EXCEPT ![a] = task] /\ artist[a].pc = "drawing"
    BY DEF Draw, Moves
  <1>3. task \in Task /\ task.pc = "saved" /\ task.note = artist[a].note
    BY TypesOf, TaskMoves
  <1> HIDE DEF task
  <1>4. ArtistInv'
    BY <1>1, <1>2, <1>3, TypesOf, ArtistsAfter DEF Draws, ArtistInv
  <1>5. files' \in [Media -> 0..2] /\ extra' \in Nat
    <2>1. b \in 0..2
      OBVIOUS
    <2>2. files' \in [Media -> 0..2]
      BY <2>1, TypesOf DEF Draw
    <2> QED BY <1>1, <2>2, TypesOf DEF CountInv
  <1>6. artist'["job"].pc # "idle" => artist'["job"].note \in inflight'
    <2>1. artist'["job"] = IF a = "job" THEN task ELSE artist["job"]
      BY <1>2, TypesOf DEF ArtistInv
    <2> QED BY <1>1, <1>2, <1>3, <2>1, TypesOf
  <1> QED BY <1>1, <1>4, <1>5, <1>6, TypesOf, IllustrationTyped

LEMMA DrawFailsTyped == ASSUME Typed, NEW a \in Artists, DrawFails(a) PROVE Typed'
  <1>1. UNCHANGED <<disk, files, trash, known, critic, tool, texts, deletes, drawn, mixed, extra>>
        /\ Ends(a)
    BY DEF DrawFails, counts, history
  <1> QED BY <1>1, TypesOf, EndsTyped, IllustrationTyped DEF CountInv

LEMMA CreateImageTyped == ASSUME Typed, NEW a \in Artists, CreateImage(a) PROVE Typed'
  <1> DEFINE n == artist[a].note  c == drawn + 1
             task == [artist[a] EXCEPT !.pc = "linking", !.image = c]
             doc == [NoDoc EXCEPT !.version = 1, !.media = {PictureOf(n)}, !.source = n]
  <1>1. UNCHANGED <<files, trash, known, critic, tool, texts, deletes, mixed, extra>>
        /\ drawn' = c /\ artist[a].pc = "saved" /\ artist' = [artist EXCEPT ![a] = task]
        /\ Write(c, doc)
    BY DEF CreateImage, history
  <1>2. n \in Notes
    BY <1>1, TypesOf DEF ArtistInv
  <1>3. doc \in Doc
    BY <1>2, ImageDoc
  <1>4. disk' \in [Paths -> Doc] /\ inflight \subseteq inflight' /\ inflight' \subseteq Notes
    <2> HIDE DEF doc
    <2> QED BY <1>1, <1>3, WriteTyped
  <1>5. c \in Images
    <2>1. Cardinality(Pending) >= 1 /\ Cardinality(Pending) \in Nat
      BY <1>1, PendingFinite DEF Draws
    <2> QED BY <2>1, TypesOf, BoundsAssumption DEF ArtistInv, Images
  <1>6. task \in Task /\ task.pc = "linking" /\ task.note = n /\ task.image = c
    <2>1. artist[a] \in Task /\ c \in 0..MaxImages
      BY <1>5, TypesOf DEF ArtistInv, Images
    <2> HIDE DEF c
    <2> QED BY <2>1 DEF Task
  <1> HIDE DEF task, doc, c
  <1>7. drawn' = drawn + 1
    BY <1>1 DEF c
  <1>8. ArtistInv'
    BY <1>1, <1>2, <1>5, <1>6, <1>7, TypesOf, ArtistsAfter DEF Draws
  <1>9. artist'["job"].pc # "idle" => artist'["job"].note \in inflight'
    <2>1. artist'["job"] = IF a = "job" THEN task ELSE artist["job"]
      BY <1>1, TypesOf DEF ArtistInv
    <2> QED BY <1>1, <1>4, <1>6, <2>1, TypesOf
  <1>10. CriticInv' /\ ToolInv' /\ TrashInv' /\ CountInv'
    BY <1>1, TypesOf, CriticSame, ToolSame, TrashSame, CountSame
  <1> QED BY <1>1, <1>4, <1>8, <1>9, <1>10, TypesOf, TypedAgain

LEMMA LinkReadsTyped == ASSUME Typed, NEW a \in Artists, LinkReads(a) PROVE Typed'
  <1> DEFINE n == artist[a].note
             task == [artist[a] EXCEPT !.pc = "linked", !.doc = disk[n]]
  <1>1. UNCHANGED <<disk, files, trash, known, critic, tool, texts, deletes, drawn, mixed, extra>>
        /\ artist[a].pc = "linking"
    BY DEF LinkReads, counts, history
  <1>2. extra' \in Nat /\ files' \in [Media -> 0..2]
    BY <1>1, TypesOf DEF CountInv
  <1>3. CASE Exists(n) /\ artist[a].image \notin disk[n].links
    <2>1. artist' = [artist EXCEPT ![a] = task] /\ inflight' = inflight
      BY <1>3 DEF LinkReads
    <2>2. n \in Notes /\ artist[a].image \in Images /\ disk[n] \in Doc
      BY <1>1, TypesOf DEF ArtistInv
    <2>3. task \in Task /\ task.pc = "linked" /\ task.note = n /\ task.image = artist[a].image
      <3>1. artist[a] \in Task
        BY TypesOf DEF ArtistInv
      <3> QED BY <2>2, <3>1 DEF Task
    <2> HIDE DEF task
    <2>4. ArtistInv'
      BY <1>1, <2>1, <2>2, <2>3, TypesOf, ArtistsAfter DEF Draws
    <2>5. artist'["job"] = IF a = "job" THEN task ELSE artist["job"]
      BY <2>1, TypesOf DEF ArtistInv
    <2>6. artist'["job"].pc # "idle" => artist'["job"].note \in inflight'
      BY <1>1, <2>1, <2>3, <2>5, TypesOf
    <2> QED BY <1>1, <1>2, <2>1, <2>4, <2>6, TypesOf, IllustrationTyped
  <1>4. CASE ~(Exists(n) /\ artist[a].image \notin disk[n].links)
    <2>1. Ends(a)
      BY <1>4 DEF LinkReads
    <2> QED BY <1>1, <1>2, <2>1, EndsTyped, IllustrationTyped
  <1> QED BY <1>3, <1>4

LEMMA LinkWritesTyped == ASSUME Typed, NEW a \in Artists, LinkWrites(a) PROVE Typed'
  <1> DEFINE n == artist[a].note
             doc == [artist[a].doc EXCEPT !.links = @ \cup {artist[a].image}]
  <1>1. /\ UNCHANGED <<files, trash, known, critic, tool, texts, deletes, drawn, extra>>
        /\ artist[a].pc = "linked" /\ artist' = [artist EXCEPT ![a] = Resting]
        /\ disk' = [disk EXCEPT ![n] = doc]
        /\ inflight' = (inflight \cup Scheduled(disk', n)) \ (IF a = "job" THEN {n} ELSE {})
        /\ mixed' \subseteq mixed \cup {n}
    BY DEF LinkWrites, counts
  <1>2. n \in Notes /\ artist[a].image \in Images /\ artist[a].doc \in Doc
    BY <1>1, TypesOf DEF ArtistInv, Task
  <1>3. doc \in Doc
    BY <1>2, LinkedDoc
  <1> HIDE DEF doc
  <1>4. disk' \in [Paths -> Doc] /\ inflight' \subseteq Notes
    BY <1>1, <1>3, TypesOf DEF Scheduled
  <1>5. ArtistInv'
    BY <1>1, TypesOf, RestingTask, ArtistsAfter DEF Draws
  <1>6. artist'["job"].pc # "idle" => artist'["job"].note \in inflight'
    <2>1. CASE a = "job"
      BY <1>1, <2>1, TypesOf, RestingTask DEF ArtistInv
    <2>2. CASE a # "job"
      BY <1>1, <2>2, TypesOf DEF ArtistInv
    <2> QED BY <2>1, <2>2
  <1>7. CriticInv' /\ ToolInv' /\ TrashInv' /\ CountInv'
    BY <1>1, TypesOf, CriticSame, ToolSame, TrashSame, CountSame
  <1> QED BY <1>1, <1>2, <1>4, <1>5, <1>6, <1>7, TypesOf, TypedAgain

LEMMA ReviewStartsTyped == ASSUME Typed, NEW n \in Notes, ReviewStarts(n) PROVE Typed'
  <1>1. UNCHANGED <<disk, files, trash, known, inflight, artist, tool, texts, deletes, drawn,
                    mixed, extra>>
    BY DEF ReviewStarts, counts
  <1> DEFINE v == disk[n].version
  <1>2. v \in Nat /\ v > 0
    BY TypesOf DEF ReviewStarts, Candidate, Exists, Doc
  <1>3. CriticInv'
    <2>1. critic' = [Unread EXCEPT !.pc = "reading", !.note = n, !.version = v]
      BY DEF ReviewStarts
    <2> HIDE DEF v
    <2> QED BY <1>2, <2>1, NoDocTyped DEF CriticInv, Unread
  <1>4. ArtistInv' /\ ToolInv' /\ TrashInv' /\ CountInv'
    BY <1>1, TypesOf, ArtistsSame, ToolSame, TrashSame, CountSame
  <1> QED BY <1>1, <1>3, <1>4, TypesOf, TypedAgain

\* The review alone changes.
LEMMA CriticTyped ==
    ASSUME Typed, CriticInv', UNCHANGED <<disk, files, trash, known, inflight, artist, tool,
                                          counts, history>>
    PROVE  Typed'
  <1>1. UNCHANGED <<texts, deletes, drawn, mixed, extra>>
    BY DEF counts, history
  <1>2. ArtistInv' /\ ToolInv' /\ TrashInv' /\ CountInv'
    BY <1>1, TypesOf, ArtistsSame, ToolSame, TrashSame, CountSame
  <1> QED BY <1>1, <1>2, TypesOf, TypedAgain

LEMMA UnreadTyped == ASSUME critic' = Unread PROVE CriticInv'
  BY NoDocTyped DEF CriticInv, Unread

LEMMA ReviewFailsTyped == ASSUME Typed, ReviewFails PROVE Typed'
  BY CriticTyped, UnreadTyped DEF ReviewFails

LEMMA StampReadsTyped == ASSUME Typed, StampReads PROVE Typed'
  <1>1. disk[critic.note] \in Doc
    BY TypesOf DEF StampReads, CriticInv
  <1>2. CriticInv'
    BY <1>1, TypesOf DEF StampReads, CriticInv, Exists
  <1> QED BY <1>2, CriticTyped DEF StampReads

LEMMA StampWritesTyped == ASSUME Typed, StampWrites PROVE Typed'
  <1> DEFINE n == critic.note
             doc == [critic.doc EXCEPT !.reviewed = StampVersion]
  <1>1. /\ UNCHANGED <<files, trash, known, artist, tool, texts, deletes, drawn, extra>>
        /\ critic.pc = "stamping" /\ critic' = Unread /\ Write(n, doc)
        /\ mixed' \subseteq mixed \cup {n}
    BY DEF StampWrites, counts
  <1>2. n \in Notes /\ critic.doc \in Doc /\ StampVersion \in Nat
    BY <1>1, TypesOf DEF CriticInv, StampVersion
  <1>3. doc \in Doc
    BY <1>2, StampedDoc
  <1> HIDE DEF doc
  <1>4. disk' \in [Paths -> Doc] /\ inflight \subseteq inflight' /\ inflight' \subseteq Notes
    BY <1>1, <1>3, WriteTyped
  <1>5. ArtistInv' /\ ToolInv' /\ TrashInv' /\ CountInv' /\ CriticInv'
    BY <1>1, TypesOf, ArtistsSame, ToolSame, TrashSame, CountSame, UnreadTyped
  <1> QED BY <1>1, <1>2, <1>4, <1>5, TypesOf, TypedAgain

\* A tool call changes, and attachments.
LEMMA ToolTyped ==
    ASSUME Typed, ToolInv', files' \in [Media -> 0..2],
           UNCHANGED <<disk, trash, known, inflight, artist, critic, texts, deletes, drawn,
                       mixed, extra>>
    PROVE  Typed'
  <1>1. ArtistInv' /\ CriticInv' /\ TrashInv' /\ CountInv'
    BY TypesOf, ArtistsSame, CriticSame, TrashSame, CountSame
  <1> QED BY <1>1, TypesOf, TypedAgain

LEMMA UnheldTyped == ASSUME tool' = Unheld PROVE ToolInv'
  BY NoDocTyped DEF ToolInv, Unheld

LEMMA UploadTyped == ASSUME Typed, NEW n \in Notes, Upload(n) PROVE Typed'
  <1>1. UNCHANGED <<disk, trash, known, inflight, artist, critic, texts, deletes, drawn,
                    mixed, extra>>
    BY DEF Upload, owner, history
  <1>2. files' \in [Media -> 0..2]
    <2>1. 1 \in 0..2
      OBVIOUS
    <2> QED BY <2>1, TypesOf DEF Upload
  <1>3. ToolInv'
    BY NoDocTyped DEF Upload, ToolInv, Unheld
  <1> QED BY <1>1, <1>2, <1>3, ToolTyped

LEMMA AttachReadsTyped == ASSUME Typed, AttachReads PROVE Typed'
  <1>1. UNCHANGED <<disk, files, trash, known, inflight, artist, critic, texts, deletes, drawn,
                    mixed, extra>>
    BY DEF AttachReads, counts, history
  <1>2. disk[tool.path] \in Doc /\ tool.path \in Notes
    BY TypesOf DEF AttachReads, ToolInv
  <1>3. CASE tool' = Unheld
    BY <1>1, <1>3, TypesOf, UnheldTyped, ToolTyped
  <1>4. CASE tool' = [tool EXCEPT !.pc = "attach", !.doc = disk[tool.path]]
    <2>1. ToolInv'
      BY <1>2, <1>4, TypesOf DEF ToolInv
    <2> QED BY <1>1, <2>1, TypesOf, ToolTyped
  <1> QED BY <1>3, <1>4 DEF AttachReads

LEMMA ToolReadsTyped == ASSUME Typed, NEW n \in Notes, ToolReads(n) PROVE Typed'
  <1>1. UNCHANGED <<disk, files, trash, known, inflight, artist, critic, texts, deletes, drawn,
                    mixed, extra>>
    BY DEF ToolReads, owner, history
  <1>2. disk[n] \in Doc
    BY TypesOf
  <1>3. ToolInv'
    BY <1>2 DEF ToolReads, ToolInv
  <1> QED BY <1>1, <1>3, TypesOf, ToolTyped

LEMMA ToolWritesTyped == ASSUME Typed, ToolWrites PROVE Typed'
  <1> DEFINE n == tool.path  more == tool.pc = "attach"
             doc == [tool.doc EXCEPT !.media = IF more THEN @ \cup {UploadOf(n)} ELSE @]
  <1>1. /\ UNCHANGED <<files, trash, known, artist, critic, texts, deletes, drawn, extra>>
        /\ tool.pc \in {"attach", "keep"} /\ tool' = Unheld /\ Write(n, doc)
        /\ mixed' \subseteq mixed \cup {n}
    BY DEF ToolWrites, counts
  <1>2. n \in Notes /\ tool.doc \in Doc /\ more \in BOOLEAN
    BY <1>1, TypesOf DEF ToolInv
  <1>3. doc \in Doc
    <2> HIDE DEF more
    <2> QED BY <1>2, AttachedDoc
  <1> HIDE DEF doc
  <1>4. disk' \in [Paths -> Doc] /\ inflight \subseteq inflight' /\ inflight' \subseteq Notes
    BY <1>1, <1>3, WriteTyped
  <1>5. ArtistInv' /\ ToolInv' /\ TrashInv' /\ CountInv' /\ CriticInv'
    BY <1>1, TypesOf, ArtistsSame, CriticSame, TrashSame, CountSame, UnheldTyped
  <1> QED BY <1>1, <1>2, <1>4, <1>5, TypesOf, TypedAgain

LEMMA NextTyped == ASSUME Typed, [Next]_vars PROVE Typed'
  <1>1. CASE Requests
    BY <1>1, CreateTyped, EditTyped, DeleteTyped, RestoreTyped DEF Requests
  <1>2. CASE Illustration
    BY <1>2, JobStartsTyped, ToolAsksTyped, DrawTyped, DrawFailsTyped, CreateImageTyped,
       LinkReadsTyped, LinkWritesTyped DEF Illustration
  <1>3. CASE Review
    BY <1>3, ReviewStartsTyped, ReviewFailsTyped, StampReadsTyped, StampWritesTyped DEF Review
  <1>4. CASE ToolCalls
    BY <1>4, UploadTyped, AttachReadsTyped, ToolReadsTyped, ToolWritesTyped DEF ToolCalls
  <1>5. CASE Stops
    BY <1>5, RestartTyped, RestoreBreaksOffTyped DEF Stops
  <1>6. CASE UNCHANGED vars
    <2>1. UNCHANGED <<disk, files, trash, known, inflight, artist, critic, tool, counts, history>>
      BY <1>6 DEF vars, owner, tasks
    <2> QED BY <2>1, TypesOf, CriticSame, CriticTyped
  <1> QED BY <1>1, <1>2, <1>3, <1>4, <1>5, <1>6 DEF Next

LEMMA InitTyped == ASSUME Init PROVE Typed
  <1>1. disk \in [Paths -> Doc] /\ known \in [Notes -> Doc] /\ files \in [Media -> 0..2]
    BY NoDocTyped DEF Init
  <1>2. Pending = {} /\ drawn = 0
    BY DEF Init, Pending, Resting
  <1>3. drawn + Cardinality(Pending) <= MaxImages
    BY <1>2, FS_EmptySet, BoundsAssumption
  <1>4. ArtistInv
    BY <1>2, <1>3, RestingTask, BoundsAssumption DEF Init, ArtistInv
  <1>5. CriticInv /\ ToolInv
    BY NoDocTyped DEF Init, CriticInv, ToolInv, Unread, Unheld
  <1>6. TrashInv /\ CountInv
    BY BoundsAssumption DEF Init, TrashInv, CountInv
  <1>7. TypeOK
    <2>1. \A a \in Artists : artist[a].pc = "idle"
      BY RestingTask DEF Init
    <2>2. trash = {} /\ inflight = {} /\ mixed = {} /\ drawn \in 0..MaxImages
      BY BoundsAssumption DEF Init
    <2>3. critic.pc = "idle" /\ tool.pc = "idle" /\ "job" \in Artists
      BY DEF Init, Unread, Unheld, Artists
    <2> QED BY <1>1, <2>1, <2>2, <2>3 DEF TypeOK
  <1> QED BY <1>4, <1>5, <1>6, <1>7 DEF Typed

-----------------------------------------------------------------------------
(* Versions, action by action. *)

LEMMA VersionsOf ==
    ASSUME Typed, NEW n \in Notes
    PROVE  /\ disk[n] \in Doc /\ disk[n].version \in Nat /\ disk[n].reviewed \in Nat
           /\ known[n] \in Doc /\ known[n].version \in Nat /\ known[n].reviewed \in Nat
           /\ critic.version \in Nat /\ critic.doc \in Doc /\ critic.doc.version \in Nat
           /\ \A snap \in trash : n \in DOMAIN snap.docs =>
                 /\ snap.docs[n] \in Doc
                 /\ snap.docs[n].version \in Nat /\ snap.docs[n].reviewed \in Nat
  BY TypesOf DEF Doc, CriticInv, TrashInv, Snapshot

\* A step that leaves text and versions of a note alone, and begins no review
\* of it.
LEMMA VersionsSame ==
    ASSUME NEW n \in Notes, VersionsInv(n), mixed \subseteq mixed', read \subseteq read',
           n \notin mixed' =>
              /\ disk'[n].text = disk[n].text /\ disk'[n].version = disk[n].version
              /\ disk'[n].reviewed = disk[n].reviewed /\ known'[n] = known[n],
           trash' \subseteq trash, deletes' = deletes,
           \/ critic'.pc = "idle" \/ critic'.note # n
           \/ critic.pc # "idle" /\ critic'.note = critic.note /\ critic'.version = critic.version
    PROVE  VersionsInv(n)'
  <1> SUFFICES ASSUME n \notin mixed'
               PROVE  /\ SoundNote(disk'[n], known'[n], read')
                      /\ SoundSnapshots(n, trash', known'[n])
                      /\ SoundReview(n, critic', known'[n], read')
                      /\ deletes' = 0 /\ ~(disk'[n].version > 0) => known'[n].version = 0
    BY DEF VersionsInv, Exists
  <1>1. n \notin mixed
    OBVIOUS
  <1>2. SoundNote(disk'[n], known'[n], read')
    BY <1>1 DEF VersionsInv, SoundNote, Stamped
  <1>3. SoundSnapshots(n, trash', known'[n])
    BY <1>1 DEF VersionsInv, SoundSnapshots
  <1>4. SoundReview(n, critic', known'[n], read')
    BY <1>1 DEF VersionsInv, SoundReview
  <1>5. deletes' = 0 /\ ~(disk'[n].version > 0) => known'[n].version = 0
    BY <1>1 DEF VersionsInv, Exists
  <1> QED BY <1>2, <1>3, <1>4, <1>5

LEMMA CreateVersions ==
    ASSUME Typed, \A m \in Notes : VersionsInv(m), NEW n \in Notes, NEW old, Create(n, old),
           NEW m \in Notes
    PROVE  VersionsInv(m)'
  <1>1. UNCHANGED <<trash, critic, deletes, read>> /\ mixed \subseteq mixed'
        /\ (n \notin mixed' => deletes = 0 /\ n \notin mixed)
    BY TypesOf DEF Create, CountInv
  <1>2. CASE m # n
    <2>1. disk'[m] = disk[m] /\ known'[m] = known[m]
      BY <1>2, TypesOf DEF Create, Write
    <2> QED BY <1>1, <2>1, VersionsSame
  <1>3. CASE m = n /\ n \notin mixed'
    <2>1. trash = {} /\ deletes = 0
      BY <1>1, <1>3, TypesOf DEF TrashInv
    <2>2. old = NoDoc /\ ~Exists(n)
      BY <2>1 DEF Create
    <2>3. known[n].version = 0
      BY <1>1, <1>3, <2>1, <2>2 DEF VersionsInv
    <2>4. texts + 1 \in 0..MaxTexts
      BY TypesOf, BoundsAssumption DEF Create, CountInv
    <2> DEFINE doc == [NoDoc EXCEPT !.text = texts + 1, !.version = 1]
    <2>5. doc = [NoDoc EXCEPT !.text = texts + 1, !.version = 1]
      OBVIOUS
    <2>6. disk'[n] = doc /\ known'[n] = doc
      BY <2>2, TypesOf DEF Create, Write
    <2> HIDE DEF doc
    <2>10. doc.version = 1 /\ doc.reviewed = 0
      BY <2>4, <2>5, NoDocTyped, CreatedDoc
    <2>7. SoundNote(disk'[n], known'[n], read') /\ disk'[n].version > 0
      BY <2>6, <2>10 DEF SoundNote, Stamped
    <2>8. SoundSnapshots(n, trash', known'[n])
      BY <1>1, <2>1 DEF SoundSnapshots
    <2>9. ~(critic'.pc # "idle" /\ critic'.note = n)
      BY <1>1, <1>3, <2>3, TypesOf, VersionsOf DEF VersionsInv, SoundReview, CriticInv
    <2> QED BY <1>3, <2>7, <2>8, <2>9 DEF VersionsInv, SoundReview, Exists
  <1> QED BY <1>2, <1>3 DEF VersionsInv

LEMMA EditVersions ==
    ASSUME Typed, \A m \in Notes : VersionsInv(m), NEW n \in Notes, NEW had, Edit(n, had),
           NEW m \in Notes
    PROVE  VersionsInv(m)'
  <1>1. UNCHANGED <<trash, critic, deletes, read, mixed>>
    BY DEF Edit, history
  <1>2. CASE m # n
    <2>1. disk'[m] = disk[m] /\ known'[m] = known[m]
      BY <1>2, TypesOf DEF Edit, Write
    <2> QED BY <1>1, <2>1, VersionsSame
  <1>3. CASE m = n /\ n \notin mixed
    <2>1. /\ disk[n].version > 0 /\ had \in {disk[n], known[n]} /\ had.version = disk[n].version
          /\ had \in Doc
      BY TypesOf DEF Edit, Exists
    <2>2. texts + 1 \in 0..MaxTexts /\ disk[n].reviewed \in Nat /\ disk[n].back \in 0..MaxDeletes
      BY TypesOf, BoundsAssumption DEF Edit, CountInv, Doc
    <2> DEFINE doc == EditedOf(had, texts + 1, disk[n].reviewed, disk[n].back)
    <2>3. doc \in Doc /\ doc.version = had.version + 1
          /\ doc.reviewed \in {had.reviewed, disk[n].reviewed}
      <3>1. had \in Doc /\ doc = EditedOf(had, texts + 1, disk[n].reviewed, disk[n].back)
        BY <2>1
      <3> HIDE DEF doc
      <3>2. /\ doc \in Doc /\ doc.version = had.version + 1
            /\ doc.reviewed = IF had.reviewed = 0 THEN disk[n].reviewed ELSE had.reviewed
        BY <2>2, <3>1, EditedDoc
      <3> QED BY <3>2
    <2>4. disk'[n] = doc /\ known'[n] = doc
      BY TypesOf DEF Edit, Write, EditedOf
    <2> HIDE DEF doc
    <2>5. SoundNote(disk[n], known[n], read) /\ SoundSnapshots(n, trash, known[n])
          /\ SoundReview(n, critic, known[n], read)
      BY <1>3 DEF VersionsInv
    <2>6. /\ known[n].version = disk[n].version /\ doc.version = disk[n].version + 1
          /\ doc.reviewed <= disk[n].version
      BY <2>1, <2>3, <2>5 DEF SoundNote
    <2>7. doc.version > 0 /\ doc.reviewed < doc.version /\ known[n].version < doc.version
      BY <2>3, <2>6, VersionsOf DEF Doc
    <2>8. SoundNote(disk'[n], known'[n], read')
      BY <2>3, <2>4, <2>7 DEF SoundNote, Stamped, Doc
    <2>9. SoundSnapshots(n, trash', known'[n])
      BY <1>1, <2>3, <2>4, <2>5, <2>7, VersionsOf DEF SoundSnapshots, Doc
    <2>10. SoundReview(n, critic', known'[n], read')
      BY <1>1, <2>3, <2>4, <2>5, <2>7, VersionsOf DEF SoundReview, Doc
    <2> QED BY <1>3, <2>4, <2>7, <2>8, <2>9, <2>10 DEF VersionsInv, Exists
  <1> QED BY <1>1, <1>2, <1>3 DEF VersionsInv

LEMMA DeleteVersions ==
    ASSUME Typed, \A m \in Notes : VersionsInv(m), NEW p \in Paths, Delete(p), NEW m \in Notes
    PROVE  VersionsInv(m)'
  <1> DEFINE gone == {q \in {p} \cup Children(p, disk) : Exists(q)}
             kept == {u \in MediaOf(gone, disk) : files[u] # 0}
             snap == [id |-> deletes', docs |-> [q \in gone |-> disk[q]],
                      files |-> [u \in kept |-> files[u]]]
  <1>1. UNCHANGED <<known, critic, read, mixed>> /\ deletes' = deletes + 1
        /\ trash' \subseteq trash \cup {snap}
    BY DEF Delete, owner, tasks, history
  <1>2. deletes' # 0
    BY <1>1, TypesOf DEF CountInv
  <1>3. disk'[m] = IF m \in gone THEN NoDoc ELSE disk[m]
    BY TypesOf DEF Delete
  <1>4. m \in gone => Exists(m)
    OBVIOUS
  <1>5. DOMAIN snap.docs = gone /\ (m \in gone => snap.docs[m] = disk[m])
    OBVIOUS
  <1> HIDE DEF gone, snap
  <1>6. CASE m \notin mixed
    <2>1. SoundNote(disk[m], known[m], read) /\ SoundSnapshots(m, trash, known[m])
          /\ SoundReview(m, critic, known[m], read)
      BY <1>6 DEF VersionsInv
    <2>2. SoundNote(disk'[m], known'[m], read')
      BY <1>1, <1>3, <2>1, NoDocTyped DEF SoundNote
    <2>3. SoundSnapshots(m, {snap}, known[m])
      BY <1>4, <1>5, <2>1, VersionsOf DEF SoundSnapshots, SoundNote, Exists
    <2>4. SoundSnapshots(m, trash', known'[m])
      BY <1>1, <2>1, <2>3 DEF SoundSnapshots
    <2> QED BY <1>1, <1>2, <2>1, <2>2, <2>4 DEF VersionsInv
  <1> QED BY <1>1, <1>6 DEF VersionsInv

LEMMA PutBackVersions ==
    ASSUME Typed, \A m \in Notes : VersionsInv(m), NEW snap \in trash,
           NEW some \in SUBSET DOMAIN snap.docs, PutBack(snap, some),
           trash' \subseteq trash, UNCHANGED <<deletes, read>>,
           critic' = critic \/ critic'.pc = "idle", NEW m \in Notes
    PROVE  VersionsInv(m)'
  <1> DEFINE new == {q \in some : ~Exists(q)}
  <1>1. mixed \subseteq mixed'
        /\ (m \in new /\ m \notin mixed' => ~(snap.docs[m].version < known[m].version))
    BY DEF PutBack
  <1>2. CASE m \notin new
    <2>1. disk'[m] = disk[m] /\ known'[m] = known[m]
      BY <1>2, TypesOf DEF PutBack
    <2> QED BY <1>1, <2>1, VersionsSame
  <1>3. CASE m \in new /\ m \notin mixed'
    <2>1. m \notin mixed /\ m \in DOMAIN snap.docs /\ snap.id \in 0..MaxDeletes
      BY <1>1, <1>3, TypesOf, BoundsAssumption DEF TrashInv, CountInv
    <2>2. snap.docs[m] \in Doc /\ snap.docs[m].version \in Nat /\ snap.docs[m].reviewed \in Nat
      BY <2>1, VersionsOf
    <2> DEFINE doc == PutBackOf(snap.docs[m], snap.id)
    <2>3. doc = PutBackOf(snap.docs[m], snap.id)
      OBVIOUS
    <2>4. disk'[m] = doc /\ known'[m] = doc
      BY <1>3, TypesOf DEF PutBack, PutBackOf
    <2> HIDE DEF doc
    <2>11. doc.version = snap.docs[m].version + 1 /\ doc.reviewed = snap.docs[m].reviewed
      BY <2>1, <2>2, <2>3, PutBackDoc
    <2>5. SoundSnapshots(m, trash, known[m]) /\ SoundReview(m, critic, known[m], read)
      BY <2>1 DEF VersionsInv
    <2>6. snap.docs[m].version <= known[m].version /\ doc.reviewed <= snap.docs[m].version
      BY <2>1, <2>5, <2>11 DEF SoundSnapshots
    <2>7. /\ doc.version \in Nat /\ doc.reviewed \in Nat /\ doc.version > 0
          /\ doc.reviewed < doc.version /\ known[m].version < doc.version
      BY <1>1, <1>3, <2>2, <2>6, <2>11, VersionsOf
    <2>8. SoundNote(disk'[m], known'[m], read')
      BY <2>4, <2>7 DEF SoundNote, Stamped
    <2>9. SoundSnapshots(m, trash', known'[m])
      BY <2>4, <2>5, <2>7, VersionsOf DEF SoundSnapshots
    <2>10. SoundReview(m, critic', known'[m], read')
      BY <2>4, <2>5, <2>7, VersionsOf DEF SoundReview
    <2> QED BY <2>4, <2>7, <2>8, <2>9, <2>10 DEF VersionsInv, Exists
  <1> QED BY <1>2, <1>3 DEF VersionsInv

LEMMA ReviewStartsVersions ==
    ASSUME Typed, \A m \in Notes : VersionsInv(m), NEW n \in Notes, ReviewStarts(n), NEW m \in Notes
    PROVE  VersionsInv(m)'
  <1>1. /\ UNCHANGED <<disk, trash, known, deletes, mixed>>
        /\ read' = read \cup {disk[n].text} /\ Exists(n)
        /\ critic' = [Unread EXCEPT !.pc = "reading", !.note = n, !.version = disk[n].version]
    BY DEF ReviewStarts, counts, Candidate
  <1>2. critic'.note = n /\ critic'.version = disk[n].version
    BY <1>1 DEF Unread
  <1>3. CASE m # n
    BY <1>1, <1>2, <1>3, VersionsSame
  <1>4. CASE m = n /\ n \notin mixed
    <2>1. known[n].version = disk[n].version /\ known[n].text = disk[n].text
      BY <1>1, <1>4 DEF VersionsInv, SoundNote, Exists
    <2>2. SoundReview(n, critic', known'[n], read')
      BY <1>1, <1>2, <2>1, VersionsOf DEF SoundReview
    <2>3. SoundNote(disk'[n], known'[n], read')
      BY <1>1, <1>4 DEF VersionsInv, SoundNote, Stamped
    <2> QED BY <1>1, <1>4, <2>2, <2>3 DEF VersionsInv, Exists
  <1> QED BY <1>1, <1>3, <1>4 DEF VersionsInv

LEMMA StampWritesVersions ==
    ASSUME Typed, \A m \in Notes : VersionsInv(m), StampWrites, NEW m \in Notes
    PROVE  VersionsInv(m)'
  <1> DEFINE n == critic.note
             doc == [critic.doc EXCEPT !.reviewed = StampVersion]
  <1>1. /\ UNCHANGED <<trash, known, deletes, read>> /\ mixed \subseteq mixed'
        /\ (n \notin mixed' => disk[n] = critic.doc)
        /\ critic.pc = "stamping" /\ critic'.pc = "idle"
    BY DEF StampWrites, counts, Stale, Unread
  <1>2. n \in Notes /\ critic.doc \in Doc /\ critic.version \in Nat /\ critic.doc.version > 0
    BY <1>1, TypesOf DEF CriticInv
  <1>3. doc.version = critic.doc.version /\ doc.text = critic.doc.text
        /\ doc.reviewed = critic.version
    BY <1>2, StampedDoc DEF StampVersion
  <1>4. disk' = [disk EXCEPT ![n] = doc]
    BY DEF StampWrites, Write
  <1> HIDE DEF doc
  <1>5. CASE m # n
    <2>1. disk'[m] = disk[m]
      BY <1>4, <1>5, TypesOf
    <2> QED BY <1>1, <2>1, VersionsSame
  <1>6. CASE m = n /\ n \notin mixed'
    <2>1. disk'[n] = doc
      BY <1>2, <1>4, TypesOf
    <2>2. SoundNote(disk[n], known[n], read) /\ SoundReview(n, critic, known[n], read)
          /\ SoundSnapshots(n, trash, known[n])
      BY <1>1, <1>6 DEF VersionsInv
    <2>3. SoundNote(disk'[n], known'[n], read')
      BY <1>1, <1>2, <1>3, <1>6, <2>1, <2>2, VersionsOf DEF SoundNote, SoundReview, Stamped
    <2> QED BY <1>1, <1>2, <1>3, <1>6, <2>1, <2>2, <2>3 DEF VersionsInv, SoundReview, Exists
  <1> QED BY <1>5, <1>6 DEF VersionsInv

\* A read-modify-write that lands on what was read keeps text and versions.
LEMMA LinkWritesVersions ==
    ASSUME Typed, \A m \in Notes : VersionsInv(m), NEW a \in Artists, LinkWrites(a), NEW m \in Notes
    PROVE  VersionsInv(m)'
  <1> DEFINE n == artist[a].note
             doc == [artist[a].doc EXCEPT !.links = @ \cup {artist[a].image}]
  <1>1. /\ UNCHANGED <<trash, known, critic, deletes, read>> /\ mixed \subseteq mixed'
        /\ (n \notin mixed' => disk[n] = artist[a].doc)
        /\ artist[a].pc = "linked" /\ disk' = [disk EXCEPT ![n] = doc]
    BY DEF LinkWrites, counts, Stale
  <1>2. n \in Notes /\ artist[a].doc \in Doc /\ artist[a].image \in Images
    BY <1>1, TypesOf DEF ArtistInv, Task
  <1>3. doc.version = artist[a].doc.version /\ doc.text = artist[a].doc.text
        /\ doc.reviewed = artist[a].doc.reviewed
    BY <1>2, LinkedDoc
  <1> HIDE DEF doc
  <1>4. disk'[m] = IF m = n THEN doc ELSE disk[m]
    BY <1>1, TypesOf
  <1> QED BY <1>1, <1>3, <1>4, VersionsSame

LEMMA ToolWritesVersions ==
    ASSUME Typed, \A m \in Notes : VersionsInv(m), ToolWrites, NEW m \in Notes
    PROVE  VersionsInv(m)'
  <1> DEFINE n == tool.path  more == tool.pc = "attach"
             doc == [tool.doc EXCEPT !.media = IF more THEN @ \cup {UploadOf(n)} ELSE @]
  <1>1. /\ UNCHANGED <<trash, known, critic, deletes, read>> /\ mixed \subseteq mixed'
        /\ (n \notin mixed' => disk[n] = tool.doc)
        /\ tool.pc \in {"attach", "keep"} /\ Write(n, doc)
    BY DEF ToolWrites, counts, Stale
  <1>2. n \in Notes /\ tool.doc \in Doc /\ more \in BOOLEAN
    BY <1>1, TypesOf DEF ToolInv
  <1>3. doc.version = tool.doc.version /\ doc.text = tool.doc.text
        /\ doc.reviewed = tool.doc.reviewed
    <2> HIDE DEF more
    <2> QED BY <1>2, AttachedDoc
  <1> HIDE DEF doc
  <1>4. disk'[m] = IF m = n THEN doc ELSE disk[m]
    BY <1>1, TypesOf DEF Write
  <1> QED BY <1>1, <1>3, <1>4, VersionsSame

LEMMA CreateImageVersions ==
    ASSUME Typed, \A m \in Notes : VersionsInv(m), NEW a \in Artists, CreateImage(a), NEW m \in Notes,
           Typed'
    PROVE  VersionsInv(m)'
  <1>1. UNCHANGED <<trash, known, critic, deletes, read, mixed>> /\ drawn' = drawn + 1
    BY DEF CreateImage, history
  <1>2. drawn + 1 \notin Notes
    <2>1. drawn + 1 \in 1..MaxImages
      BY <1>1, TypesOf, BoundsAssumption DEF Typed, TypeOK
    <2> QED BY <2>1, NotesAssumption
  <1>3. disk'[m] = disk[m]
    BY <1>2, TypesOf DEF CreateImage, Write
  <1> QED BY <1>1, <1>3, VersionsSame

LEMMA NextVersions ==
    ASSUME Typed, \A m \in Notes : VersionsInv(m), [Next]_vars
    PROVE  \A m \in Notes : VersionsInv(m)'
  <1> SUFFICES ASSUME NEW m \in Notes PROVE VersionsInv(m)'
    OBVIOUS
  <1>1. CASE Requests
    <2>1. ASSUME NEW snap \in trash, Restore(snap) PROVE VersionsInv(m)'
      <3>1. PutBack(snap, DOMAIN snap.docs) /\ UNCHANGED <<deletes, read, critic>>
            /\ trash' \subseteq trash
        BY <2>1 DEF Restore, tasks, counts
      <3> QED BY <3>1, PutBackVersions
    <2> QED BY <1>1, <2>1, CreateVersions, EditVersions, DeleteVersions DEF Requests
  <1>2. CASE Illustration
    <2>1. ASSUME NEW n \in Notes, JobStarts(n) \/ ToolAsks(n) PROVE VersionsInv(m)'
      <3>1. UNCHANGED <<disk, trash, known, critic, deletes, mixed, read>>
        BY <2>1 DEF JobStarts, ToolAsks, counts, history
      <3> QED BY <3>1, VersionsSame
    <2>2. ASSUME NEW a \in Artists, NEW b \in 1..2, Draw(a, b) PROVE VersionsInv(m)'
      <3>1. UNCHANGED <<disk, trash, known, critic, deletes, mixed, read>>
        BY <2>2 DEF Draw, counts, history
      <3> QED BY <3>1, VersionsSame
    <2>3. ASSUME NEW a \in Artists, DrawFails(a) \/ LinkReads(a) PROVE VersionsInv(m)'
      <3>1. UNCHANGED <<disk, trash, known, critic, deletes, mixed, read>>
        BY <2>3 DEF DrawFails, LinkReads, counts, history
      <3> QED BY <3>1, VersionsSame
    <2> QED BY <1>2, <2>1, <2>2, <2>3, CreateImageVersions, LinkWritesVersions, NextTyped
        DEF Illustration, Next
  <1>3. CASE Review
    <2>1. CASE ReviewFails
      <3>1. UNCHANGED <<disk, trash, known, deletes, mixed, read>> /\ critic'.pc = "idle"
        BY <2>1 DEF ReviewFails, counts, history, Unread
      <3> QED BY <3>1, VersionsSame
    <2>2. CASE StampReads
      <3>1. UNCHANGED <<disk, trash, known, deletes, mixed, read>>
        BY <2>2 DEF StampReads, counts, history
      <3>2. critic.pc # "idle" /\ critic'.note = critic.note /\ critic'.version = critic.version
        BY <2>2, TypesOf DEF StampReads, CriticInv
      <3> QED BY <3>1, <3>2, VersionsSame
    <2> QED BY <1>3, <2>1, <2>2, ReviewStartsVersions, StampWritesVersions DEF Review
  <1>4. CASE ToolCalls
    <2>1. ASSUME AttachReads \/ \E n \in Notes : Upload(n) \/ ToolReads(n) PROVE VersionsInv(m)'
      <3>1. UNCHANGED <<disk, trash, known, critic, deletes, mixed, read>>
        BY <2>1 DEF AttachReads, Upload, ToolReads, counts, history, owner
      <3> QED BY <3>1, VersionsSame
    <2> QED BY <1>4, <2>1, ToolWritesVersions DEF ToolCalls
  <1>5. CASE Stops
    <2>1. CASE Restart
      <3>1. UNCHANGED <<disk, trash, known, deletes, mixed, read>> /\ critic'.pc = "idle"
        BY <2>1 DEF Restart, Stopped, owner, history, Unread
      <3> QED BY <3>1, VersionsSame
    <2>2. ASSUME NEW snap \in trash, NEW some \in SUBSET DOMAIN snap.docs,
                 RestoreBreaksOff(snap, some)
          PROVE  VersionsInv(m)'
      <3>1. PutBack(snap, some) /\ UNCHANGED <<deletes, read, trash>> /\ critic'.pc = "idle"
        BY <2>2 DEF RestoreBreaksOff, Stopped, Unread
      <3> QED BY <3>1, PutBackVersions
    <2> QED BY <1>5, <2>1, <2>2 DEF Stops
  <1>6. CASE UNCHANGED vars
    <2>1. UNCHANGED <<disk, trash, known, critic, deletes, mixed, read>>
      BY <1>6 DEF vars, owner, tasks, counts, history
    <2> QED BY <2>1, VersionsSame
  <1> QED BY <1>1, <1>2, <1>3, <1>4, <1>5, <1>6 DEF Next

-----------------------------------------------------------------------------
(* Images, action by action. *)

LEMMA ChildrenFinite ==
    ASSUME NEW p, NEW d
    PROVE  /\ Children(p, d) \subseteq Images /\ IsFiniteSet(Children(p, d))
           /\ Cardinality(Children(p, d)) \in Nat
  <1>1. IsFiniteSet(Images)
    BY BoundsAssumption, FS_Interval DEF Images
  <1>2. Children(p, d) \subseteq Images
    BY DEF Children
  <1> QED BY <1>1, <1>2, FS_Subset, FS_CardinalityType

LEMMA DueNat == \A a, n : Due(a, n) \in {0, 1}
  BY DEF Due

\* No image more, and no drawing begun.
LEMMA ImagesSame ==
    ASSUME ImagesInv, extra \in Nat, extra' = extra,
           \A c \in Images : disk'[c] = disk[c] \/ disk'[c].version = 0,
           \A a \in Artists : Draws(artist'[a]) => Draws(artist[a]) /\ artist'[a].note = artist[a].note
    PROVE  ImagesInv'
  <1>1. artist'["tool"].pc \in {"drawing", "saved"} => extra' >= 1
    BY DEF ImagesInv, Draws, Artists
  <1>2. ASSUME NEW n \in Notes
        PROVE  Cardinality(Children(n, disk')) + Due("job", n)' + Due("tool", n)' <= 1 + extra'
    <2> DEFINE before == Children(n, disk)  after == Children(n, disk')
    <2>1. after \subseteq before
      BY DEF Children
    <2>2. Cardinality(after) <= Cardinality(before) /\ Cardinality(after) \in Nat
          /\ Cardinality(before) \in Nat
      <3>1. IsFiniteSet(before) /\ Cardinality(after) \in Nat /\ Cardinality(before) \in Nat
        BY ChildrenFinite
      <3> HIDE DEF before, after
      <3> QED BY <2>1, <3>1, FS_Subset
    <2>3. \A a \in Artists : Due(a, n)' <= Due(a, n) /\ Due(a, n) \in Nat /\ Due(a, n)' \in Nat
      BY DEF Due, Draws
    <2>4. Cardinality(before) + Due("job", n) + Due("tool", n) <= 1 + extra
      BY DEF ImagesInv
    <2>5. "job" \in Artists /\ "tool" \in Artists
      BY DEF Artists
    <2> HIDE DEF before, after
    <2> QED BY <2>2, <2>3, <2>4, <2>5 DEF after
  <1> QED BY <1>1, <1>2 DEF ImagesInv

LEMMA JobStartsImages ==
    ASSUME Typed, ImagesInv, NEW n \in Notes, JobStarts(n) PROVE ImagesInv'
  <1>1. disk' = disk /\ extra' = extra /\ extra \in Nat
    BY TypesOf DEF JobStarts, history, CountInv
  <1>2. CASE ~ShouldDraw(n)
    BY <1>1, <1>2, ImagesSame DEF JobStarts
  <1>3. CASE ShouldDraw(n)
    <2>1. Children(n, disk) = {} /\ artist["job"].pc = "idle"
          /\ artist' = [artist EXCEPT !["job"].pc = "drawing", !["job"].note = n]
      BY <1>3, RestingTask DEF JobStarts, ShouldDraw, Free
    <2>2. artist'["tool"] = artist["tool"] /\ artist'["job"].note = n
      BY <2>1, TypesOf DEF ArtistInv, Task
    <2>3. ASSUME NEW m \in Notes
          PROVE  Cardinality(Children(m, disk')) + Due("job", m)' + Due("tool", m)' <= 1 + extra'
      <3>1. CASE m # n
        <4>1. Due("job", m)' = 0 /\ Due("job", m) = 0 /\ Due("tool", m)' = Due("tool", m)
          BY <2>1, <2>2, <3>1 DEF Due
        <4> QED BY <1>1, <4>1 DEF ImagesInv
      <3>2. CASE m = n
        <4>1. Cardinality(Children(m, disk')) = 0
          BY <1>1, <2>1, <3>2, FS_EmptySet
        <4>2. Due("tool", m)' \in {0, 1} /\ (Due("tool", m)' = 1 => extra >= 1)
          BY <2>2 DEF Due, ImagesInv
        <4>3. Due("job", m)' \in {0, 1}
          BY DEF Due
        <4> QED BY <1>1, <4>1, <4>2, <4>3
      <3> QED BY <3>1, <3>2
    <2> QED BY <1>1, <2>2, <2>3 DEF ImagesInv
  <1> QED BY <1>2, <1>3

LEMMA ToolAsksImages ==
    ASSUME Typed, ImagesInv, NEW n \in Notes, ToolAsks(n) PROVE ImagesInv'
  <1>1. /\ disk' = disk /\ extra' = extra + 1 /\ extra \in Nat
        /\ Children(n, disk) = {} /\ artist["tool"].pc = "idle"
        /\ artist' = [artist EXCEPT !["tool"].pc = "drawing", !["tool"].note = n]
    BY TypesOf, RestingTask DEF ToolAsks, CountInv, ShouldDraw, Free
  <1>2. artist'["job"] = artist["job"] /\ artist'["tool"].note = n
    BY <1>1, TypesOf DEF ArtistInv, Task
  <1>3. ASSUME NEW m \in Notes
        PROVE  Cardinality(Children(m, disk')) + Due("job", m)' + Due("tool", m)' <= 1 + extra'
    <2>1. Due("job", m)' = Due("job", m) /\ Due("job", m) \in {0, 1} /\ Due("tool", m)' \in {0, 1}
      BY <1>2 DEF Due
    <2>2. CASE m # n
      <3>1. Due("tool", m)' = 0 /\ Due("tool", m) = 0
        BY <1>1, <1>2, <2>2 DEF Due
      <3>2. Cardinality(Children(m, disk)) + Due("job", m) + Due("tool", m) <= 1 + extra
        BY DEF ImagesInv
      <3>3. Cardinality(Children(m, disk)) \in Nat
        BY ChildrenFinite
      <3> QED BY <1>1, <2>1, <3>1, <3>2, <3>3
    <2>3. CASE m = n
      <3>1. Cardinality(Children(m, disk')) = 0
        BY <1>1, <2>3, FS_EmptySet
      <3> QED BY <1>1, <2>1, <3>1
    <2> QED BY <2>2, <2>3
  <1>4. extra' >= 1
    BY <1>1
  <1> QED BY <1>3, <1>4 DEF ImagesInv

LEMMA CreateImageImages ==
    ASSUME Typed, ImagesInv, NEW a \in Artists, CreateImage(a) PROVE ImagesInv'
  <1> DEFINE n == artist[a].note  c == drawn + 1
             doc == [NoDoc EXCEPT !.version = 1, !.media = {PictureOf(n)}, !.source = n]
  <1>1. /\ disk' = [disk EXCEPT ![c] = doc] /\ extra' = extra /\ artist[a].pc = "saved"
        /\ artist' = [artist EXCEPT ![a].pc = "linking", ![a].image = c] /\ extra \in Nat
    BY TypesOf DEF CreateImage, Write, history, CountInv
  <1>2. n \in Notes
    BY <1>1, TypesOf DEF ArtistInv
  <1>3. doc.source = n
    BY <1>2, ImageDoc
  <1> HIDE DEF doc, c
  <1>4. artist'[a].pc = "linking" /\ \A b \in Artists \ {a} : artist'[b] = artist[b]
    BY <1>1, TypesOf DEF ArtistInv, Task
  <1>5. ASSUME NEW m \in Notes
        PROVE  Cardinality(Children(m, disk')) + Due("job", m)' + Due("tool", m)' <= 1 + extra'
    <2> DEFINE before == Cardinality(Children(m, disk))  after == Cardinality(Children(m, disk'))
    <2>1. before \in Nat /\ after \in Nat
      BY ChildrenFinite
    <2>2. after <= before + (IF m = n THEN 1 ELSE 0)
      <3>1. CASE m = n
        <4>1. Children(m, disk') \subseteq Children(m, disk) \cup {c}
          BY <1>1, TypesOf DEF Children, Paths
        <4>2. IsFiniteSet(Children(m, disk)) /\ Cardinality(Children(m, disk)) \in Nat
          BY ChildrenFinite
        <4>3. /\ IsFiniteSet(Children(m, disk) \cup {c})
              /\ Cardinality(Children(m, disk) \cup {c}) <= before + 1
              /\ Cardinality(Children(m, disk) \cup {c}) \in Nat
          <5>1. /\ IsFiniteSet(Children(m, disk) \cup {c})
                /\ Cardinality(Children(m, disk) \cup {c})
                       = IF c \in Children(m, disk) THEN before ELSE before + 1
            BY <4>2, FS_AddElement
          <5> HIDE DEF before
          <5> QED BY <2>1, <5>1
        <4>4. after <= Cardinality(Children(m, disk) \cup {c})
          BY <4>1, <4>3, FS_Subset
        <4> HIDE DEF before, after
        <4> QED BY <2>1, <3>1, <4>3, <4>4
      <3>2. CASE m # n
        <4>1. Children(m, disk') \subseteq Children(m, disk)
          BY <1>1, <1>3, <3>2, TypesOf DEF Children, Paths
        <4>2. IsFiniteSet(Children(m, disk))
          BY ChildrenFinite
        <4>3. after <= before
          BY <4>1, <4>2, FS_Subset
        <4> HIDE DEF before, after
        <4> QED BY <2>1, <3>2, <4>3
      <3> QED BY <3>1, <3>2
    <2>3. before + Due("job", m) + Due("tool", m) <= 1 + extra
      BY DEF ImagesInv
    <2>4. Due(a, m)' = 0 /\ Due(a, m) = (IF m = n THEN 1 ELSE 0)
      BY <1>1, <1>4 DEF Due
    <2>5. \A b \in Artists \ {a} : Due(b, m)' = Due(b, m) /\ Due(b, m) \in {0, 1}
      BY <1>4 DEF Due
    <2> HIDE DEF before, after
    <2>6. a = "job" \/ a = "tool"
      BY DEF Artists
    <2>7. CASE a = "job"
      <3>1. Due("tool", m)' = Due("tool", m) /\ Due("tool", m) \in {0, 1}
        BY <2>5, <2>7 DEF Artists
      <3> QED BY <1>1, <2>1, <2>2, <2>3, <2>4, <2>7, <3>1 DEF after
    <2>8. CASE a = "tool"
      <3>1. Due("job", m)' = Due("job", m) /\ Due("job", m) \in {0, 1}
        BY <2>5, <2>8 DEF Artists
      <3> QED BY <1>1, <2>1, <2>2, <2>3, <2>4, <2>8, <3>1 DEF after
    <2> QED BY <2>6, <2>7, <2>8
  <1>6. artist'["tool"].pc \in {"drawing", "saved"} => extra' >= 1
    BY <1>1, <1>4 DEF ImagesInv, Artists
  <1> QED BY <1>5, <1>6 DEF ImagesInv

\* Images that come back from the trash are counted.
LEMMA PutBackImages ==
    ASSUME Typed, ImagesInv, NEW snap \in trash, NEW some \in SUBSET DOMAIN snap.docs,
           PutBack(snap, some),
           \A a \in Artists : Draws(artist'[a]) => artist'[a] = artist[a]
    PROVE  ImagesInv'
  <1> DEFINE new == {q \in some : ~Exists(q)}  more == Cardinality(new \cap Images)
  <1>1. IsFiniteSet(new \cap Images) /\ more \in Nat
    <2>1. IsFiniteSet(Images)
      BY BoundsAssumption, FS_Interval DEF Images
    <2> QED BY <2>1, FS_Subset, FS_CardinalityType
  <1>2. extra' = extra + more /\ extra \in Nat
    BY TypesOf DEF PutBack, CountInv
  <1>3. \A q \in Paths \ new : disk'[q] = disk[q]
    BY TypesOf DEF PutBack
  <1> HIDE DEF new, more
  <1>4. ASSUME NEW m \in Notes
        PROVE  Cardinality(Children(m, disk')) + Due("job", m)' + Due("tool", m)' <= 1 + extra'
    <2> DEFINE before == Cardinality(Children(m, disk))  after == Cardinality(Children(m, disk'))
               U == Children(m, disk) \cup (new \cap Images)
    <2>1. before \in Nat /\ after \in Nat
      BY ChildrenFinite
    <2>2. Children(m, disk') \subseteq U
      BY <1>3 DEF Children, Paths
    <2>3. IsFiniteSet(U) /\ Cardinality(U) <= before + more
      <3>1. IsFiniteSet(Children(m, disk))
        BY ChildrenFinite
      <3>2. IsFiniteSet(U) /\ Cardinality(U) = before + more
                - Cardinality(Children(m, disk) \cap (new \cap Images))
        BY <1>1, <3>1, FS_Union DEF more
      <3>3. Cardinality(Children(m, disk) \cap (new \cap Images)) \in Nat
        BY <3>1, FS_Subset, FS_CardinalityType
      <3> HIDE DEF before, U
      <3> QED BY <1>1, <2>1, <3>2, <3>3
    <2>4. after <= Cardinality(U) /\ Cardinality(U) \in Nat
      BY <2>2, <2>3, FS_Subset, FS_CardinalityType
    <2>5. before + Due("job", m) + Due("tool", m) <= 1 + extra
      BY DEF ImagesInv
    <2>6. \A a \in Artists : Due(a, m)' <= Due(a, m) /\ Due(a, m) \in Nat /\ Due(a, m)' \in Nat
      BY DEF Due, Draws
    <2>7. "job" \in Artists /\ "tool" \in Artists
      BY DEF Artists
    <2> HIDE DEF before, after, U
    <2> QED BY <1>1, <1>2, <2>1, <2>3, <2>4, <2>5, <2>6, <2>7 DEF after
  <1>5. artist'["tool"].pc \in {"drawing", "saved"} => extra' >= 1
    <2>1. artist'["tool"].pc \in {"drawing", "saved"} => extra >= 1
      BY DEF ImagesInv, Draws, Artists
    <2> QED BY <1>1, <1>2, <2>1
  <1> QED BY <1>4, <1>5 DEF ImagesInv

LEMMA EndsDraws ==
    ASSUME Typed, NEW a \in Artists, artist' = [artist EXCEPT ![a] = Resting]
    PROVE  \A b \in Artists : Draws(artist'[b]) => Draws(artist[b]) /\ artist'[b].note = artist[b].note
  BY TypesOf, RestingTask DEF ArtistInv, Draws

LEMMA NextImages ==
    ASSUME Typed, ImagesInv, [Next]_vars PROVE ImagesInv'
  <1>0. extra \in Nat
    BY TypesOf DEF CountInv
  <1>1. CASE Requests
    <2>1. ASSUME NEW n \in Notes, NEW old, Create(n, old) PROVE ImagesInv'
      <3>1. \A c \in Images : disk'[c] = disk[c]
        BY <2>1, TypesOf, NotesAssumption DEF Create, Write, Images
      <3>2. UNCHANGED <<extra, artist>>
        BY <2>1 DEF Create
      <3> QED BY <1>0, <3>1, <3>2, ImagesSame
    <2>2. ASSUME NEW n \in Notes, NEW had, Edit(n, had) PROVE ImagesInv'
      <3>1. \A c \in Images : disk'[c] = disk[c]
        BY <2>2, TypesOf, NotesAssumption DEF Edit, Write, Images
      <3>2. UNCHANGED <<extra, artist>>
        BY <2>2 DEF Edit, history
      <3> QED BY <1>0, <3>1, <3>2, ImagesSame
    <2>3. ASSUME NEW p \in Paths, Delete(p) PROVE ImagesInv'
      <3>1. \A c \in Images : disk'[c] = disk[c] \/ disk'[c].version = 0
        BY <2>3, TypesOf, NoDocTyped DEF Delete
      <3>2. UNCHANGED <<extra, artist>>
        BY <2>3 DEF Delete, history, tasks
      <3> QED BY <1>0, <3>1, <3>2, ImagesSame
    <2>4. ASSUME NEW snap \in trash, Restore(snap) PROVE ImagesInv'
      <3>1. PutBack(snap, DOMAIN snap.docs) /\ artist' = artist
        BY <2>4 DEF Restore, tasks
      <3> QED BY <3>1, PutBackImages
    <2> QED BY <1>1, <2>1, <2>2, <2>3, <2>4 DEF Requests
  <1>2. CASE Illustration
    <2>1. ASSUME NEW a \in Artists, NEW b \in 1..2, Draw(a, b) PROVE ImagesInv'
      <3>1. UNCHANGED <<disk, extra>> /\ artist' = [artist EXCEPT ![a].pc = "saved"]
            /\ artist[a].pc = "drawing"
        BY <2>1 DEF Draw, Moves, history
      <3>2. \A c \in Artists : artist'[c].note = artist[c].note
                               /\ (Draws(artist'[c]) => Draws(artist[c]))
        BY <3>1, TypesOf DEF ArtistInv, Task, Draws
      <3> QED BY <1>0, <3>1, <3>2, ImagesSame
    <2>2. ASSUME NEW a \in Artists, DrawFails(a) PROVE ImagesInv'
      <3>1. UNCHANGED <<disk, extra>> /\ artist' = [artist EXCEPT ![a] = Resting]
        BY <2>2 DEF DrawFails, Ends, history
      <3> QED BY <1>0, <3>1, EndsDraws, ImagesSame
    <2>3. ASSUME NEW a \in Artists, LinkReads(a) PROVE ImagesInv'
      <3>1. UNCHANGED <<disk, extra>> /\ artist[a].pc = "linking"
        BY <2>3 DEF LinkReads, history
      <3>2. CASE Ends(a)
        BY <1>0, <3>1, <3>2, EndsDraws, ImagesSame DEF Ends
      <3>3. CASE artist' = [artist EXCEPT ![a].pc = "linked", ![a].doc = disk[artist[a].note]]
        <4>1. \A c \in Artists : artist'[c].note = artist[c].note
                                 /\ (Draws(artist'[c]) => Draws(artist[c]))
          BY <3>3, TypesOf DEF ArtistInv, Task, Draws
        <4> QED BY <1>0, <3>1, <4>1, ImagesSame
      <3> QED BY <2>3, <3>2, <3>3 DEF LinkReads
    <2>4. ASSUME NEW a \in Artists, LinkWrites(a) PROVE ImagesInv'
      <3>1. artist[a].note \in Notes
        BY <2>4, TypesOf DEF LinkWrites, ArtistInv
      <3>2. \A c \in Images : disk'[c] = disk[c]
        BY <2>4, <3>1, TypesOf, NotesAssumption DEF LinkWrites, Images
      <3>3. extra' = extra /\ artist' = [artist EXCEPT ![a] = Resting]
        BY <2>4 DEF LinkWrites
      <3> QED BY <1>0, <3>2, <3>3, EndsDraws, ImagesSame
    <2> QED BY <1>2, <2>1, <2>2, <2>3, <2>4, JobStartsImages, ToolAsksImages, CreateImageImages
        DEF Illustration
  <1>3. CASE Review
    <2>1. \A c \in Images : disk'[c] = disk[c]
      <3>1. StampWrites => critic.note \in Notes
        BY TypesOf DEF StampWrites, CriticInv
      <3> QED BY <1>3, <3>1, TypesOf, NotesAssumption
          DEF Review, ReviewStarts, ReviewFails, StampReads, StampWrites, Write, Images
    <2>2. UNCHANGED <<extra, artist>>
      BY <1>3 DEF Review, ReviewStarts, ReviewFails, StampReads, StampWrites, history
    <2> QED BY <1>0, <2>1, <2>2, ImagesSame
  <1>4. CASE ToolCalls
    <2>1. \A c \in Images : disk'[c] = disk[c]
      <3>1. ToolWrites => tool.path \in Notes
        BY TypesOf DEF ToolWrites, ToolInv
      <3> QED BY <1>4, <3>1, TypesOf, NotesAssumption
          DEF ToolCalls, Upload, AttachReads, ToolReads, ToolWrites, Write, Images
    <2>2. UNCHANGED <<extra, artist>>
      BY <1>4 DEF ToolCalls, Upload, AttachReads, ToolReads, ToolWrites, history
    <2> QED BY <1>0, <2>1, <2>2, ImagesSame
  <1>5. CASE Stops
    <2>1. \A a \in Artists : ~Draws(artist'[a])
      <3>1. Stopped
        BY <1>5 DEF Stops, Restart, RestoreBreaksOff
      <3> QED BY <3>1, RestingTask DEF Stopped, Draws
    <2>2. CASE Restart
      BY <1>0, <2>1, <2>2, ImagesSame DEF Restart, history
    <2>3. ASSUME NEW snap \in trash, NEW some \in SUBSET DOMAIN snap.docs,
                 RestoreBreaksOff(snap, some)
          PROVE  ImagesInv'
      BY <2>1, <2>3, PutBackImages DEF RestoreBreaksOff
    <2> QED BY <1>5, <2>2, <2>3 DEF Stops
  <1>6. CASE UNCHANGED vars
    <2>1. UNCHANGED <<disk, extra, artist>>
      BY <1>6 DEF vars, tasks, history
    <2> QED BY <1>0, <2>1, ImagesSame
  <1> QED BY <1>1, <1>2, <1>3, <1>4, <1>5, <1>6 DEF Next

-----------------------------------------------------------------------------
(* The invariant and what it yields. *)

LEMMA InitInv == ASSUME Init PROVE IInv
  <1>1. \A n \in Notes : VersionsInv(n)
    <2>1. ASSUME NEW n \in Notes PROVE VersionsInv(n)
      <3>1. disk[n] = NoDoc /\ known[n] = NoDoc /\ trash = {} /\ critic.pc = "idle"
        BY DEF Init, Paths, Unread
      <3> QED BY <3>1, NoDocTyped
          DEF VersionsInv, SoundNote, SoundSnapshots, SoundReview, Exists
    <2> QED BY <2>1
  <1>2. ImagesInv
    <2>1. \A a \in Artists : artist[a].pc = "idle"
      BY RestingTask DEF Init
    <2>2. ASSUME NEW n \in Notes
          PROVE  Cardinality(Children(n, disk)) + Due("job", n) + Due("tool", n) <= 1 + extra
      <3>1. Children(n, disk) = {}
        BY NoDocTyped DEF Init, Children, Paths
      <3>2. Cardinality(Children(n, disk)) = 0
        BY <3>1, FS_EmptySet
      <3>3. Due("job", n) = 0 /\ Due("tool", n) = 0 /\ extra = 0
        BY <2>1 DEF Due, Artists, Init
      <3> QED BY <3>2, <3>3
    <2> QED BY <2>1, <2>2 DEF ImagesInv, Artists
  <1> QED BY <1>1, <1>2, InitTyped DEF IInv

LEMMA NextInv == ASSUME IInv, [Next]_vars PROVE IInv'
  <1>1. Typed' /\ ImagesInv' /\ \A n \in Notes : VersionsInv(n)'
    BY NextTyped, NextImages, NextVersions DEF IInv
  <1> QED BY <1>1 DEF IInv

LEMMA Invariance == Spec => []IInv
  BY InitInv, NextInv, PTL DEF Spec

\* The bundle, the snapshots and every task of the server's writers keep their
\* types, and the note of the running illustration job stays queued.
THEOREM TypeCorrect == Spec => []TypeOK
  <1>1. IInv => TypeOK
    BY DEF IInv, Typed
  <1> QED BY <1>1, Invariance, PTL

\* A note that Marena skips as reviewed had its present text read by a review,
\* whatever was edited, deleted, restored or written back meanwhile.
THEOREM SkippedWereRead == Spec => []SkippedNotesWereRead
  <1>1. IInv => SkippedNotesWereRead
    <2>1. ASSUME IInv, NEW n \in Notes, Exists(n), ~Candidate(n), n \notin mixed
          PROVE  disk[n].text \in read
      <3>1. Typed /\ SoundNote(disk[n], known[n], read)
        BY <2>1 DEF IInv, VersionsInv
      <3>2. disk[n].version \in Nat /\ disk[n].reviewed \in Nat
        BY <3>1, VersionsOf
      <3> QED BY <2>1, <3>1, <3>2 DEF Exists, Candidate, SoundNote, Stamped
    <2> QED BY <2>1 DEF SkippedNotesWereRead
  <1> QED BY <1>1, Invariance, PTL

\* The illustration job and its queue never give a note a second image.
THEOREM ImagesAsked == Spec => []ImagesAreAskedFor
  <1>1. IInv => ImagesAreAskedFor
    <2>1. ASSUME IInv, NEW n \in Notes
          PROVE  Cardinality({c \in Images : Exists(c) /\ disk[c].source = n}) <= 1 + extra
      <3>1. {c \in Images : Exists(c) /\ disk[c].source = n} = Children(n, disk)
        BY DEF Children, Exists
      <3>2. /\ Cardinality(Children(n, disk)) + Due("job", n) + Due("tool", n) <= 1 + extra
            /\ extra \in Nat
        BY <2>1, TypesOf DEF IInv, ImagesInv, CountInv
      <3>3. Cardinality(Children(n, disk)) \in Nat
        BY ChildrenFinite
      <3> QED BY <3>1, <3>2, <3>3, DueNat
    <2> QED BY <2>1 DEF ImagesAreAskedFor
  <1> QED BY <1>1, Invariance, PTL

\* A snapshot leaves the trash only when all of it is back in the bundle.
THEOREM WholeRestores == Spec => RestoresAreWhole
  <1>1. ASSUME IInv, Next
        PROVE  \A s \in trash \ trash' :
                  /\ \A q \in DOMAIN s.docs : disk'[q].version > 0 /\ disk'[q].back = s.id
                  /\ \A m \in DOMAIN s.files : files'[m] = s.files[m]
    <2> SUFFICES ASSUME NEW snap \in trash, snap \notin trash'
                 PROVE  /\ \A q \in DOMAIN snap.docs : disk'[q].version > 0 /\ disk'[q].back = snap.id
                        /\ \A m \in DOMAIN snap.files : files'[m] = snap.files[m]
      OBVIOUS
    <2>1. Typed
      BY <1>1 DEF IInv
    <2>2. Restore(snap)
      <3>1. CASE Requests
        BY <3>1 DEF Requests, Create, Edit, Delete, Restore
      <3>2. CASE Illustration
        BY <3>2 DEF Illustration, JobStarts, ToolAsks, Draw, DrawFails, CreateImage, LinkReads,
                    LinkWrites
      <3>3. CASE Review
        BY <3>3 DEF Review, ReviewStarts, ReviewFails, StampReads, StampWrites
      <3>4. CASE ToolCalls
        BY <3>4 DEF ToolCalls, Upload, AttachReads, ToolReads, ToolWrites
      <3>5. CASE Stops
        BY <3>5 DEF Stops, Restart, RestoreBreaksOff
      <3> QED BY <3>1, <3>2, <3>3, <3>4, <3>5, <1>1 DEF Next
    <2>3. Snapshot(snap) /\ snap.id \in 0..MaxDeletes
      BY <2>1, TypesOf, BoundsAssumption DEF TrashInv, CountInv
    <2>4. ASSUME NEW q \in DOMAIN snap.docs PROVE disk'[q].version > 0 /\ disk'[q].back = snap.id
      <3>1. q \in Paths /\ snap.docs[q] \in Doc /\ snap.docs[q].version \in Nat
        BY <2>3 DEF Snapshot, Doc
      <3>2. disk'[q] = IF ~Exists(q) THEN PutBackOf(snap.docs[q], snap.id) ELSE disk[q]
        BY <2>2, <3>1 DEF Restore, PutBack, PutBackOf
      <3>3. CASE Exists(q)
        BY <2>2, <3>2, <3>3 DEF Restore, Restorable, Exists
      <3>4. CASE ~Exists(q)
        <4>1. disk'[q].version = snap.docs[q].version + 1 /\ disk'[q].back = snap.id
          BY <2>3, <3>1, <3>2, <3>4, PutBackDoc
        <4> QED BY <3>1, <4>1
      <3> QED BY <3>3, <3>4
    <2>5. ASSUME NEW m \in DOMAIN snap.files PROVE files'[m] = snap.files[m]
      BY <2>2, <2>3 DEF Restore, PutBack, Snapshot
    <2> QED BY <2>4, <2>5
  <1>2. IInv /\ [Next]_vars =>
          [\A s \in trash \ trash' :
              /\ \A q \in DOMAIN s.docs : disk'[q].version > 0 /\ disk'[q].back = s.id
              /\ \A m \in DOMAIN s.files : files'[m] = s.files[m]]_vars
    BY <1>1
  <1> QED BY <1>2, Invariance, PTL DEF Spec, RestoresAreWhole
=============================================================================
