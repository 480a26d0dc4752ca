----------------------------- MODULE SearchIndex -----------------------------
(***************************************************************************)
(* The search index over the notes, and the searches that read it.         *)
(*                                                                         *)
(* A write runs BundleStore's observers under the bundle lock, and with    *)
(* them the indexing of the note.  The observer may first add the texts of *)
(* the note's attachments to it, in a write of its own.  Chat tools index  *)
(* the note they wrote once more, after the lock, from the document they   *)
(* hold; importing a backup notifies nobody and indexes all notes          *)
(* afterwards.  Indexing takes the note out, has its chunks embedded and   *)
(* puts them in one by one; the index itself has no lock.  A note that     *)
(* cannot be embedded is left out.                                         *)
(***************************************************************************)
EXTENDS Naturals, FiniteSets, FiniteSetsExt, Functions

CONSTANTS
    Notes, NoNote,
    Tools,          \* threads of chat tools and image jobs
    Hidden,         \* archived notes and transcripts: the library shows them on request only
    MaxTexts,       \* writes of notes
    Sizes,          \* chunks of each text written
    Extra,          \* search looks at so many chunks for each note it wants
    Spare,          \* the library asks for so many notes for each it shows
    MaxFailures, MaxRestarts

ASSUME BoundsAssumption ==
    /\ {MaxTexts, MaxFailures, MaxRestarts} \subseteq Nat
    /\ {Extra, Spare} \subseteq Nat \ {0} /\ Sizes \in [1..MaxTexts -> Nat \ {0}]
ASSUME NotesAssumption == Hidden \subseteq Notes /\ NoNote \notin Notes

VARIABLES
    disk,       \* the text of each note, 0 if it is not there
    entries,    \* the index: for each chunk of a note the text it is of, or 0
    job,        \* indexing in progress: under the lock, of a tool, of an import
    todo,       \* notes an import has listed and still has to index
    texts, failures, restarts,      \* bounded counters
    doubt       \* history: notes whose last indexing failed, met another or was of
                \* a document that is not on disk

counts == <<texts, failures, restarts>>
vars == <<disk, entries, job, todo, counts, doubt>>

Texts == 1..MaxTexts
Chunks == 1..Max({Sizes[i] : i \in Texts} \cup {1})
Exists(n) == disk[n] \in Texts

Lock == "lock"
Import == "import"
Threads == Tools \cup {Lock, Import}

ASSUME ThreadsAssumption == {Lock, Import} \cap Tools = {}
Idle == [pc |-> "idle", note |-> NoNote, text |-> 0, next |-> 1,
         tool |-> Lock,     \* under the lock: the tool that wrote, Lock if none,
         own |-> 0,         \* the document it holds,
         again |-> FALSE]   \* and whether the note is to be indexed a second time

\* Faulty variant: the lock is released before the observers run.
LockFreeEarly == job[Lock].pc # "store"

LockFree == job[Lock] = Idle

\* Indexing of a note that is going on.
Busy(n) == n \in DOMAIN todo \/ \E t \in Threads : job[t].pc # "idle" /\ job[t].note = n

\* By others than mine.
Met(mine, n) == n \in DOMAIN todo \/ \E u \in Threads \ mine : job[u].pc # "idle" /\ job[u].note = n

TypeOK ==
    /\ disk \in [Notes -> 0..MaxTexts]
    /\ entries \in [Notes -> [Chunks -> 0..MaxTexts]]
    /\ \A t \in Threads :
          /\ job[t].pc \in {"idle", "read", "remove", "embed", "store", "drop", "list", "clear"}
          /\ job[t].pc = "store" => job[t].next <= Sizes[job[t].text]
          /\ job[t].pc # "idle" /\ t = Lock => job[t].text = disk[job[t].note]
    /\ DOMAIN todo \subseteq Notes
    /\ doubt \subseteq Notes

\* The index of a text.
IndexOf(text) == [c \in Chunks |-> IF text \in Texts /\ c <= Sizes[text] THEN text ELSE 0]

\* index_concept's own start, and startup: all notes are indexed.
Init ==
    /\ disk = [n \in Notes |-> 0] /\ entries = [n \in Notes |-> IndexOf(0)]
    /\ job = [t \in Threads |-> Idle] /\ todo = <<>>
    /\ texts = 0 /\ failures = 0 /\ restarts = 0 /\ doubt = {}

-----------------------------------------------------------------------------
(* Indexing: index_concept(job.note, job.text), in any thread.             *)


\* A thread begins with a note.  A document that is not the note's, or another
\* indexing of it under way, leaves the outcome in doubt.
Begins(mine, n, current) ==
    doubt' = IF current /\ ~Met(mine, n) THEN doubt \ {n} ELSE doubt \cup {n}

\* A thread is through.  The observer whose own write was indexed indexes the
\* note itself; a tool goes on with the document it holds, which lacks what the
\* observer has added, or reads the note again.
Through(t, pc) ==
    \/ /\ job[t].again /\ pc = "remove"
       /\ job' = [job EXCEPT ![t] = [@ EXCEPT !.pc = "remove", !.next = 1, !.again = FALSE]]
    \/ /\ ~job[t].again /\ job[t].tool # Lock
       /\ job' = [job EXCEPT ![t] = Idle,
                             ![job[t].tool] = [Idle EXCEPT !.pc = pc, !.note = job[t].note,
                                                           !.text = job[t].own]]
    \/ /\ ~job[t].again /\ job[t].tool = Lock /\ pc = "remove"
       /\ job' = [job EXCEPT ![t] = Idle]

\* Faulty variant: only the chunks the document has are taken out.
ClearedUpTo(t) == [entries EXCEPT ![job[t].note] =
                       [c \in Chunks |-> IF IndexOf(job[t].text)[c] # 0 THEN 0 ELSE @[c]]]

Cleared(t) == [entries EXCEPT ![job[t].note] = IndexOf(0)]

Removes(t) ==
    /\ job[t].pc = "remove"
    /\ entries' = Cleared(t)
    /\ job' = [job EXCEPT ![t].pc = "embed"]
    /\ Begins({t}, job[t].note, disk[job[t].note] = job[t].text)
    /\ UNCHANGED <<disk, todo, counts>>

\* The embedding service fails: the note stays out.
EmbedFails(t, pc) ==
    /\ job[t].pc = "embed" /\ failures < MaxFailures
    /\ failures' = failures + 1
    /\ Through(t, pc)
    /\ doubt' = doubt \cup {job[t].note}
    /\ UNCHANGED <<disk, entries, todo, texts, restarts>>

\* The vectors are there, and the chunks go in.
Stores(t, pc) ==
    LET n == job[t].note c == job[t].next IN
    /\ job[t].pc \in {"embed", "store"}
    /\ entries' = [entries EXCEPT ![n][c] = job[t].text]
    /\ IF c = Sizes[job[t].text] THEN Through(t, pc)
       ELSE pc = "remove" /\ job' = [job EXCEPT ![t].pc = "store", ![t].next = c + 1]
    /\ UNCHANGED <<disk, todo, counts, doubt>>

-----------------------------------------------------------------------------
(* Writes.                                                                 *)

\* A request writes a note (tool = Lock), or a tool that will index it again; a
\* tool about to index also writes, when it adds the texts of attachments to
\* the document it holds.
Writes(n, tool) ==
    /\ LockFree /\ texts < MaxTexts
    /\ tool # Lock => job[tool] = Idle \/ (job[tool].pc = "remove" /\ job[tool].note = n)
    /\ texts' = texts + 1
    /\ disk' = [disk EXCEPT ![n] = texts + 1]
    /\ job' = [job EXCEPT ![tool] = Idle,
                          ![Lock] = [Idle EXCEPT !.pc = "remove", !.note = n, !.text = texts + 1,
                                                 !.own = texts + 1, !.tool = tool]]
    /\ Begins({Lock, tool}, n, TRUE)
    /\ UNCHANGED <<entries, todo, failures, restarts>>

\* The observer adds the texts of attachments to the note that was written, in
\* a second write under the lock; both writes have the note indexed.
Extracts ==
    /\ job[Lock].pc = "remove" /\ job[Lock].text = job[Lock].own /\ texts < MaxTexts
    /\ texts' = texts + 1
    /\ disk' = [disk EXCEPT ![job[Lock].note] = texts + 1]
    /\ job' = [job EXCEPT ![Lock] = [@ EXCEPT !.text = texts + 1, !.again = TRUE]]
    /\ UNCHANGED <<entries, todo, failures, restarts, doubt>>

\* The observer takes a deleted note out; a tool does so again after the lock.
Deletes(n, tool) ==
    /\ LockFree /\ Exists(n) /\ (tool # Lock => job[tool] = Idle)
    /\ disk' = [disk EXCEPT ![n] = 0]
    /\ entries' = [entries EXCEPT ![n] = IndexOf(0)]
    /\ job' = IF tool = Lock THEN job
              ELSE [job EXCEPT ![tool] = [Idle EXCEPT !.pc = "drop", !.note = n]]
    /\ Begins({Lock}, n, TRUE)
    /\ UNCHANGED <<todo, counts>>

\* A note that was created meanwhile goes out of the index.
Drops(t) ==
    /\ job[t].pc = "drop"
    /\ entries' = Cleared(t)
    /\ job' = [job EXCEPT ![t] = Idle]
    /\ Begins({t}, job[t].note, ~Exists(job[t].note))
    /\ UNCHANGED <<disk, todo, counts>>

\* The tool reads its note again; one that is gone is an error of the call.
Reads(t) ==
    LET n == job[t].note IN
    /\ job[t].pc = "read" /\ LockFree
    /\ job' = [job EXCEPT ![t] = IF Exists(n) THEN [@ EXCEPT !.pc = "remove", !.text = disk[n]] ELSE Idle]
    /\ UNCHANGED <<disk, entries, todo, counts, doubt>>

-----------------------------------------------------------------------------
(* An import, and the start.                                               *)

\* import_zip writes files only.
Imports(n) ==
    /\ LockFree /\ job[Import] = Idle /\ todo = <<>> /\ texts < MaxTexts
    /\ texts' = texts + 1
    /\ disk' = [disk EXCEPT ![n] = texts + 1]
    /\ job' = [job EXCEPT ![Import] = [Idle EXCEPT !.pc = "list", !.note = n]]
    /\ doubt' = doubt \cup {n}
    /\ UNCHANGED <<entries, todo, failures, restarts>>

\* All notes are listed, then the index is emptied and each is indexed.
Lists ==
    /\ LockFree /\ job[Import].pc = "list"
    /\ todo' = [n \in {m \in Notes : Exists(m)} |-> disk[n]]
    /\ job' = [job EXCEPT ![Import] = [@ EXCEPT !.pc = "clear"]]
    /\ UNCHANGED <<disk, entries, counts, doubt>>

Empties ==
    /\ job[Import].pc = "clear"
    /\ entries' = [n \in Notes |-> IndexOf(0)]
    /\ job' = [job EXCEPT ![Import] = Idle]
    /\ doubt' = doubt \cup {n \in Notes \ DOMAIN todo : Exists(n)}
    /\ UNCHANGED <<disk, todo, counts>>

IndexesNext(n) ==
    /\ job[Import] = Idle /\ n \in DOMAIN todo
    /\ job' = [job EXCEPT ![Import] = [Idle EXCEPT !.pc = "remove", !.note = n, !.text = todo[n]]]
    /\ todo' = Restrict(todo, DOMAIN todo \ {n})
    /\ UNCHANGED <<disk, entries, counts, doubt>>

\* The server starts and indexes all notes, some of which fail; what it adds to
\* them of their attachments is in place before the first request.
Restart(failed) ==
    /\ restarts < MaxRestarts /\ restarts' = restarts + 1
    /\ failures + Cardinality(failed) <= MaxFailures
    /\ failures' = failures + Cardinality(failed)
    /\ entries' = [n \in Notes |-> IndexOf(IF n \in failed THEN 0 ELSE disk[n])]
    /\ job' = [t \in Threads |-> Idle] /\ todo' = <<>>
    /\ doubt' = failed
    /\ UNCHANGED <<disk, texts>>

Indexing ==
    \E t \in Threads : \/ Removes(t)
                       \/ \E pc \in {"read", "remove"} : EmbedFails(t, pc) \/ Stores(t, pc)

Next ==
    \/ Indexing
    \/ \E n \in Notes : \/ \E tool \in Tools \cup {Lock} :
                              Deletes(n, tool) \/ Writes(n, tool)
                        \/ IndexesNext(n) \/ Imports(n)
    \/ \E t \in Tools : Drops(t) \/ Reads(t)
    \/ Extracts \/ Lists \/ Empties
    \/ \E failed \in SUBSET Notes : Restart(failed)

Spec == Init /\ [][Next]_vars

-----------------------------------------------------------------------------
(* Searching.                                                              *)

Entries == {e \in Notes \X Chunks : entries[e[1]][e[2]] # 0}
Indexed == {e[1] : e \in Entries}
AtMost(k, S) == IF k < Cardinality(S) THEN k ELSE Cardinality(S)

\* Faulty variant: as many chunks as notes are wanted.
LookedAtFew(k, scoped) == AtMost(IF scoped THEN Cardinality(Entries) ELSE k, Entries)

\* How many of the nearest chunks are looked at: all of them within a scope.
LookedAt(k, scoped) == AtMost(IF scoped THEN Cardinality(Entries) ELSE k * Extra, Entries)

\* What a search for k notes may return, whatever is nearest: the best of the
\* notes of the nearest chunks.
Found(k, scope) ==
    UNION {kSubset(AtMost(k, near), near) :
              near \in {{e[1] : e \in raw} \cap scope :
                           raw \in kSubset(LookedAt(k, scope # Notes), Entries)}}

\* The library leaves out notes that are gone or hidden, after the search.
Shown(k, scope, hidden) ==
    UNION {LET fit == {n \in hits : Exists(n) /\ n \notin hidden}
           IN  kSubset(AtMost(k, fit), fit) : hits \in Found(k * Spare, scope)}

-----------------------------------------------------------------------------
(* Properties.                                                             *)

\* Once no indexing of a note goes on, the index holds its present text, all
\* chunks of it and nothing else, and nothing of a deleted note; unless its
\* last indexing failed, met another one or was of a document that is not the
\* note's: one replaced meanwhile, or one a tool holds from before the observer
\* added the texts of attachments.
IndexIsCurrent ==
    \A n \in Notes : ~Busy(n) /\ n \notin doubt => entries[n] = IndexOf(disk[n])

\* "Fetch extra hits so multiple chunks from one note do not crowd out others"
\* (index.py): a search for k notes returns k or all there are, while no note
\* has more chunks than are fetched for it; and the library shows as many,
\* while the hidden and vanished ones are fewer than it asks for in excess.
NobodyIsCrowdedOut ==
    \A k \in 1..Cardinality(Notes), scope \in {Notes} \cup kSubset(1, Notes) :
        /\ \A hits \in Found(k, scope) :
              Cardinality(hits) = AtMost(k, Indexed \cap scope)
        /\ Cardinality({n \in Indexed : ~Exists(n)} \cup Hidden) <= k * (Spare - 1) =>
              \A notes \in Shown(k, scope, Hidden) :
                  Cardinality(notes) = AtMost(k, {n \in Indexed \cap scope : Exists(n)} \ Hidden)

=============================================================================
