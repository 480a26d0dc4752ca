----------------------------- MODULE Attachments -----------------------------
(***************************************************************************)
(* Which attachment a chat tool, a style reference or the search index     *)
(* means, where its description comes from, and which files go when a note *)
(* is deleted.                                                             *)
(*                                                                         *)
(* A bundle is a record: order, the sequence in which the store lists the  *)
(* notes; notes, what each of them is; files, the attachments that exist.  *)
(* A path is the sequence of its segments; the empty path stands for "not  *)
(* given" and "not found", the empty text for "no text".                   *)
(***************************************************************************)
EXTENDS Naturals, Sequences, SequencesExt

CONSTANTS
    Images,       \* the file names that end like an image
    NoText,       \* an empty description, extract or caption
    Placeholder   \* "(image; ...)": the text that says there is none

NoFile == <<>>

ChildTypes == {"GeneratedImage", "GeneratedCaption"}

IsImage(path) == Last(path) \in Images
IsNote(b, path) == path \in DOMAIN b.notes
Exists(b, path) == path \in DOMAIN b.notes \cup b.files

\* The first element of a sequence that passes a test, or a default.
FirstOf(seq, Test(_), default) ==
    LET i == SelectInSeq(seq, Test) IN IF i = 0 THEN default ELSE seq[i]

-----------------------------------------------------------------------------
(* References from notes to files, and children from notes to notes.       *)

\* Two paths name the same attachment when they are equal or end alike.
Match(a, b) == a = b \/ Last(a) = Last(b)

Refs(note) == ToSet(note.attachments) \cup note.mentions

Refers(note, file) == \E ref \in Refs(note) : Match(ref, file)

AllRefs(b) == UNION {Refs(b.notes[p]) : p \in DOMAIN b.notes}

IsReferenced(b, file) == \E p \in DOMAIN b.notes : Refers(b.notes[p], file)

FindNote(b, file) == FirstOf(b.order, LAMBDA p : Refers(b.notes[p], file), NoFile)

IsChild(note) == note.generated /\ note.type \in ChildTypes

Children(b, source) ==
    {p \in DOMAIN b.notes : IsChild(b.notes[p]) /\ b.notes[p].source = source}

StaleChildren(b) ==
    {p \in DOMAIN b.notes : /\ IsChild(b.notes[p])
                            /\ b.notes[p].source # NoFile
                            /\ ~Exists(b, b.notes[p].source)}

-----------------------------------------------------------------------------
(* Deleting a note: its children first, then the note, and after each of   *)
(* them the files that nobody refers to any more.                          *)

Family(b, path) ==
    LET upTo[n \in Nat] ==
          IF n = 0 THEN {path}
          ELSE upTo[n - 1] \cup UNION {Children(b, p) : p \in upTo[n - 1]}
    IN upTo[Len(b.order)]

RemoveNote(b, path) ==
    LET rest == [b EXCEPT !.order = SelectSeq(@, LAMBDA p : p # path),
                          !.notes = [p \in DOMAIN @ \ {path} |-> @[p]]]
        mine == IF IsNote(b, path) THEN Refs(b.notes[path]) ELSE {}
    IN [rest EXCEPT !.files = {f \in @ : f \notin mine \/ IsReferenced(rest, f)}]

\* An order of the family in which every child comes before its source.
ChildrenFirst(b, family) ==
    {s \in SetToSeqs(family) :
        \A i, j \in DOMAIN s : s[i] \in Children(b, s[j]) => i < j}

RemoveAll(b, paths) == FoldLeft(RemoveNote, b, paths)

-----------------------------------------------------------------------------
(* The file a path means.                                                  *)

\* A note's attachments that end like the path.
Candidates(b, note, path) ==
    IF IsNote(b, note)
    THEN SelectSeq(b.notes[note].attachments, LAMBDA a : Match(a, path))
    ELSE <<>>

\* The path as given, its name among the attachments or at the top, what the
\* note at hand lists under that name, what the first note that names it lists.
ResolveBundlePath(b, path, note) ==
    IF path = NoFile THEN NoFile
    ELSE FirstOf(<<path, <<"attachments", Last(path)>>, <<Last(path)>>>>
                     \o Candidates(b, note, path)
                     \o Candidates(b, FindNote(b, path), path),
                 LAMBDA c : Exists(b, c), NoFile)

FirstImage(b, note) ==
    FirstOf(b.notes[note].attachments, LAMBDA a : IsImage(a) /\ Exists(b, a), NoFile)

\* What a tool call with a note and perhaps a path asks for.
ResolvePath(b, note, path) ==
    IF path # NoFile THEN ResolveBundlePath(b, path, note)
    ELSE IF IsNote(b, note) THEN FirstImage(b, note) ELSE NoFile

-----------------------------------------------------------------------------
(* Descriptions: from the extracts a note keeps, or from the vision model. *)

Cached(note, file) ==
    IF file \in DOMAIN note.extracts THEN note.extracts[file] ELSE NoText

Parent(b, note, file) == IF IsNote(b, note) THEN note ELSE FindNote(b, file)

CachedFor(b, note, file) ==
    LET parent == Parent(b, note, file)
        own == b.notes[parent]
        listed == FirstOf(Candidates(b, parent, file),
                          LAMBDA a : Cached(own, a) # NoText, NoFile)
    IN IF parent = NoFile THEN NoText
       ELSE IF Cached(own, file) # NoText THEN Cached(own, file)
       ELSE IF listed # NoFile THEN Cached(own, listed) ELSE NoText

\* The answers the vision model would give to successive calls for one image:
\* only a transient failure is tried again, and once.  For a document, what the
\* extractor gets out of it.
Caption(answers) == IF answers[1] = "transient" THEN answers[2] ELSE answers[1]
CaptionFailed(answers) == Caption(answers) \in {"transient", "failed"}
Extract(answers) == answers[1]

\* The reply of the tool: where its text comes from, of which file, the text.
Reply(from, file, text) == [from |-> from, file |-> file, text |-> text]

AskVision(file, answers) ==
    CASE CaptionFailed(answers) -> Reply("error", file, NoText)
      [] Caption(answers) = NoText -> Reply("vision", file, Placeholder)
      [] OTHER -> Reply("vision", file, Caption(answers))

Describe(b, note, file, vision, answers) ==
    LET cached == CachedFor(b, note, file)
    IN CASE ~IsImage(file) -> Reply("extract", file, Extract(answers[file]))
         [] IsImage(file) /\ ~vision -> Reply("none", file, Placeholder)
         [] IsImage(file) /\ vision /\ cached # NoText -> Reply("cache", file, cached)
         [] OTHER -> AskVision(file, answers[file])

ReadAttachment(b, note, path, vision, answers) ==
    LET file == ResolvePath(b, note, path)
    IN IF file = NoFile THEN Reply("error", NoFile, NoText)
       ELSE Describe(b, note, file, vision, answers)

\* The clause a generated image takes its style from: a described image of the
\* note, its text, or the image that a path names.
NoteContext(note) == Reply("context", NoFile, note.title)

StyleOfNote(b, note, vision, answers) ==
    LET own == b.notes[note]
        images == SelectSeq(own.attachments, IsImage)
        known == FirstOf(images, LAMBDA a : Cached(own, a) # NoText, NoFile)
        read == ReadAttachment(b, note, NoFile, vision, answers)
    IN IF known # NoFile THEN Reply("cache", known, Cached(own, known))
       ELSE IF images # <<>> /\ read.text # NoText THEN read ELSE NoteContext(own)

StyleOfFile(b, file, vision, answers) ==
    LET parent == FindNote(b, file)
        cached == CachedFor(b, NoFile, file)
        read == Describe(b, parent, file, vision, answers)
    IN CASE cached # NoText -> Reply("cache", file, cached)
         [] cached = NoText /\ read.text # NoText -> read
         [] OTHER -> IF parent # NoFile THEN NoteContext(b.notes[parent])
                     ELSE Reply("error", file, NoText)

StyleReference(b, path, vision, answers) ==
    LET file == ResolveBundlePath(b, path, NoFile)
    IN CASE IsNote(b, path) -> StyleOfNote(b, path, vision, answers)
         [] ~IsNote(b, path) /\ file # NoFile -> StyleOfFile(b, file, vision, answers)
         [] OTHER -> Reply("error", NoFile, NoText)

-----------------------------------------------------------------------------
(* The text the search index keeps of a note's attachments.                *)

\* One attachment: skipped when it has a text or is not there, or when it is an
\* image and nothing can describe it.
WithExtract(b, note, file, vision, answers) ==
    LET text == CASE ~IsImage(file) -> Extract(answers[file])
                  [] IsImage(file) /\ vision /\ ~CaptionFailed(answers[file])
                        -> Caption(answers[file])
                  [] OTHER -> NoText
    IN IF Cached(note, file) # NoText \/ ~Exists(b, file) \/ text = NoText THEN note
       ELSE [note EXCEPT !.extracts =
                [f \in DOMAIN @ \cup {file} |-> IF f = file THEN text ELSE @[f]]]

Refreshed(b, note, vision, answers) ==
    FoldLeft(LAMBDA n, file : WithExtract(b, n, file, vision, answers),
             note, note.attachments)

ExtractParts(note) == {note.extracts[f] : f \in DOMAIN note.extracts} \ {NoText}

-----------------------------------------------------------------------------
(* Attachments of a chat; the call may name one message of the session     *)
(* (a set of at most one).                                                 *)

ReadChatAttachment(sessions, session, message, path, vision, answers) ==
    LET chat == sessions[session]
        name == <<Last(path)>>
        given == \A m \in message :
                    m \in DOMAIN chat.messages /\ chat.messages[m] \cap {name, path} # {}
    IN IF session \notin DOMAIN sessions \/ ~given \/ name \notin chat.files
       THEN Reply("error", NoFile, NoText)
       ELSE CASE ~IsImage(name) -> Reply("extract", name, Extract(answers[name]))
              [] IsImage(name) /\ ~vision -> Reply("none", name, Placeholder)
              [] OTHER -> AskVision(name, answers[name])

-----------------------------------------------------------------------------
(* What the tools tell of notes and links.                                 *)

\* A link that leads to no note is listed by its path.
LinksPayload(b, note) ==
    [i \in DOMAIN b.notes[note].links |->
        LET to == b.notes[note].links[i]
        IN [path |-> to, title |-> IF IsNote(b, to) THEN b.notes[to].title ELSE NoText]]

\* Only the first of equal links goes; a link that is not there is an error.
Unlinked(note, to) ==
    LET i == SelectInSeq(note.links, LAMBDA l : l = to)
    IN IF i = 0 THEN note ELSE [note EXCEPT !.links = RemoveAt(@, i)]
=============================================================================
