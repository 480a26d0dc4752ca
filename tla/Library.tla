------------------------------- MODULE Library -------------------------------
(***************************************************************************)
(* The library's read side: which notes a project question may be answered *)
(* from and which it says it used, what a semantic search shows, what      *)
(* bringing an old revision back makes of a note; and the tags the server  *)
(* suggests.                                                               *)
(*                                                                         *)
(* A note is a record of what these rules look at.  Words are tokens.      *)
(***************************************************************************)
EXTENDS Naturals, Sequences, FiniteSets, SequencesExt

CONSTANTS
    MaxSources,   \* excerpts a question is answered from (8)
    MinExamples,  \* labelled texts before tags are learnt (3)
    MaxTags       \* tags a prediction gives (4)

\* The paths in the order of their score, equal scores in the order of names.
Ranked(paths, score, names) ==
    SortSeq(SetToSeq(paths),
            LAMBDA p, q : \/ score[p] > score[q]
                          \/ score[p] = score[q] /\ names[p] < names[q])

AtMost(seq, n) == SubSeq(seq, 1, IF Len(seq) < n THEN Len(seq) ELSE n)

-----------------------------------------------------------------------------
(* Project questions.                                                      *)

InScope(note, scope) ==
    /\ scope # "all" => note.archived = (scope = "archive")
    /\ scope = "pinned" => note.pinned

InView(note, view) ==
    /\ InScope(note, view.scope)
    /\ view.tags \subseteq note.tags
    /\ view.types = {} \/ note.type \in view.types
    /\ view.done \/ ~note.done
    /\ view.words \subseteq note.words \cup note.titleWords \cup note.tags

\* Of the paths the app names: notes that are there, that a device may hold,
\* that are no transcript or recovery copy and that the view shows.
Candidates(notes, asked, view) ==
    {p \in asked \cap DOMAIN notes :
        /\ notes[p].syncable /\ ~notes[p].copy
        /\ notes[p].type # "ChatTranscript"
        /\ \A v \in view : InView(notes[p], v)}

Score(note, terms) ==
    Cardinality(terms \cap (note.words \cup note.titleWords))
        + 2 * Cardinality(terms \cap note.titleWords)

Sources(notes, asked, view, terms, names) ==
    AtMost(Ranked(Candidates(notes, asked, view),
                  [p \in DOMAIN notes |-> Score(notes[p], terms)], names), MaxSources)

\* The numbers an answer cites; only numbers that were given out count.
Used(sources, cited) == {sources[i] : i \in DOMAIN sources \cap cited}

AskProject(notes, asked, view, terms, names, answered, cited) ==
    LET sources == Sources(notes, asked, view, terms, names)
    IN CASE sources = <<>> -> [kind |-> "scope empty", used |-> {}, count |-> 0]
         [] sources # <<>> /\ ~answered -> [kind |-> "unavailable", used |-> {}, count |-> 0]
         [] OTHER -> [kind |-> "answered", used |-> Used(sources, cited), count |-> Len(sources)]

-----------------------------------------------------------------------------
(* An attachment is stored under the digest of its content.                *)

StoreUpload(files, digest, data) ==
    IF digest \in DOMAIN files THEN files
    ELSE [d \in DOMAIN files \cup {digest} |-> IF d = digest THEN data ELSE files[d]]

-----------------------------------------------------------------------------
(* An old revision comes back as a new edit of the note: only onto the     *)
(* version the owner saw, and only if no attachment would be replaced.     *)

IdentityKeys == {"id", "created", "profile_version", "version_vector"}

\* The revision's files, against those that are there: the revision may lack
\* one that is still in the bundle.
FilesFit(files, old) ==
    \A f \in old.refs :
        IF f \in DOMAIN old.files THEN f \in DOMAIN files => files[f] = old.files[f]
        ELSE f \in DOMAIN files

FilesBack(files, old) ==
    [f \in DOMAIN files \cup (old.refs \cap DOMAIN old.files) |->
        IF f \in DOMAIN files THEN files[f] ELSE old.files[f]]

RestoredOwn(current, old, base) ==
    [k \in DOMAIN old.own \cup (IdentityKeys \cap DOMAIN current.own) \cup {"version"} |->
        IF k = "version" THEN base + 1
        ELSE IF k \in IdentityKeys \cap DOMAIN current.own THEN current.own[k] ELSE old.own[k]]

RestoreRevision(current, files, old, base) ==
    IF current.own["version"] # base \/ ~FilesFit(files, old)
    THEN [kind |-> "refused", note |-> current, files |-> files]
    ELSE [kind |-> "restored", files |-> FilesBack(files, old),
          note |-> [own |-> RestoredOwn(current, old, base), text |-> old.text]]

-----------------------------------------------------------------------------
(* Tags: learnt from the texts the owner tagged, otherwise the model's,    *)
(* otherwise by keyword.  Rejections are recorded and teach nothing.       *)

Examples(feedback) ==
    SelectSeq(feedback, LAMBDA e : e.action \in {"accepted", "added"} /\ e.tags # {})

\* The weight of a tag for a word: how often it was given to a text with it.
Weight(examples, word, tag) ==
    Cardinality({i \in DOMAIN examples : word \in examples[i].words /\ tag \in examples[i].tags})

Retrained(model, feedback) ==
    IF Len(Examples(feedback)) >= MinExamples THEN Examples(feedback) ELSE model

TagScore(model, words, tag) ==
    FoldSet(LAMBDA w, sum : sum + Weight(model, w, tag), 0, words)

Predicted(model, words, names) ==
    LET known == UNION {model[i].tags : i \in DOMAIN model}
        score == [t \in known |-> TagScore(model, words, t)]
    IN AtMost(Ranked({t \in known : score[t] > 0}, score, names), MaxTags)

\* A prediction is filled up with two of the vocabulary; without one the model
\* is asked, and when it fails or names nothing the keywords decide.
SuggestTags(model, words, names, vocabulary, answer, keywords) ==
    LET predicted == Predicted(model, words, names)
    IN CASE predicted # <<>> ->
              ToSet(predicted) \cup ToSet(AtMost(vocabulary, 2))
         [] predicted = <<>> /\ answer \notin {{}, {"failed"}} -> answer
         [] OTHER -> IF keywords = {} THEN {"misc"} ELSE keywords
=============================================================================
