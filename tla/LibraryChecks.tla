---------------------------- MODULE LibraryChecks ----------------------------
(***************************************************************************)
(* What the rules of Library give on small collections.  The assumptions   *)
(* are evaluated by each run whose module extends this one (Pairing).      *)
(***************************************************************************)
EXTENDS Naturals, Sequences, FiniteSets

Lib == INSTANCE Library WITH MaxSources <- 2, MinExamples <- 3, MaxTags <- 2

-----------------------------------------------------------------------------
(* Three notes, each archived, pinned, a transcript, a copy or none.       *)

Kinds ==
    {[type |-> t, archived |-> a, pinned |-> p, done |-> d, tags |-> {},
      copy |-> c, syncable |-> s, words |-> {"boat"}, titleWords |-> w] :
        t \in {"Note", "ChatTranscript"}, a, p \in BOOLEAN, d \in {FALSE},
        c, s \in BOOLEAN, w \in {{}, {"sail"}}}

Names == [a |-> 1, b |-> 2, c |-> 3]
Collections == {[a |-> k, b |-> l, c |-> l] : k, l \in Kinds}

Views == {{}} \cup
    {{[scope |-> s, tags |-> {}, types |-> {}, done |-> TRUE, words |-> w]} :
        s \in {"all", "active", "archive", "pinned"}, w \in {{}, {"sail"}}}

\* A project question is answered from notes the app named and the owner's view
\* shows, never from a transcript, a recovery copy or a note that left the view.
ASSUME AnswersStayInTheProject ==
    \A notes \in Collections, asked \in {{"a"}, {"a", "b", "x"}, {"a", "b", "c"}},
       view \in Views, cited \in {{}, {1}, {2, 3}} :
        LET r == Lib!AskProject(notes, asked, view, {"sail"}, Names, TRUE, cited)
        IN /\ r.used \subseteq asked \cap DOMAIN notes
           /\ \A p \in r.used :
                 /\ notes[p].type # "ChatTranscript" /\ ~notes[p].copy /\ notes[p].syncable
                 /\ \A v \in view :
                       /\ v.scope = "active" => ~notes[p].archived
                       /\ v.scope = "archive" => notes[p].archived
                       /\ v.scope = "pinned" => notes[p].pinned /\ ~notes[p].archived
           /\ r.kind = "answered" => r.count > 0 /\ Cardinality(r.used) <= r.count

\* A note with the question's word in its title is not crowded out by notes
\* that do not have the word.
ASSUME TitlesComeFirst ==
    \A notes \in Collections :
        LET s == Lib!Sources(notes, DOMAIN notes, {}, {"sail"}, Names)
        IN \A p \in Lib!Candidates(notes, DOMAIN notes, {}) :
              notes[p].titleWords = {"sail"} =>
                 \A i \in DOMAIN s : notes[s[i]].titleWords = {} =>
                    \E j \in DOMAIN s : s[j] = p

-----------------------------------------------------------------------------
(* Revisions.                                                              *)

Owns == {[id |-> 1, version |-> v] : v \in 1..3} \cup
        {[id |-> 2, version |-> 1, done |-> 1]}
Revisions ==
    {[own |-> o, text |-> "old", refs |-> r, files |-> f] :
        o \in Owns, r \in SUBSET {"f", "g"},
        f \in UNION {[s -> {"x", "y"}] : s \in SUBSET {"f"}}}

\* Bringing a revision back is one more edit of the same note: it keeps its
\* identity, its version rises by one from what the owner saw, and no file that
\* is there changes; otherwise nothing happens at all.
ASSUME RevisionsAreEdits ==
    \A own \in Owns, old \in Revisions, base \in 1..3,
       files \in UNION {[s -> {"x", "y"}] : s \in SUBSET {"f", "g"}} :
        LET now == [own |-> own, text |-> "new"]
            r == Lib!RestoreRevision(now, files, old, base)
        IN IF r.kind = "refused" THEN r.note = now /\ r.files = files
           ELSE /\ r.note.own["id"] = own["id"]
                /\ r.note.own["version"] = own["version"] + 1
                /\ \A f \in DOMAIN files : r.files[f] = files[f]
                /\ old.refs \subseteq DOMAIN r.files

\* The same upload twice is one file, and no upload changes another's.
ASSUME UploadsAreShared ==
    \A files \in UNION {[s -> {"x"}] : s \in SUBSET {"d1", "d2"}}, digest \in {"d1", "d2"} :
        LET once == Lib!StoreUpload(files, digest, "x")
        IN /\ Lib!StoreUpload(once, digest, "x") = once
           /\ \A d \in DOMAIN files : once[d] = files[d]

-----------------------------------------------------------------------------
(* Tags.                                                                   *)

Events == [action : {"accepted", "rejected"}, words : {{"boat"}, {"boat", "sun"}, {"sun"}},
           tags : {{"sea"}, {"trip"}}]
Histories == [1..3 -> Events]
TagNames == [sea |-> 1, trip |-> 2, home |-> 3, misc |-> 4]

\* What is suggested for a text the owner tagged is a tag the owner gave, as
\* soon as enough texts are tagged; and there is always a suggestion.
ASSUME SuggestionsAreLearnt ==
    \A h \in Histories, answer \in {{}, {"failed"}, {"home"}} :
        LET model == Lib!Retrained(<<>>, h)
            tags == Lib!SuggestTags(model, {"boat"}, TagNames, <<"home">>, answer, {})
        IN /\ tags # {}
           /\ Len(model) = 3 /\ (\E i \in 1..3 : "boat" \in h[i].words) =>
                 \E i \in 1..3 : h[i].tags \subseteq tags /\ "boat" \in h[i].words

\* One more accepted example of a tag never takes the tag out of first place.
ASSUME ExamplesStrengthen ==
    \A h \in Histories :
        LET before == Lib!Predicted(Lib!Retrained(<<>>, h), {"boat"}, TagNames)
            more == Append(h, [action |-> "accepted", words |-> {"boat"}, tags |-> {before[1]}])
        IN before # <<>> =>
             Lib!Predicted(Lib!Retrained(<<>>, more), {"boat"}, TagNames)[1] = before[1]
=============================================================================
