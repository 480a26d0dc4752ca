-------------------------- MODULE AttachmentChecks ---------------------------
(***************************************************************************)
(* What the operators of Attachments compute, checked on every bundle of a *)
(* small universe.  The assumptions are evaluated by each run whose module *)
(* extends this one (NoteWriters).                                         *)
(***************************************************************************)
EXTENDS Naturals, Sequences, FiniteSets

Att == INSTANCE Attachments WITH Images <- {"i.png", "j.png"},
                                 NoText <- "", Placeholder <- "(image)"

NoteA == <<"a.md">>
NoteB == <<"b.md">>
NoteC == <<"c.md">>
Picture == <<"attachments", "i.png">>
Namesake == <<"other", "i.png">>
Second == <<"attachments", "j.png">>
Paper == <<"attachments", "d.pdf">>

-----------------------------------------------------------------------------
(* Deletion: three notes, of which any may be the generated child of any   *)
(* other, showing a picture, one of the same name elsewhere, or none.      *)

Plain(atts, mentions, source) ==
    [attachments |-> atts, mentions |-> mentions, generated |-> source # Att!NoFile,
     type |-> "GeneratedImage", source |-> source, title |-> "title",
     links |-> <<>>, extracts |-> <<>>]

Trees ==
    {[order |-> <<NoteA, NoteB, NoteC>>, files |-> {Picture, Namesake},
      notes |-> [p \in {NoteA, NoteB, NoteC} |-> Plain(shown[p], {}, from[p])]] :
        shown \in [{NoteA, NoteB, NoteC} -> {<<>>, <<Picture>>, <<Namesake>>}],
        from \in [{NoteA, NoteB, NoteC} -> {Att!NoFile, NoteA, NoteB}]}

Orders(S) == {f \in [1..Cardinality(S) -> S] : \A i, j \in DOMAIN f : i # j => f[i] # f[j]}

\* Deleting a note with all that was generated from it, in whatever order, takes
\* no file that a remaining note shows, and leaves no file behind that only the
\* deleted notes showed, unless two of them show files of one name.
ASSUME DeletionTakesItsFiles ==
    \A b \in Trees : \A p \in DOMAIN b.notes : \A s \in Orders(Att!Family(b, p)) :
        LET after == Att!RemoveAll(b, s)
            gone == b.files \ after.files
            shown == UNION {Att!Refs(b.notes[q]) : q \in Att!Family(b, p)}
        IN /\ \A f \in gone : f \in shown /\ ~Att!IsReferenced(after, f)
           /\ \A f \in (shown \cap b.files) \ gone :
                 \/ Att!IsReferenced(after, f)
                 \/ \E r \in shown : r # f /\ Att!Match(r, f)

\* Children go before their source: wherever a deletion is cut short, no
\* generated note has lost the note it was generated from.
ASSUME DeletionLeavesNoOrphans ==
    \A b \in Trees : \A p \in DOMAIN b.notes :
        \A s \in Orders(Att!Family(b, p)) : s \in Att!ChildrenFirst(b, Att!Family(b, p)) =>
            \A n \in 0..Len(s) :
                Att!StaleChildren(Att!RemoveAll(b, SubSeq(s, 1, n))) \subseteq Att!StaleChildren(b)

-----------------------------------------------------------------------------
(* Resolution and descriptions: two notes that list and mention files of    *)
(* which some exist, with some descriptions kept from before.              *)

About(f) ==
    CASE f = Picture -> "a boat" [] f = Namesake -> "a house"
      [] f = Second -> "a tree" [] OTHER -> "an essay"

Described(S) == [f \in S |-> About(f)]

Listings == {<<>>, <<Picture>>, <<Second, Picture>>, <<Namesake, Paper>>}

Bundles ==
    {[order |-> <<NoteA, NoteB>>, files |-> files,
      notes |-> [p \in {NoteA, NoteB} |->
                    [Plain(shown[p], {}, Att!NoFile) EXCEPT
                        !.mentions = IF p = NoteB THEN mentioned ELSE {},
                        !.extracts = Described(kept \cap {shown[p][i] : i \in DOMAIN shown[p]})]]] :
        files \in SUBSET {Picture, Second, Paper, Namesake},
        shown \in [{NoteA, NoteB} -> Listings], mentioned \in {{}, {Picture}},
        kept \in SUBSET {Picture, Second, Namesake}}

\* What the vision model may answer: it may be slow once, fail, or see nothing.
Answers(told) ==
    [f \in {Picture, Second, Paper, Namesake} |->
        LET text == About(f)
        IN CASE told = "at once" -> <<text, text>>
             [] told = "second try" -> <<IF f = Paper THEN "" ELSE "transient", text>>
             [] told = "never" -> <<IF f = Paper THEN "" ELSE "transient", "transient">>
             [] told = "nothing" -> <<"", "">>]
Moods == {"at once", "second try", "never", "nothing"}

Asked == {Att!NoFile, Picture, <<"i.png">>, Namesake, Paper}

\* What a tool is told exists, has the name that was asked for, and is found
\* whenever the path exists or the note at hand lists a file of that name.
ASSUME ResolutionIsSound ==
    \A b \in Bundles, path \in Asked \ {Att!NoFile}, note \in {Att!NoFile, NoteA} :
        LET found == Att!ResolveBundlePath(b, path, note)
            listed == IF note = Att!NoFile THEN <<>> ELSE b.notes[note].attachments
            offered == {path} \cup {a \in {listed[i] : i \in DOMAIN listed} : Att!Match(a, path)}
        IN /\ found # Att!NoFile => Att!Exists(b, found) /\ Att!Match(found, path)
           /\ (offered \cap b.files # {}) => found # Att!NoFile
           /\ path \in b.files => found = path

\* A description is that of a file with the name that was asked for, wherever it
\* comes from: no note's description is given for another note's image.  (Where
\* two files have one name it may be: stored files are named apart.)
ASSUME DescriptionsAreOfTheFile ==
    \A b \in Bundles, path \in Asked, note \in {Att!NoFile, NoteA, NoteB},
       vision \in BOOLEAN, told \in Moods :
        LET reply == Att!ReadAttachment(b, note, path, vision, Answers(told))
            apart == ~({Picture, Namesake} \subseteq b.files \cup Att!AllRefs(b))
        IN /\ apart /\ reply.text \notin {"", "(image)"} => reply.text = About(reply.file)
           /\ path # Att!NoFile /\ reply.file # Att!NoFile => Att!Match(path, reply.file)
           /\ reply.from = "cache" => reply.text # ""

\* A picture can be made in the style of any note there is, whatever the vision
\* model does; only a path that leads nowhere is refused.
ASSUME NotesAlwaysGiveAStyle ==
    \A b \in Bundles, vision \in BOOLEAN, told \in Moods :
        /\ \A note \in {NoteA, NoteB} :
              Att!StyleReference(b, note, vision, Answers(told)).text # ""
        /\ \A path \in Asked \ {Att!NoFile} :
              LET style == Att!StyleReference(b, path, vision, Answers(told))
              IN Att!ResolveBundlePath(b, path, Att!NoFile) = Att!NoFile <=> style.from = "error"
                    /\ style.file = Att!NoFile

\* Refreshing the search text of a note changes nothing that is there, is done
\* when it is done (repeating it asks nobody again), and misses no file that
\* exists and has a text.
ASSUME RefreshIsStable ==
    \A b \in Bundles, vision \in BOOLEAN, told \in Moods : \A p \in DOMAIN b.notes :
        LET before == b.notes[p]
            after == Att!Refreshed(b, before, vision, Answers(told))
        IN /\ Att!Refreshed(b, after, vision, Answers(told)) = after
           /\ \A f \in DOMAIN before.extracts : after.extracts[f] = before.extracts[f]
           /\ \A f \in {before.attachments[i] : i \in DOMAIN before.attachments} \cap b.files :
                 told = "at once" /\ vision => Att!Cached(after, f) = About(f)
           /\ "" \notin Att!ExtractParts(after)

\* The image of another message of the chat is not read for this one.
ASSUME ChatImagesBelongToTheMessage ==
    \A listed \in SUBSET {<<"i.png">>, <<"d.pdf">>}, files \in SUBSET {<<"i.png">>, <<"d.pdf">>},
       message \in {{}, {"m1"}, {"m2"}}, path \in {<<"i.png">>, <<"chat", "d.pdf">>} :
        LET sessions == [s \in {"s1"} |-> [files |-> files,
                            messages |-> [m \in {"m1"} |-> listed]]]
            reply == Att!ReadChatAttachment(sessions, "s1", message, path, TRUE,
                                            [f \in files |-> <<"text", "text">>])
        IN reply.from # "error" =>
             /\ message # {"m2"}
             /\ message = {"m1"} => <<path[Len(path)]>> \in listed
             /\ <<path[Len(path)]>> \in files
=============================================================================
