--------------------------- MODULE DocumentChecks ----------------------------
(***************************************************************************)
(* What the operators of Documents compute, checked on every document and  *)
(* link of a small universe.  The assumptions are evaluated by each run    *)
(* whose module extends this one (SearchIndex).                            *)
(***************************************************************************)
EXTENDS Naturals, Sequences, FiniteSets, TLC

Docs == INSTANCE Documents

Partial(keys, values) == UNION {[k -> values] : k \in SUBSET keys}

Bodies == {<<"a">>, <<"b">>, <<"", "a">>, <<"", "", "a">>}

\* Notes of the server and documents a device may send: the keys that the
\* code treats differently, each absent or with one of two values.
ServerNotes ==
    {[meta |-> m, own |-> o @@ [id |-> 1], body |-> b] :
        m \in Partial({"title"}, {1, 2}), b \in {<<"a">>},
        o \in {f \in Partial({"version", "done", "done_at"}, {0, 1}) :
                 "version" \in DOMAIN f => f["version"] # 0}}
Uploads ==
    {[meta |-> m, own |-> o, body |-> b] :
        m \in Partial({"title", "timestamp"}, {1}), b \in Bodies,
        o \in {f \in Partial({"id", "version", "done", "updated"}, {0, 2}) :
                 "version" \in DOMAIN f => f["version"] # 0}}
Bases == {{}, {0}, {1}, {2}}

\* SyncService.push loses no text: whatever differed from the upload is still
\* the note or its recovery copy, unless the device named the version it
\* replaced; and what was uploaded is the note, its copy, or was there before.
ASSUME NothingIsLost ==
    \A e \in ServerNotes, i \in Uploads, base \in Bases :
        LET r == Docs!Updated("p", e, i, base, 9)
            kept == {c.body : c \in {r.note} \cup r.copy}
        IN /\ i.body \in kept
           /\ e.body \in kept \/ base = {Docs!VersionOf(e)}

\* The note's version rises with every replacement, so a device that still
\* names the old one is told of a conflict.
ASSUME VersionsRise ==
    \A e \in ServerNotes, i \in Uploads, base \in Bases :
        LET r == Docs!Updated("p", e, i, base, 9)
        IN r.note = e \/ Docs!VersionOf(r.note) > Docs!VersionOf(e)

\* A repeated upload (its acknowledgement was lost) is recognised when its body
\* does not start with an empty line.  parse.py promises that reading what was
\* written gives the same document: with such a line it does not, and the
\* second claim says that the repetition then ends in a conflict.
ASSUME RepetitionsAreRecognised ==
    \A e \in ServerNotes, i \in Uploads :
        LET first == Docs!Updated("p", e, i, {Docs!VersionOf(e)}, 9)
            again == Docs!Updated("p", Docs!Reread(first.note), i, {Docs!VersionOf(e)}, 9)
        IN /\ Docs!ReadBody(i.body) = i.body => again.kind = "replayed"
           /\ Docs!ReadBody(i.body) # i.body => again.kind = "conflict"

\* The order in which keys are written is the order in which they are read.
ASSUME OrderIsStable ==
    \A keys \in UNION {[1..n -> {"x", "type", "y", "title"}] : n \in 0..4} :
        LET known == <<"type", "title">>
            written == Docs!Ordered(keys, known)
        IN /\ Docs!Ordered(written, known) = written
           /\ Len(written) = Len(keys) \/ \E a, b \in DOMAIN keys : a # b /\ keys[a] = keys[b]

-----------------------------------------------------------------------------
(* Links.                                                                  *)

Places == {<<"a">>, <<"d", "b">>, <<"d", "e", "c">>}
Parts == {"", ".", "..", "a", "b", "c", "d", "e"}
Hrefs == UNION {[1..n -> Parts] : n \in 1..3}
Links == [explicit : BOOLEAN, kind : {"path", "web"}, segments : Hrefs]

\* The way from one note to another that an editor would write: up to the
\* root and down again.
Relative(source, target) ==
    [explicit |-> FALSE, kind |-> "path",
     segments |-> [i \in 1..Len(source) - 1 |-> ".."] \o target]

ASSUME RelativeLinksArrive ==
    \A s, t \in Places : Docs!Resolve(s, Relative(s, t)) = t

\* A relative link of a body never resolves to a path with dots or empty
\* segments: whatever it climbs, it stays inside the bundle.
ASSUME TargetsAreCanonical ==
    \A s \in Places, href \in Hrefs :
        LET target == Docs!Walk(SubSeq(s, 1, Len(s) - 1) \o href)
        IN /\ {target[i] : i \in DOMAIN target} \cap {"", ".", ".."} = {}
           /\ Docs!Walk(target) = target

\* No link is dropped without a word: one that names a path is an edge of the
\* graph view, leads to its own note, or is in the conformance report.
ASSUME LinksAreAccountedFor ==
    \A s \in Places, link \in Links :
        LET linksOf == [p \in Places |-> IF p = s THEN {link} ELSE {}]
        IN Docs!Internal(link) =>
             \/ \E e \in Docs!Edges(Places, linksOf) : e[1] = s
             \/ Docs!Resolve(s, link) = s
             \/ <<s, link>> \in Docs!Broken(Places, linksOf)

\* Filtering the graph view only takes notes away: an edge between two notes
\* that stay, stays.
ASSUME FiltersKeepEdges ==
    \A s \in Places, link \in Links, sub \in SUBSET Places :
        LET linksOf == [p \in Places |-> IF p = s THEN {link} ELSE {}]
        IN Docs!Edges(sub, linksOf) = Docs!Edges(Places, linksOf) \cap (sub \X sub)

\* Wherever a note may be uploaded, its recovery copy may be too: the owner can
\* edit the copy on a device and the edit is taken.
ASSUME CopiesCanBeEdited ==
    \A path \in UNION {[1..n -> {"", "..", "memory", "attachments", ".git", "x",
                                 "index.md"}] : n \in 1..3} :
        Docs!SyncPathAllowed(path) =>
            /\ Docs!SyncPathAllowed(Docs!CopyPath(path, "copy"))
            /\ Docs!CopyPath(path, "copy") # path
=============================================================================
