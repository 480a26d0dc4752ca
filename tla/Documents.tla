------------------------------ MODULE Documents ------------------------------
(***************************************************************************)
(* Concept documents as values: what an upload makes of a note's metadata, *)
(* what writing and reading a document does to its body, and how links and *)
(* paths are resolved.  SyncServer abstracts all this to "the content";    *)
(* here the same decisions are taken on the documents themselves.          *)
(*                                                                         *)
(* A concept is a record: meta, the frontmatter without its vesnai key;    *)
(* own, the vesnai namespace; body, the sequence of its lines.  Both       *)
(* mappings are functions on the keys they have.  What may be absent (a    *)
(* change's base version, a recovery copy) is a set of at most one element. *)
(***************************************************************************)
EXTENDS Naturals, Sequences, SequencesExt

-----------------------------------------------------------------------------
(* Mappings.                                                               *)

Over(f, g) == [k \in DOMAIN f \cup DOMAIN g |-> IF k \in DOMAIN g THEN g[k] ELSE f[k]]
Without(f, keys) == [k \in DOMAIN f \ keys |-> f[k]]
Only(f, keys) == [k \in DOMAIN f \cap keys |-> f[k]]
Entry(f, k, default) == IF k \in DOMAIN f THEN f[k] ELSE default

-----------------------------------------------------------------------------
(* An upload meets the note of its path.                                   *)

VersionOf(c) == Entry(c.own, "version", 1)
UpdatedOf(c) == Entry(c.own, "updated", 0)

Identity == {"id", "created", "profile_version", "version_vector"}
Bookkeeping == Identity \cup {"version", "updated"}

\* The device's keys go over the server's, except those that identify the
\* note; a key the device dropped stays.
Merge(existing, incoming) ==
    LET own == Over(Over(existing.own, incoming.own), Only(existing.own, Identity))
    IN [meta |-> Over(existing.meta, incoming.meta),
        own  |-> IF Entry(own, "done", 0) = 0 THEN Without(own, {"done_at"}) ELSE own,
        body |-> incoming.body]

\* What has to agree for an upload to count as one that was applied before.
Content(c) ==
    [meta |-> Without(c.meta, {"timestamp"}), own |-> Without(c.own, Bookkeeping),
     body |-> c.body]

WithVersion(c, v) == [c EXCEPT !.own = Over(@, [version |-> v])]

Copy(c, path, id) ==
    [c EXCEPT !.own = Over(@, [id |-> id, version |-> 1, conflict_of |-> path])]

\* A change without a base version, from an early client: the higher version
\* wins, then the later stamp, and different text is a conflict in any case.
IncomingWins(existing, incoming) ==
    \/ VersionOf(incoming) > VersionOf(existing)
    \/ /\ VersionOf(incoming) = VersionOf(existing)
       /\ UpdatedOf(incoming) >= UpdatedOf(existing)

NextVersion(existing, incoming, base) ==
    IF base = {} /\ VersionOf(incoming) > VersionOf(existing)
    THEN VersionOf(incoming) ELSE VersionOf(existing) + 1

\* The outcome of one change that carries a document: its kind, the note the
\* path then holds and the recovery copy that is written beside it.
Added(incoming, id) ==
    [kind |-> "applied", copy |-> {},
     note |-> WithVersion([incoming EXCEPT !.own = Over([id |-> id, created |-> id], @)], 1)]

Updated(path, existing, incoming, base, id) ==
    LET merged == Merge(existing, incoming)
        known == VersionOf(existing) \in base
        wins == known \/ (base = {} /\ IncomingWins(existing, merged))
        accepted == WithVersion(merged, NextVersion(existing, merged, base))
    IN IF Content(existing) = Content(merged)
       THEN [kind |-> "replayed", note |-> existing, copy |-> {}]
       ELSE [kind |-> IF known THEN "applied" ELSE "conflict",
             note |-> IF wins THEN accepted ELSE existing,
             copy |-> IF known THEN {}
                      ELSE {Copy(IF wins THEN existing ELSE merged, path, id)}]

-----------------------------------------------------------------------------
(* Writing and reading one document.  A body that starts with an empty     *)
(* line loses it each time it is read.                                     *)

ReadBody(lines) ==
    IF Len(lines) > 1 /\ lines[1] = "" THEN Tail(lines) ELSE lines

\* The well-known keys come first, in their own order; then the others.
Ordered(keys, known) ==
    SelectSeq(known, LAMBDA k : k \in ToSet(keys))
        \o SelectSeq(keys, LAMBDA k : k \notin ToSet(known))

Reread(c) == [c EXCEPT !.body = ReadBody(@)]

-----------------------------------------------------------------------------
(* Links.  A path is the sequence of its segments; a link also says where  *)
(* it stands (explicit, in the frontmatter, or in the body) and whether it *)
(* is a path at all (a web or mail address or a bare fragment is not).     *)

FromFirst(segments, skipped) ==
    LET i == SelectInSeq(segments, LAMBDA s : s \notin skipped)
    IN IF i = 0 THEN <<>> ELSE SubSeq(segments, i, Len(segments))

Walk(segments) ==
    FoldLeft(LAMBDA at, s : CASE s \in {"", "."} -> at
                              [] s = ".." -> IF at = <<>> THEN at ELSE Front(at)
                              [] OTHER -> Append(at, s),
             <<>>, segments)

Resolve(source, link) ==
    CASE link.explicit -> FromFirst(link.segments, {"", ".", ".."})
      [] ~link.explicit /\ Head(link.segments) = "" /\ Len(link.segments) > 1
            -> FromFirst(link.segments, {""})
      [] OTHER -> Walk(Front(source) \o link.segments)

\* The graph view: a link is an edge when it leads from one selected note to
\* another.
Edges(selected, linksOf) ==
    {e \in selected \X selected :
        /\ e[1] # e[2]
        /\ \E link \in linksOf[e[1]] : link.kind # "web" /\ Resolve(e[1], link) = e[2]}

\* A note that passes the view's filters; an empty set of tags asks for none.
Selected(notes, tags, kinds) ==
    {p \in DOMAIN notes : /\ tags = {} \/ tags \cap notes[p].tags # {}
                          /\ kinds = {} \/ notes[p].type \in kinds}

\* The conformance report: links that lead nowhere, and notes without a type.
Internal(link) == link.kind = "path"

Broken(notes, linksOf) ==
    {w \in UNION {{p} \X linksOf[p] : p \in notes} :
        Internal(w[2]) /\ Resolve(w[1], w[2]) \notin notes}

Reserved == {"index.md", "log.md"}

Untyped(notes) == {p \in DOMAIN notes : Last(p) \notin Reserved /\ notes[p].type = ""}

\* The paths an upload may name.
SyncPathAllowed(path) ==
    /\ path # <<>>
    /\ Head(path) # ""
    /\ ToSet(path) \cap {".git", ".recovery", ".."} = {}
    /\ Last(path) \notin Reserved
    /\ Head(path) \notin {"memory", "attachments"}

\* A recovery copy lies beside its note, under a name nobody uses.
CopyPath(path, name) == Append(Front(path), name)
=============================================================================
