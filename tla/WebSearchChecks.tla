--------------------------- MODULE WebSearchChecks ---------------------------
(***************************************************************************)
(* What one run of WebSearch does in a small world: up to four searches    *)
(* that take from no time to more than the budget, three sources, and any  *)
(* failure.  The assumptions are evaluated by each run whose module        *)
(* extends this one (ChatAgent).                                           *)
(***************************************************************************)
EXTENDS Naturals, Sequences, FiniteSets

Web == INSTANCE WebSearch WITH MaxQueries <- 2, MaxRedirects <- 2

Budget == 2
Hits == {<<>>, <<"u">>, <<"v", "u">>}
Urls == {"u", "v"}

Plans == {{}} \cup
    {{[queries |-> q, languages |-> l]} :
        q \in {<<>>, <<"">>, <<"a", "a", "b">>, <<"a", "b", "c">>},
        l \in {<<"">>, <<"pl", "en">>}}

Worlds ==
    [plan : Plans, planning : {0, 3}, breaks : {{}, {2}},
     found : {[i \in 1..4 |-> IF i = 1 THEN f ELSE g] : f, g \in Hits},
     took : {[i \in 1..4 |-> IF i = 1 THEN f ELSE g] : f, g \in 0..3},
     page : [Urls -> {"read", "fetch fails", "model fails"}],
     reading : {[u |-> 1, v |-> 2]}]

Longest == 3

\* A run takes no longer than the budget and what was under way when it ran out:
\* the plan and one search, or one page and its summary.
ASSUME RunsAreBounded ==
    \A w \in Worlds :
        LET r == Web!RunForChat(w, "q", "", <<"en">>, Budget, TRUE)
        IN r.now <= w.planning + Budget + Longest

\* The collection's time starts after the plan, the run's before it: a search
\* that uses its time up leaves none for reading, and its sources are not shown.
ASSUME SpentTimeShowsNothing ==
    \A w \in Worlds :
        LET c == Web!Collect(w, Budget, Web!Plan(w, "q", "", <<"en">>))
        IN c.now >= w.planning + Budget =>
             Web!RunForChat(w, "q", "", <<"en">>, Budget, TRUE).sources = <<>>

\* Sources are shown once, in the order in which they were found, without gaps;
\* one whose page cannot be fetched does not keep the next from being shown.
ASSUME SourcesAreThoseFound ==
    \A w \in Worlds :
        LET c == Web!Collect(w, Budget, Web!Plan(w, "q", "", <<"en">>))
            r == Web!RunForChat(w, "q", "", <<"en">>, Budget, TRUE)
        IN /\ \A i \in DOMAIN r.sources : r.sources[i].url = c.found[i]
           /\ Cardinality({r.sources[i].url : i \in DOMAIN r.sources}) = Len(r.sources)
           /\ r.kind = "done" /\ Len(r.sources) < Len(c.found) => r.now >= Budget

\* A failure leaves no note behind: what is saved is a finished search.
ASSUME NotesAreFinishedSearches ==
    \A w \in Worlds :
        LET r == Web!RunForChat(w, "q", "", <<"en">>, Budget, TRUE)
            alone == Web!Run(w, "q", <<"en">>, Budget)
        IN (r.note <=> r.kind = "done") /\ (alone.note <=> alone.kind = "done")

\* A search has something to ask unless its question is blank or the model's
\* plan consists of blanks, and never more than the limit, nothing twice.
ASSUME PlansAreUsable ==
    \A w \in [plan : Plans], query \in {"", "q"}, hint \in {"", "here"} :
        LET p == Web!Plan(w, query, hint, <<"en">>)
        IN /\ Len(p.queries) <= 2 /\ p.languages # <<>>
           /\ Cardinality({p.queries[i] : i \in DOMAIN p.queries}) = Len(p.queries)
           /\ p.queries = <<>> => query = "" \/ \E x \in w.plan : x.queries = <<"">>

\* A fetch ends after one request more than the redirects it may follow, and
\* gives a page only when the last of them did.
ASSUME FetchesEnd ==
    \A answers \in [1..4 -> {"redirect", "refused", "page", "http error"}] :
        LET f == Web!SafeFetch(answers)
        IN /\ f.asked \in 1..3
           /\ f.result = "page" <=> answers[f.asked] = "page"
           /\ \A i \in 1..(f.asked - 1) : answers[i] = "redirect"
=============================================================================
