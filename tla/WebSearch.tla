------------------------------ MODULE WebSearch ------------------------------
(***************************************************************************)
(* One run of the web-search agent: the plan, the searches, the summaries  *)
(* and the note it may leave, each within the time it is given.            *)
(*                                                                         *)
(* What the outside does is a record env: plan, the model's answer or      *)
(* "failed" and planning, how long it took; found, took and breaks, what   *)
(* the i-th search gives, its duration and whether it raises; page and     *)
(* reading, what becomes of a source and how long that takes.  Time is     *)
(* counted from the start of the run.                                      *)
(***************************************************************************)
EXTENDS Naturals, Sequences, SequencesExt

CONSTANTS MaxQueries, MaxRedirects

Blank == ""

Distinct(seq) ==
    FoldLeft(LAMBDA out, x : IF x \in ToSet(out) THEN out ELSE Append(out, x), <<>>, seq)

AtMost(seq, n) == SubSeq(seq, 1, IF Len(seq) < n THEN Len(seq) ELSE n)

-----------------------------------------------------------------------------
(* The plan: the model's queries, or plain ones when it gave none.         *)

NotBlank(seq) == SelectSeq(seq, LAMBDA q : q # Blank)

DedupeQueries(queries) == AtMost(Distinct(NotBlank(queries)), MaxQueries)

\* The query itself, with "overview", and with the place (each by the word added).
PlainQueries(query, hint) ==
    IF query = Blank THEN <<>> ELSE <<query, "overview">> \o NotBlank(<<hint>>)

Plan(env, query, hint, languages) ==
    IF env.plan # {} /\ \A p \in env.plan : p.queries # <<>>
    THEN LET p == CHOOSE x \in env.plan : TRUE
             named == NotBlank(p.languages)
         IN [queries |-> DedupeQueries(p.queries),
             languages |-> IF named = <<>> THEN languages ELSE named]
    ELSE [queries |-> DedupeQueries(PlainQueries(query, hint)), languages |-> languages]

-----------------------------------------------------------------------------
(* Collecting: every query in every language while its time lasts, which   *)
(* starts when the plan is there.  A search that raises ends the run.      *)

Searches(plan) == [i \in 1..Len(plan.queries) * Len(plan.languages) |-> i]

Searched(env, budget, at, i) ==
    IF at.failed \/ at.now >= env.planning + budget THEN at
    ELSE [at EXCEPT !.now = @ + env.took[i],
                    !.asked = @ + 1,
                    !.failed = i \in env.breaks,
                    !.found = IF i \in env.breaks THEN @ ELSE Distinct(@ \o env.found[i])]

Collect(env, budget, plan) ==
    FoldLeft(LAMBDA at, i : Searched(env, budget, at, i),
             [now |-> env.planning, asked |-> 0, failed |-> FALSE, found |-> <<>>],
             Searches(plan))

\* Summarizing: every source in turn while the run's time lasts.  A page that
\* cannot be fetched is listed with that remark; a model that fails ends the run.
Summarized(env, budget, at, url) ==
    IF at.failed \/ at.now >= budget THEN at
    ELSE [at EXCEPT !.now = @ + env.reading[url],
                    !.failed = env.page[url] = "model fails",
                    !.sources = IF env.page[url] = "model fails" THEN @
                                ELSE Append(@, [url |-> url, page |-> env.page[url]])]

Summarize(env, budget, collected) ==
    FoldLeft(LAMBDA at, url : Summarized(env, budget, at, url),
             [now |-> collected.now, failed |-> FALSE, sources |-> <<>>],
             collected.found)

-----------------------------------------------------------------------------
(* The run: for the chat, a note is left only on request and never after   *)
(* an empty search; a search of its own always leaves one.                 *)

Outcome(kind, now, sources, note) ==
    [kind |-> kind, now |-> now, sources |-> sources, note |-> note]

RunForChat(env, query, hint, languages, budget, save) ==
    LET collected == Collect(env, budget, Plan(env, query, hint, languages))
        summed == Summarize(env, budget, collected)
    IN CASE collected.failed -> Outcome("error", collected.now, <<>>, FALSE)
         [] ~collected.failed /\ collected.found = <<>>
               -> Outcome("nothing", collected.now, <<>>, FALSE)
         [] OTHER -> IF summed.failed THEN Outcome("error", summed.now, <<>>, FALSE)
                     ELSE Outcome("done", summed.now, summed.sources, save)

Run(env, query, languages, budget) ==
    LET collected == Collect(env, budget, Plan(env, query, Blank, languages))
        summed == Summarize(env, budget, collected)
    IN IF collected.failed \/ summed.failed THEN Outcome("error", summed.now, <<>>, FALSE)
       ELSE Outcome("done", summed.now, summed.sources, TRUE)

-----------------------------------------------------------------------------
(* One fetch: redirects are followed, each checked, up to a limit.  The    *)
(* answers are those of the successive requests.                           *)

Followed(at, answer) ==
    IF at.result # "open" THEN at
    ELSE [asked |-> at.asked + 1,
          result |-> CASE answer = "redirect" -> "open"
                       [] answer \in {"refused", "lost redirect", "wrong type"} -> "unsafe"
                       [] answer = "http error" -> "error"
                       [] answer = "page" -> "page"]

SafeFetch(answers) ==
    LET last == FoldLeft(Followed, [asked |-> 0, result |-> "open"],
                         SubSeq(answers, 1, MaxRedirects + 1))
    IN IF last.result = "open" THEN [last EXCEPT !.result = "too many"] ELSE last
=============================================================================
