----------------------------- MODULE ChatAgent ------------------------------
(***************************************************************************)
(* One run of the chat agent (ChatService.run) over a turn: the tool loop, *)
(* the audit of what the reply claims, one corrective round, and the image *)
(* job that is forced when the reply shows an image nobody generates.      *)
(*                                                                         *)
(* The language model is free: it calls any tool, replies with or without  *)
(* image links, and its audit may name any action, or not parse.  The      *)
(* server may stop between a tool's effect and its receipt; the turn is    *)
(* then run again under the same id.                                       *)
(***************************************************************************)
EXTENDS Naturals, Sequences, FiniteSets

CONSTANTS
    Tools,          \* tools the model may call, as far as a run tells them apart
    MaxIterations,  \* MAX_TOOL_ITERATIONS
    MaxCalls,       \* tool calls in one reply
    MaxCrashes

\* The actions an audit may ask for, in the order of their retry.
Audited == <<"update_memory", "create_note", "web_search", "read_note_attachment",
             "generate_image">>
AuditedActions == {Audited[i] : i \in DOMAIN Audited}

ASSUME ToolsAssumption == Tools \subseteq AuditedActions \cup {"other"}
ASSUME BoundsAssumption ==
    MaxIterations \in Nat \ {0} /\ MaxCalls \in Nat \ {0} /\ MaxCrashes \in Nat

VARIABLES
    session,    \* whether the run belongs to a session (a spoken question does not)
    pc, round,  \* where the run is; the first or the corrective tool loop
    asks,       \* model calls of this tool loop
    calls,      \* tool calls of the last reply still to be executed
    executed,   \* tools run in this run, with their outcomes
    content,    \* the reply
    audit,      \* the last audit
    forced,     \* pending_actions: whether an image job was forced
    unrecorded, \* effects of tools the session's ledger has no receipt of
    linked,     \* history: links of the model's last reply
    crashes

vars == <<session, pc, round, asks, calls, executed, content, audit, forced,
          unrecorded, linked, crashes>>
replyVars == <<content, audit, forced, linked>>

Outcomes == {"success", "plain", "error"}
Run == [tool : Tools, outcome : Outcomes]
Links == {"external", "fake"}
Content == [text : BOOLEAN, links : SUBSET Links]
NoContent == [text |-> FALSE, links |-> {}]
NoAudit == [source |-> "none", missing |-> {}]

TypeOK ==
    /\ session \in BOOLEAN
    /\ pc \in {"ask", "call", "record", "audit", "finish", "force", "done", "raised"}
    /\ round \in 1..2 /\ asks \in 0..MaxIterations
    /\ calls \in Seq(Tools) /\ executed \subseteq Run
    /\ content \in Content /\ linked \subseteq Links
    /\ audit \in [source : {"none", "llm", "error"}, missing : SUBSET AuditedActions]
    /\ forced \in BOOLEAN
    /\ unrecorded \in Nat /\ crashes \in Nat

-----------------------------------------------------------------------------
(* What the guardrails read off the tools that ran.                        *)

\* What a tool may return.  A result counts as a success when it carries the
\* tool's marker (created, success, summary, description, queued); the memory
\* tool and an image without a session report an error instead.
OutcomesOf(tool) ==
    CASE tool = "generate_image" -> IF session THEN {"success", "error"} ELSE {"error"}
      [] tool \in {"create_note", "update_memory", "web_search"} -> {"success", "error"}
      [] OTHER -> Outcomes

Succeeded(runs, tool) ==
    [tool |-> tool, outcome |-> "success"] \in runs

\* structural_image_remediation_needed
ShowsUnmadeImage(c, runs) == c.links # {} /\ ~Succeeded(runs, "generate_image")

\* primary_retry_kind: the first action missing, in the order of Audited.
FirstMissing(missing) ==
    {Audited[i] : i \in {n \in DOMAIN Audited :
        Audited[n] \in missing /\ \A m \in 1..(n - 1) : Audited[m] \notin missing}}

\* resolve_retry_kind, as the set of at most one action to be corrected.
Correction(a, c, runs) ==
    IF a.source = "llm" /\ a.missing # {} THEN FirstMissing(a.missing)
    ELSE IF ShowsUnmadeImage(c, runs) THEN {"generate_image"} ELSE {}

\* Faulty variant: only the audit is asked.
AuditNeedsImageJob(a, c, runs) == a.source = "llm" /\ "generate_image" \in a.missing

\* needs_chat_image_job
NeedsImageJob(a, c, runs) ==
    \/ a.source = "llm" /\ "generate_image" \in a.missing
    \/ ShowsUnmadeImage(c, runs)

\* sanitize_assistant_image_content: fake links go; external ones go if an
\* image is on its way, and an empty rest is replaced by a notice.
Sanitized(c, runs) ==
    LET real == [c EXCEPT !.links = @ \ {"fake"}] IN
    IF real.links = {} \/ ~Succeeded(runs, "generate_image") THEN real
    ELSE [text |-> TRUE, links |-> {}]

\* After a forced job any link left goes.
Cleaned(c) == IF c.links = {} THEN c ELSE [text |-> TRUE, links |-> {}]

-----------------------------------------------------------------------------
Init ==
    /\ session \in BOOLEAN
    /\ pc = "ask" /\ round = 1 /\ asks = 0 /\ calls = <<>>
    /\ executed = {}
    /\ content = NoContent /\ audit = NoAudit /\ forced = FALSE
    /\ unrecorded = 0 /\ linked = {} /\ crashes = 0

\* Faulty variant: tools are offered without end.
CallToolsAgain(reply) ==
    /\ pc = "ask"
    /\ Len(reply) \in 1..MaxCalls
    /\ asks' = asks + 1
    /\ calls' = reply
    /\ pc' = "call"
    /\ UNCHANGED <<session, round, executed, replyVars, unrecorded, crashes>>

\* The model answers with tool calls, which are run one after the other.
CallTools(reply) ==
    /\ pc = "ask" /\ asks < MaxIterations
    /\ Len(reply) \in 1..MaxCalls
    /\ asks' = asks + 1
    /\ calls' = reply
    /\ pc' = "call"
    /\ UNCHANGED <<session, round, executed, replyVars, unrecorded, crashes>>

\* The model answers with text; at the latest when it gets no tools any more.
Reply(c) ==
    /\ pc = "ask"
    /\ content' = c /\ linked' = c.links
    /\ pc' = "audit"
    /\ UNCHANGED <<session, round, asks, calls, executed, audit, forced,
                   unrecorded, crashes>>

\* A tool runs; an exception becomes an error result.
ExecuteTool(outcome) ==
    /\ pc = "call" /\ calls # <<>>
    /\ outcome \in OutcomesOf(Head(calls))
    /\ executed' = executed \cup {[tool |-> Head(calls), outcome |-> outcome]}
    /\ unrecorded' = IF session THEN unrecorded + 1 ELSE unrecorded
    /\ pc' = "record"
    /\ UNCHANGED <<session, round, asks, calls, replyVars, crashes>>

\* Faulty variant: one receipt for a reply's calls.
RecordLastReceipt ==
    /\ pc = "record"
    /\ unrecorded' = IF session /\ Len(calls) = 1 THEN unrecorded - 1 ELSE unrecorded
    /\ calls' = Tail(calls)
    /\ pc' = IF calls' = <<>> THEN "ask" ELSE "call"
    /\ UNCHANGED <<session, round, asks, executed, replyVars, crashes>>

\* Its receipt is appended, if there is a session; the next call is due.
RecordReceipt ==
    /\ pc = "record"
    /\ unrecorded' = IF session THEN unrecorded - 1 ELSE unrecorded
    /\ calls' = Tail(calls)
    /\ pc' = IF calls' = <<>> THEN "ask" ELSE "call"
    /\ UNCHANGED <<session, round, asks, executed, replyVars, crashes>>

\* Faulty variant: what the model names is taken as it is.
AllNamed(named, runs) == named

\* What the audit keeps of the actions the model names.
Missing(named, runs) == {a \in named : ~Succeeded(runs, a)}

\* The audit, tried twice.  In the first round a correction starts the second.
Audit(source, named) ==
    /\ pc = "audit"
    /\ source # "llm" => named = {}
    /\ audit' = [source |-> source, missing |-> Missing(named, executed)]
    /\ IF round = 1 /\ Correction(audit', content, executed) # {}
       THEN round' = 2 /\ asks' = 0 /\ pc' = "ask"
       ELSE pc' = "finish" /\ UNCHANGED <<round, asks>>
    /\ UNCHANGED <<session, calls, executed, content, forced, unrecorded, linked,
                   crashes>>

\* The reply is cleaned, and an image job submitted where one is owed.
FinishRun ==
    /\ pc = "finish"
    /\ content' = Sanitized(content, executed)
    /\ IF session /\ NeedsImageJob(audit, content, executed)
       THEN forced' = TRUE /\ unrecorded' = unrecorded + 1 /\ pc' = "force"
       ELSE pc' = "done" /\ UNCHANGED <<forced, unrecorded>>
    /\ UNCHANGED <<session, round, asks, calls, executed, audit, linked, crashes>>

\* The forced job gets its receipt, and links left in the reply go.
RecordForced ==
    /\ pc = "force"
    /\ unrecorded' = unrecorded - 1
    /\ content' = Cleaned(content)
    /\ pc' = "done"
    /\ UNCHANGED <<session, round, asks, calls, executed, audit, forced, linked, crashes>>

\* A model call, the write of a receipt or the reading of them (a line that a
\* crash left half written) fails: the whole run does.
RunRaises ==
    /\ pc \in {"ask", "record", "audit", "force"}
    /\ pc' = "raised"
    /\ UNCHANGED <<session, round, asks, calls, executed, replyVars, unrecorded,
                   crashes>>

Ended == pc \in {"done", "raised"}

\* The server stops and runs the turn again: the receipts are still there, the
\* image jobs are not.
CrashAndRerun ==
    /\ session /\ ~Ended /\ crashes < MaxCrashes
    /\ crashes' = crashes + 1
    /\ pc' = "ask" /\ round' = 1 /\ asks' = 0 /\ calls' = <<>> /\ executed' = {}
    /\ content' = NoContent /\ audit' = NoAudit /\ linked' = {} /\ forced' = FALSE
    /\ UNCHANGED <<session, unrecorded>>

\* The turn is answered; the thread is done.
Done == Ended /\ UNCHANGED vars

Replies == UNION {[1..n -> Tools] : n \in 1..MaxCalls}

Next ==
    \/ \E reply \in Replies : CallTools(reply)
    \/ \E c \in Content : Reply(c)
    \/ \E outcome \in Outcomes : ExecuteTool(outcome)
    \/ RecordReceipt
    \/ \E source \in {"none", "llm", "error"}, named \in SUBSET (Tools \cap AuditedActions) :
          Audit(source, named)
    \/ FinishRun \/ RecordForced \/ RunRaises \/ CrashAndRerun \/ Done

\* Every model and tool call returns.
Spec == Init /\ [][Next]_vars /\ WF_vars(Next)

-----------------------------------------------------------------------------
(* What a run promises.                                                    *)

\* A reply of a session shows no image link the app cannot follow, and where
\* the model had shown one an image is on its way: by the tool in either round,
\* or forced.
ShownImagesAreMade ==
    pc = "done" /\ session =>
        /\ content.links = {}
        /\ linked # {} => forced \/ Succeeded(executed, "generate_image")

\* The ledger is behind what the tools did by at most the step in progress and
\* one effect for every crash, over all runs of the turn.
LedgerKeepsUp ==
    unrecorded <= crashes + (IF pc \in {"record", "force", "raised"} THEN 1 ELSE 0)

\* The run as the turn queue sees it.
Image == IF forced THEN "forced"
         ELSE IF Succeeded(executed, "generate_image") THEN "tool" ELSE "none"

Promise == INSTANCE AgentRun WITH image <- Image, running <- ~Ended
KeepsPromise == Promise!Spec
=============================================================================
