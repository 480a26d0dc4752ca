---------------------------- MODULE TurnRecords ------------------------------
(***************************************************************************)
(* What is put down of a turn's tool calls and what is read back: the      *)
(* receipts of the session's ledger, the auditor's evidence and verdict,   *)
(* and the loop trajectories that tags and policies learn from.            *)
(*                                                                         *)
(* The result of a call is the set of the fields it has ("failure" stands  *)
(* for success: false).  A ledger is read whole; a line that a stop cut    *)
(* short is left out of it (README, "Not modelled").                       *)
(***************************************************************************)
EXTENDS Naturals, Sequences, FiniteSets, SequencesExt

Audited == {"generate_image", "web_search", "create_note", "update_memory",
            "read_note_attachment"}

Failed(result) == result \cap {"error", "failure"} # {}

\* What makes a call done at once, by tool; and what the rest of the turn takes
\* for a success.
Settled(tool) ==
    {"created", "success"} \cup
        CASE tool = "update_memory" -> {"path"}
          [] tool = "web_search" -> {"research_note_path", "summary"}
          [] OTHER -> {}

Evident(tool) ==
    Settled(tool) \cup
        CASE tool = "generate_image" -> {"queued"}
          [] tool = "read_note_attachment" -> {"description", "text"}
          [] OTHER -> {}

\* The status a receipt gives a call.
ReceiptStatus(tool, result) ==
    IF Failed(result) THEN "failed"
    ELSE IF "queued" \in result /\ (tool = "generate_image" \/ result \cap Settled(tool) = {})
    THEN "queued" ELSE "succeeded"

Succeeded(tool, result) == ~Failed(result) /\ result \cap Evident(tool) # {}

\* What the tools really answer when they do not fail.
Answers(tool) ==
    CASE tool = "generate_image" -> {{"queued"}}
      [] tool = "web_search" -> {{"summary"}, {"summary", "research_note_path"}}
      [] tool = "create_note" -> {{"created"}}
      [] tool = "update_memory" -> {{"success", "path"}}
      [] tool = "read_note_attachment" -> {{"description"}, {"text"}, {}}

-----------------------------------------------------------------------------
(* The ledger of a session: one line per call.                             *)

Receipt(turn, tool, result) ==
    [turn |-> turn, tool |-> tool, status |-> ReceiptStatus(tool, result)]

Appended(ledger, turn, calls) ==
    ledger \o [i \in DOMAIN calls |-> Receipt(turn, calls[i].tool, calls[i].result)]

ForTurn(ledger, turn) == SelectSeq(ledger, LAMBDA r : r.turn = turn)

Recent(ledger, limit) ==
    SubSeq(ledger, IF Len(ledger) > limit THEN Len(ledger) - limit + 1 ELSE 1, Len(ledger))

HasSucceeded(batch, tool) ==
    \E i \in DOMAIN batch : batch[i].tool = tool /\ batch[i].status # "failed"

-----------------------------------------------------------------------------
(* The audit: the receipts are its evidence when there are any, the calls  *)
(* as executed otherwise; an answer that is no verdict is asked for again, *)
(* once, and so is one that names an action there is no tool for; what a   *)
(* verdict names as missing counts only if the turn did not do it.         *)

Evidence(executed, batch) ==
    IF batch # <<>> THEN {<<batch[i].tool, batch[i].status # "failed">> : i \in DOMAIN batch}
    ELSE {<<executed[i].tool, "error" \notin executed[i].result>> : i \in DOMAIN executed}

Done(executed, tool) ==
    \E i \in DOMAIN executed : executed[i].tool = tool /\ Succeeded(tool, executed[i].result)

Verdict(named, executed) ==
    [source |-> "llm", missing |-> {a \in named : ~Done(executed, a)}]

NoVerdict(source) == [source |-> source, missing |-> {}]

IsVerdict(reply) == reply.kind = "verdict" /\ reply.named \subseteq Audited

\* The replies are those the model would give one after the other: the actions
\* it names, nonsense, or an exception, after which it is not asked again.
AuditTurn(present, replies, executed) ==
    IF ~present THEN NoVerdict("none")
    ELSE LET reply == IF IsVerdict(replies[1]) \/ replies[1].kind = "exception"
                      THEN replies[1] ELSE replies[2]
         IN IF IsVerdict(reply) THEN Verdict(reply.named, executed) ELSE NoVerdict("error")

-----------------------------------------------------------------------------
(* Trajectories: appended as they come; training takes each once.          *)

Compressed(trajectories) ==
    FoldLeft(LAMBDA out, t : IF t \in ToSet(out) THEN out ELSE Append(out, t),
             <<>>, trajectories)
=============================================================================
