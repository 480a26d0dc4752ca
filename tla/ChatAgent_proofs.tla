-------------------------- MODULE ChatAgent_proofs --------------------------
(***************************************************************************)
(* A run of the chat agent for any set of tools, any limits and any number *)
(* of crashes: its types, the images its reply may show, how far the       *)
(* session's ledger may lag, and, step by step, the promise of AgentRun.   *)
(***************************************************************************)
EXTENDS ChatAgent, TLAPS

\* A step between a tool's effect and its receipt has something to record, and
\* nothing is recorded without a session.
StepInv ==
    /\ pc \in {"call", "record"} => calls # <<>>
    /\ pc = "record" /\ session => unrecorded >= 1
    /\ pc = "force" => session /\ forced /\ unrecorded >= 1
    /\ forced => pc \in {"force", "done", "raised"}
    /\ session \/ unrecorded = 0

\* Until the reply is cleaned it is the model's; an image the audit misses was
\* not made since.
ReplyInv ==
    /\ pc \in {"audit", "finish"} => content.links = linked
    /\ pc = "finish" /\ "generate_image" \in audit.missing
          => ~Succeeded(executed, "generate_image")

IInv == TypeOK /\ StepInv /\ ReplyInv /\ ShownImagesAreMade /\ LedgerKeepsUp

-----------------------------------------------------------------------------
LEMMA NothingYet ==
    /\ NoContent \in Content
    /\ NoAudit \in [source : {"none", "llm", "error"}, missing : SUBSET AuditedActions]
    /\ <<>> \in Seq(Tools)
  BY DEF NoContent, Content, NoAudit

LEMMA InitInv == Init => IInv
  <1> SUFFICES ASSUME Init PROVE IInv
    OBVIOUS
  <1>1. TypeOK
    <2>1. 1 \in 1..2 /\ 0 \in 0..MaxIterations /\ {} \subseteq Run /\ {} \subseteq Links
      BY BoundsAssumption
    <2>2. unrecorded \in Nat /\ crashes \in Nat
      BY DEF Init
    <2> QED BY <2>1, <2>2, NothingYet, Zenon DEF Init, TypeOK
  <1>2. StepInv /\ ReplyInv /\ ShownImagesAreMade /\ LedgerKeepsUp
    BY BoundsAssumption
       DEF Init, StepInv, ReplyInv, ShownImagesAreMade, LedgerKeepsUp, NoAudit, NoContent
  <1> QED BY <1>1, <1>2 DEF IInv

\* Taking the call that was executed off a reply's calls leaves calls.
LEMMA TailOfCalls ==
    ASSUME calls \in Seq(Tools), calls # <<>>
    PROVE  Head(calls) \in Tools /\ Tail(calls) \in Seq(Tools)
  OBVIOUS

LEMMA RepliesAreCalls ==
    ASSUME NEW reply \in Replies PROVE reply \in Seq(Tools)
  <1>1. PICK n \in 1..MaxCalls : reply \in [1..n -> Tools]
    BY DEF Replies
  <1>2. n \in Nat
    BY <1>1, BoundsAssumption
  <1> QED BY <1>1, <1>2

\* What the last step leaves of a reply shows no link, unless no image was made.
LEMMA SanitizedLinks ==
    ASSUME NEW c \in Content, NEW runs \in SUBSET Run
    PROVE  /\ Sanitized(c, runs) \in Content
           /\ Sanitized(c, runs).links # {} => ShowsUnmadeImage(c, runs)
  <1> DEFINE real == [c EXCEPT !.links = @ \ {"fake"}]
  <1>1. real \in Content /\ real.links = c.links \ {"fake"}
    BY DEF Content, Links
  <1>2. [text |-> TRUE, links |-> {}] \in Content
    BY DEF Content
  <1>3. Sanitized(c, runs) = IF real.links = {} \/ ~Succeeded(runs, "generate_image")
                             THEN real ELSE [text |-> TRUE, links |-> {}]
    BY DEF Sanitized
  <1> HIDE DEF real
  <1> QED BY <1>1, <1>2, <1>3 DEF ShowsUnmadeImage

-----------------------------------------------------------------------------
LEMMA TypeStep == ASSUME IInv, [Next]_vars PROVE TypeOK'
  <1> USE DEF IInv
  <1>1. ASSUME NEW reply \in Replies, CallTools(reply) PROVE TypeOK'
    BY <1>1, RepliesAreCalls, BoundsAssumption DEF CallTools, TypeOK, replyVars
  <1>2. ASSUME NEW c \in Content, Reply(c) PROVE TypeOK'
    BY <1>2 DEF Reply, TypeOK, Content
  <1>3. ASSUME NEW outcome \in Outcomes, ExecuteTool(outcome) PROVE TypeOK'
    <2>1. [tool |-> Head(calls), outcome |-> outcome] \in Run
      BY <1>3, TailOfCalls DEF ExecuteTool, TypeOK, Run
    <2> QED BY <1>3, <2>1 DEF ExecuteTool, TypeOK, replyVars
  <1>4. ASSUME RecordReceipt PROVE TypeOK'
    <2>1. calls # <<>>
      BY <1>4 DEF RecordReceipt, StepInv
    <2>2. unrecorded' \in Nat
      BY <1>4 DEF RecordReceipt, StepInv, TypeOK
    <2> QED BY <1>4, <2>1, <2>2, TailOfCalls DEF RecordReceipt, TypeOK, replyVars
  <1>5. ASSUME NEW source \in {"none", "llm", "error"},
               NEW named \in SUBSET (Tools \cap AuditedActions), Audit(source, named)
        PROVE TypeOK'
    <2>1. Missing(named, executed) \subseteq AuditedActions
      BY DEF Missing
    <2>2. asks' \in 0..MaxIterations /\ round' \in 1..2 /\ pc' \in {"ask", "finish"}
      BY <1>5, BoundsAssumption DEF Audit, TypeOK
    <2> QED BY <1>5, <2>1, <2>2 DEF Audit, TypeOK
  <1>6. ASSUME FinishRun PROVE TypeOK'
    <2>1. content' \in Content
      BY <1>6, SanitizedLinks DEF FinishRun, TypeOK
    <2>2. forced' \in BOOLEAN /\ unrecorded' \in Nat /\ pc' \in {"force", "done"}
      <3>1. CASE session /\ NeedsImageJob(audit, content, executed)
        BY <1>6, <3>1 DEF FinishRun, TypeOK
      <3>2. CASE ~(session /\ NeedsImageJob(audit, content, executed))
        BY <1>6, <3>2 DEF FinishRun, TypeOK
      <3> QED BY <3>1, <3>2
    <2> QED BY <1>6, <2>1, <2>2 DEF FinishRun, TypeOK
  <1>7. ASSUME RecordForced PROVE TypeOK'
    <2>1. Cleaned(content) \in Content
      BY DEF Cleaned, TypeOK, Content
    <2> QED BY <1>7, <2>1 DEF RecordForced, TypeOK, StepInv
  <1>8. ASSUME RunRaises PROVE TypeOK'
    BY <1>8 DEF RunRaises, TypeOK, replyVars
  <1>9. ASSUME CrashAndRerun PROVE TypeOK'
    <2>1. 1 \in 1..2 /\ 0 \in 0..MaxIterations /\ {} \subseteq Run /\ {} \subseteq Links
      BY BoundsAssumption
    <2>2. unrecorded' \in Nat /\ crashes' \in Nat
      BY <1>9 DEF CrashAndRerun, TypeOK
    <2> QED BY <1>9, <2>1, <2>2, NothingYet, Zenon DEF CrashAndRerun, TypeOK
  <1>10. ASSUME UNCHANGED vars PROVE TypeOK'
    BY <1>10 DEF vars, TypeOK
  <1> QED
    BY <1>1, <1>2, <1>3, <1>4, <1>5, <1>6, <1>7, <1>8, <1>9, <1>10 DEF Next, Done

LEMMA StepStep == ASSUME IInv, [Next]_vars PROVE StepInv' /\ LedgerKeepsUp'
  <1> USE DEF IInv, TypeOK, StepInv, LedgerKeepsUp
  <1>1. ASSUME NEW reply \in Replies, CallTools(reply) PROVE StepInv' /\ LedgerKeepsUp'
    <2>1. reply # <<>>
      BY <1>1, RepliesAreCalls DEF CallTools
    <2> QED BY <1>1, <2>1 DEF CallTools, replyVars
  <1>2. ASSUME NEW c \in Content, Reply(c) PROVE StepInv' /\ LedgerKeepsUp'
    BY <1>2 DEF Reply
  <1>3. ASSUME NEW outcome \in Outcomes, ExecuteTool(outcome)
        PROVE StepInv' /\ LedgerKeepsUp'
    BY <1>3 DEF ExecuteTool, replyVars
  <1>4. ASSUME RecordReceipt PROVE StepInv' /\ LedgerKeepsUp'
    BY <1>4 DEF RecordReceipt, replyVars
  <1>5. ASSUME NEW source \in {"none", "llm", "error"},
               NEW named \in SUBSET (Tools \cap AuditedActions), Audit(source, named)
        PROVE StepInv' /\ LedgerKeepsUp'
    BY <1>5 DEF Audit
  <1>6. ASSUME FinishRun PROVE StepInv' /\ LedgerKeepsUp'
    BY <1>6 DEF FinishRun
  <1>7. ASSUME RecordForced PROVE StepInv' /\ LedgerKeepsUp'
    BY <1>7 DEF RecordForced
  <1>8. ASSUME RunRaises PROVE StepInv' /\ LedgerKeepsUp'
    BY <1>8 DEF RunRaises, replyVars
  <1>9. ASSUME CrashAndRerun PROVE StepInv' /\ LedgerKeepsUp'
    BY <1>9 DEF CrashAndRerun, Ended
  <1>10. ASSUME UNCHANGED vars PROVE StepInv' /\ LedgerKeepsUp'
    BY <1>10 DEF vars
  <1> QED
    BY <1>1, <1>2, <1>3, <1>4, <1>5, <1>6, <1>7, <1>8, <1>9, <1>10 DEF Next, Done

\* Every step that leaves the reply and the tools' outcomes alone, or forgets
\* them before a reply is due.
LEMMA ReplyStep == ASSUME IInv, [Next]_vars PROVE ReplyInv' /\ ShownImagesAreMade'
  <1> USE DEF IInv, ReplyInv, ShownImagesAreMade
  <1>1. ASSUME NEW reply \in Replies, CallTools(reply)
        PROVE ReplyInv' /\ ShownImagesAreMade'
    BY <1>1 DEF CallTools
  <1>2. ASSUME NEW c \in Content, Reply(c) PROVE ReplyInv' /\ ShownImagesAreMade'
    BY <1>2 DEF Reply
  <1>3. ASSUME NEW outcome \in Outcomes, ExecuteTool(outcome)
        PROVE ReplyInv' /\ ShownImagesAreMade'
    BY <1>3 DEF ExecuteTool
  <1>4. ASSUME RecordReceipt PROVE ReplyInv' /\ ShownImagesAreMade'
    BY <1>4 DEF RecordReceipt
  <1>5. ASSUME NEW source \in {"none", "llm", "error"},
               NEW named \in SUBSET (Tools \cap AuditedActions), Audit(source, named)
        PROVE ReplyInv' /\ ShownImagesAreMade'
    <2>1. pc' \in {"ask", "finish"} /\ content'.links = linked'
      BY <1>5 DEF Audit
    <2>2. "generate_image" \in audit'.missing => ~Succeeded(executed', "generate_image")
      BY <1>5 DEF Audit, Missing
    <2> QED BY <2>1, <2>2
  <1>6. ASSUME FinishRun PROVE ReplyInv' /\ ShownImagesAreMade'
    <2>1. CASE session /\ NeedsImageJob(audit, content, executed)
      BY <1>6, <2>1 DEF FinishRun
    <2>2. CASE ~(session /\ NeedsImageJob(audit, content, executed))
      <3>1. session => content'.links = {}
        BY <1>6, <2>2, SanitizedLinks DEF FinishRun, NeedsImageJob, TypeOK
      <3>2. session /\ linked # {} => Succeeded(executed, "generate_image")
        BY <1>6, <2>2 DEF FinishRun, NeedsImageJob, ShowsUnmadeImage
      <3> QED BY <1>6, <2>2, <3>1, <3>2 DEF FinishRun
    <2> QED BY <2>1, <2>2
  <1>7. ASSUME RecordForced PROVE ReplyInv' /\ ShownImagesAreMade'
    BY <1>7 DEF RecordForced, Cleaned, StepInv
  <1>8. ASSUME RunRaises PROVE ReplyInv' /\ ShownImagesAreMade'
    BY <1>8 DEF RunRaises
  <1>9. ASSUME CrashAndRerun PROVE ReplyInv' /\ ShownImagesAreMade'
    BY <1>9 DEF CrashAndRerun
  <1>10. ASSUME UNCHANGED vars PROVE ReplyInv' /\ ShownImagesAreMade'
    BY <1>10 DEF vars
  <1> QED
    BY <1>1, <1>2, <1>3, <1>4, <1>5, <1>6, <1>7, <1>8, <1>9, <1>10 DEF Next, Done

LEMMA Invariance == Spec => []IInv
  <1>1. IInv /\ [Next]_vars => IInv'
    BY TypeStep, StepStep, ReplyStep DEF IInv
  <1> QED BY InitInv, <1>1, PTL DEF Spec

\* The variables of a run keep their types: its tools, its model calls, its
\* reply and its ledger (ChatService.run).
THEOREM TypeCorrect == Spec => []TypeOK
  <1>1. IInv => TypeOK
    BY DEF IInv
  <1> QED BY Invariance, <1>1, PTL

\* The answer of a session shows no image link, and where the model had shown
\* one an image is on its way, whatever the audit said in either round.
THEOREM ImagesAreMade == Spec => []ShownImagesAreMade
  <1>1. IInv => ShownImagesAreMade
    BY DEF IInv
  <1> QED BY Invariance, <1>1, PTL

\* The receipts lag behind the tools' effects by one step, and by one more
\* effect for every time the server stopped in a run of the turn.
THEOREM LedgerLag == Spec => []LedgerKeepsUp
  <1>1. IInv => LedgerKeepsUp
    BY DEF IInv
  <1> QED BY Invariance, <1>1, PTL

-----------------------------------------------------------------------------
(* The promise.                                                            *)

\* Running a tool can only turn "none" into "tool".
LEMMA ToolStep ==
    ASSUME IInv, NEW outcome \in Outcomes, ExecuteTool(outcome)
    PROVE  [Promise!ToolImage]_(Promise!vars)
  <1>1. ~forced /\ ~forced' /\ ~Ended /\ ~Ended'
    BY DEF IInv, StepInv, ExecuteTool, Ended, replyVars
  <1>2. Succeeded(executed, "generate_image") => Succeeded(executed', "generate_image")
    BY DEF ExecuteTool, Succeeded
  <1> QED BY <1>1, <1>2 DEF Promise!ToolImage, Promise!vars, Image

\* An image is forced only where the tool submitted none.
LEMMA FinishStep == ASSUME IInv, FinishRun PROVE [Promise!Next]_(Promise!vars)
  <1>1. ~forced /\ ~Ended /\ executed' = executed
    BY DEF IInv, StepInv, FinishRun, Ended
  <1>2. CASE session /\ NeedsImageJob(audit, content, executed)
    <2>1. ~Succeeded(executed, "generate_image")
      BY <1>2 DEF IInv, ReplyInv, FinishRun, NeedsImageJob, ShowsUnmadeImage
    <2>2. forced' /\ ~Ended'
      BY <1>2 DEF FinishRun, Ended
    <2> QED BY <1>1, <2>1, <2>2 DEF Promise!Next, Promise!ForcedImage, Image
  <1>3. CASE ~(session /\ NeedsImageJob(audit, content, executed))
    BY <1>1, <1>3 DEF FinishRun, Ended, Promise!Next, Promise!Finish, Image
  <1> QED BY <1>2, <1>3

LEMMA PromiseStep == ASSUME IInv, [Next]_vars PROVE [Promise!Next]_(Promise!vars)
  <1>1. ASSUME NEW reply \in Replies, CallTools(reply) PROVE UNCHANGED Promise!vars
    BY <1>1 DEF CallTools, replyVars, Promise!vars, Image, Ended
  <1>2. ASSUME NEW c \in Content, Reply(c) PROVE UNCHANGED Promise!vars
    BY <1>2 DEF Reply, Promise!vars, Image, Ended
  <1>3. ASSUME RecordReceipt PROVE UNCHANGED Promise!vars
    BY <1>3 DEF RecordReceipt, replyVars, Promise!vars, Image, Ended
  <1>4. ASSUME NEW source \in {"none", "llm", "error"},
               NEW named \in SUBSET (Tools \cap AuditedActions), Audit(source, named)
        PROVE UNCHANGED Promise!vars
    BY <1>4 DEF Audit, Promise!vars, Image, Ended
  <1>5. ASSUME RecordForced \/ RunRaises PROVE Promise!Finish
    <2>1. ~Ended /\ Ended' /\ forced' = forced /\ executed' = executed
      BY <1>5 DEF RecordForced, RunRaises, Ended, replyVars
    <2> QED BY <2>1 DEF Promise!Finish, Image
  <1>6. ASSUME CrashAndRerun PROVE Promise!Again
    BY <1>6 DEF CrashAndRerun, Promise!Again, Image, Ended, Succeeded
  <1>7. ASSUME UNCHANGED vars PROVE UNCHANGED Promise!vars
    BY <1>7 DEF vars, Promise!vars, Image, Ended
  <1> QED
    BY <1>1, <1>2, <1>3, <1>4, <1>5, <1>6, <1>7, ToolStep, FinishStep
       DEF Next, Done, Promise!Next

\* A run keeps what AgentRun promises the turn queue, but for its end: images
\* come from the tool, any number of them, or a single one is forced at the end
\* when the tool made none, and only a restart forgets them.
THEOREM RunsKeepPromise == Spec => Promise!Init /\ [][Promise!Next]_(Promise!vars)
  <1>1. Init => Promise!Init
    BY DEF Init, Promise!Init, Image, Ended, Succeeded
  <1>2. IInv /\ [Next]_vars => [Promise!Next]_(Promise!vars)
    BY PromiseStep
  <1> QED BY Invariance, <1>1, <1>2, PTL DEF Spec
=============================================================================
