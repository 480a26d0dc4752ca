---------------------------- MODULE Conversations ----------------------------
(***************************************************************************)
(* One chat session's conversation file (ConversationStore).               *)
(*                                                                         *)
(* Every update reads the whole file, changes one message and writes the   *)
(* whole file back.  A turn is the owner's message and the assistant's     *)
(* placeholder that the route appends with it; a message's text is         *)
(* abstracted to what it stands for.                                       *)
(***************************************************************************)
EXTENDS Naturals, Sequences

CONSTANTS
    Turns,      \* messages the owner may send
    Jobs        \* ids of image jobs

\* A placeholder and a blank reply are both the empty string in the file.
Texts == {"absent", "empty", "blank", "answer", "failure"}
LooksEmpty == {"empty", "blank"}
ActionStates == {"none", "queued", "succeeded", "failed"}

\* failed is metadata.turn_failed, action the status in pending_actions and
\* images the generated attachments.
Message == [text : Texts, failed : BOOLEAN, action : ActionStates, images : SUBSET Jobs]
File == [Turns -> Message]

NoMessage == [text |-> "absent", failed |-> FALSE, action |-> "none", images |-> {}]
Placeholder == [NoMessage EXCEPT !.text = "empty"]

Has(file, t) == file[t].text # "absent"

\* update_message_content and update_message_metadata: KeyError, and no
\* change, when the message is gone.
WithText(file, t, text) == IF Has(file, t) THEN [file EXCEPT ![t].text = text] ELSE file
WithAction(file, t, status) ==
    IF Has(file, t) THEN [file EXCEPT ![t].action = status] ELSE file
Failed(file, t) ==
    IF Has(file, t) THEN [file EXCEPT ![t].text = "failure", ![t].failed = TRUE] ELSE file

\* Faulty variant: always the last message.
HoldersLast(file, t, order) ==
    LET left == {i \in DOMAIN order : Has(file, order[i])}
    IN {order[i] : i \in {n \in left : \A m \in left : m <= n}}

\* The message an image of turn t is attached to: its own, or the last one
\* left if that is gone.  order lists the turns as they were appended.
Holders(file, t, order) ==
    IF Has(file, t) THEN {t}
    ELSE LET left == {i \in DOMAIN order : Has(file, order[i])}
         IN {order[i] : i \in {n \in left : \A m \in left : m <= n}}

WithImage(file, t, order, j) ==
    [m \in Turns |-> IF m \in Holders(file, t, order)
                     THEN [file[m] EXCEPT !.images = @ \cup {j}] ELSE file[m]]

\* Faulty variant: the job's status instead of the action's.
MarkedDone(file, t, status) ==
    IF Has(file, t) /\ file[t].action # "none" THEN [file EXCEPT ![t].action = "done"] ELSE file

\* _set_pending_action_status: only an entry that is already there is changed.
Marked(file, t, status) ==
    IF Has(file, t) /\ file[t].action # "none" THEN WithAction(file, t, status) ELSE file
=============================================================================
