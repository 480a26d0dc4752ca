------------------------------ MODULE AgentRun ------------------------------
(***************************************************************************)
(* What a run of the chat agent promises the turn queue about the images   *)
(* it submits: any number by the generate_image tool, or a single forced   *)
(* one at the end when the tool submitted none.                            *)
(***************************************************************************)
VARIABLES
    image,      \* how images were submitted in this run
    running     \* whether the run goes on

vars == <<image, running>>

Init == image = "none" /\ running = TRUE

ToolImage ==
    /\ running /\ image # "forced"
    /\ image' = "tool" /\ UNCHANGED running

ForcedImage ==
    /\ running /\ image = "none"
    /\ image' = "forced" /\ UNCHANGED running

Finish ==
    /\ running
    /\ running' = FALSE /\ UNCHANGED image

\* The server restarts, and the turn is run anew.
Again == image' = "none" /\ running' = TRUE

Next == ToolImage \/ ForcedImage \/ Finish \/ Again

Spec == Init /\ [][Next]_vars /\ <>[](running = FALSE)
=============================================================================
