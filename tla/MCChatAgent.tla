---------------------------- MODULE MCChatAgent ----------------------------
(* Small instances of ChatAgent for TLC. *)
EXTENDS ChatAgent, WebSearchChecks, TurnRecordChecks, TLC
=============================================================================
