----------------------------- MODULE MCChatTurns -----------------------------
(* Small instances of ChatTurns for TLC. *)
EXTENDS ChatTurns, TLC

CONSTANTS t1, t2, t3, j1, j2
=============================================================================
