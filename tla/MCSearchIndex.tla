---------------------------- MODULE MCSearchIndex ----------------------------
(* Small instance of SearchIndex for TLC. *)
EXTENDS SearchIndex, DocumentChecks

CONSTANTS n1, n2, chat

TextSizes == <<2, 1, 2>>
=============================================================================
