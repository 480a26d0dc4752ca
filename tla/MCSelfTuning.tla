---------------------------- MODULE MCSelfTuning -----------------------------
(* Small instance of SelfTuning for TLC. *)
EXTENDS SelfTuning

CONSTANTS s1, memory_md, user_md, f1, f2, r1

OldProfile == <<f1>>
=============================================================================
