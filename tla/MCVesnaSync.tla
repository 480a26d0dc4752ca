----------------------------- MODULE MCVesnaSync -----------------------------
(* Small instances of VesnaSync for TLC. *)
EXTENDS VesnaSync, TLC

CONSTANTS d1, d2, p1, p2, e1, e2, e3, e4

\* Devices and decisions are interchangeable.
Symmetry == Permutations(Devices) \cup Permutations(Edits)
=============================================================================
