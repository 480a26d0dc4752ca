----------------------------- MODULE MCPairing -----------------------------
(* Small instances of Pairing for TLC. *)
EXTENDS Pairing, LibraryChecks, StartupChecks, TLC

Symmetry == Permutations(Devices) \cup Permutations(Codes)
=============================================================================
