---------------------------- MODULE MCNoteEditor -----------------------------
(* Small instances of NoteEditor for TLC. *)
EXTENDS NoteEditor, TLC

CONSTANTS d1, d2, p1, e1, e2, e3

\* Devices and decisions are interchangeable.
Symmetry == Permutations(Devices) \cup Permutations(Edits)
=============================================================================
