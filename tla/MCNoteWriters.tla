--------------------------- MODULE MCNoteWriters ---------------------------
(* Small instances of NoteWriters for TLC. *)
EXTENDS NoteWriters, AttachmentChecks, TLC
=============================================================================
