------------------------------ MODULE NoteEditor ------------------------------
(***************************************************************************)
(* The note screen's editor on top of note synchronisation.  The text on   *)
(* screen is kept while downloads change the mirror row under it, and      *)
(* saving goes through saveLocal, which takes the base from the row as it  *)
(* is by then.                                                             *)
(***************************************************************************)
EXTENDS VesnaSync

VARIABLE
    editor        \* the note open for editing on each device

editorVars == <<vars, editor>>

\* content is the text in the body editor; version is the loaded note's; the
\* body editor is unmounted (shown is FALSE) while the note is not in the list.
Closed == [path |-> "none"]

EditorInit == Init /\ editor = [d \in Devices |-> Closed]

OpenEditor(d, p) ==
    /\ editor[d] = Closed
    /\ Visible(mirror[d][p])
    /\ editor' = [editor EXCEPT ![d] = [path |-> p, content |-> mirror[d][p].content,
                                        version |-> mirror[d][p].version, shown |-> TRUE]]
    /\ UNCHANGED vars

\* The list was reloaded: _syncFromNote takes the row as it is now, and the
\* body editor takes its text too, unless it has the focus.
Rebuild(d, focused) ==
    LET open == editor[d]
        row == mirror[d][open.path]
    IN  /\ open # Closed
        /\ editor' = [editor EXCEPT ![d] =
              IF Visible(row)
              THEN [path |-> open.path, version |-> row.version, shown |-> TRUE,
                    content |-> IF open.shown /\ focused THEN open.content ELSE row.content]
              ELSE [open EXCEPT !.shown = FALSE]]
        /\ UNCHANGED vars

\* An unmounted body editor yields an empty text.
TextOnScreen(open) == IF open.shown THEN open.content ELSE {}

\* _save: the note as last loaded, with the text on screen.
SaveEditor(d, e) ==
    LET open == editor[d]
    IN  /\ open # Closed
        /\ Author(e)
        /\ SaveLocal(d, open.path, TextOnScreen(open) \cup {e},
                     NextVersion(mirror[d][open.path], open.version))
        /\ editor' = [editor EXCEPT ![d] = Closed]
        /\ Guess(d, open.path)
        /\ UNCHANGED <<serverVars, netVars, discarded, overwritten>>

\* Deleting the note closes its screen.
OtherStep ==
    /\ Next
    /\ editor' = [d \in Devices |->
          IF editor[d] # Closed /\ mirror'[d][editor[d].path].state = "pendingDelete"
          THEN Closed ELSE editor[d]]

EditorNext ==
    \/ OtherStep
    \/ \E d \in Devices, p \in Paths : OpenEditor(d, p)
    \/ \E d \in Devices, focused \in BOOLEAN : Rebuild(d, focused)
    \/ \E d \in Devices, e \in Edits : SaveEditor(d, e)

EditorSpec == EditorInit /\ [][EditorNext]_editorVars

=============================================================================
